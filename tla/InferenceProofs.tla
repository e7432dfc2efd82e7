--------------------------- MODULE InferenceProofs ----------------------------
(***************************************************************************)
(* For any set of buffers: however the two tasks interleave, every buffer  *)
(* has one owner, and with three of them the driver always has one.  For   *)
(* any window, threshold and positions: the detector's one pass over its   *)
(* samples finds the longest zigzag through them.                          *)
(***************************************************************************)
EXTENDS Inference, FiniteSetTheorems, SequenceTheorems, WellFoundedInduction,
        TLAPS

\* The buffers out of the driver's hands, by who has them.
InHand == BuffersOf(hand)
InStale == BuffersOf(stale)
InSlot == BuffersOf(slot)
InMine == BuffersOf(mine)

Single(S) == \A x, y \in S : x = y

\* Nobody has more than one frame, ...
OneEach == Single(InHand) /\ Single(InStale) /\ Single(InSlot) /\ Single(InMine)

\* ... no two have the same, and none of them is the driver's, ...
Apart ==
  /\ InHand \cap InStale = {} /\ InHand \cap InSlot = {} /\ InHand \cap InMine = {}
  /\ InStale \cap InSlot = {} /\ InStale \cap InMine = {} /\ InSlot \cap InMine = {}
  /\ pool \cap InHand = {} /\ pool \cap InStale = {}
  /\ pool \cap InSlot = {} /\ pool \cap InMine = {}

Complete == pool \cup InHand \cup InStale \cup InSlot \cup InMine = Buffers

\* ... and a task has a frame only at the places where it works on it.
Places ==
  /\ capture \in {"grab", "publish", "notify"}
  /\ infer \in {"wait", "take", "run", "return"}
  /\ capture \in {"grab", "notify"} => hand = {}
  /\ capture \in {"grab", "publish"} => stale = {}
  /\ infer \in {"wait", "take"} => mine = {}

OwnerInv == OneEach /\ Apart /\ Complete /\ Places

\* What is in no frame, and in one.
LEMMA BuffersOfFew ==
  /\ BuffersOf({}) = {}
  /\ \A b, t : BuffersOf({[buf |-> b, ts |-> t]}) = {b}
BY DEF BuffersOf

\* The capture task's steps pass a frame on.
LEMMA CaptureKeepsOwners ==
  ASSUME OwnerInv, CaptureStep
  PROVE  OwnerInv'
<1>1. UNCHANGED <<infer, mine>> /\ InMine' = InMine
  BY DEF CaptureStep, Grab, Publish, Notify, inferVars, InMine
<1>2. CASE Grab
  <2>1. PICK b \in pool : pool' = pool \ {b} /\ hand' = {[buf |-> b, ts |-> now']}
    BY <1>2 DEF Grab
  <2>2. InHand = {} /\ InHand' = {b}
    BY <1>2, <2>1, BuffersOfFew DEF Grab, OwnerInv, Places, InHand
  <2>3. /\ UNCHANGED <<stale, slot>> /\ capture = "grab" /\ capture' = "publish"
        /\ InStale' = InStale /\ InSlot' = InSlot
    BY <1>2 DEF Grab, InStale, InSlot
  <2>4. OneEach' /\ Apart' /\ Complete'
    BY <1>1, <2>1, <2>2, <2>3 DEF OwnerInv, OneEach, Single, Apart, Complete
  <2> QED
    BY <1>1, <2>3, <2>4 DEF OwnerInv, Places
<1>3. CASE Publish
  <2>1. InStale = {} /\ InHand' = {} /\ InStale' = InSlot /\ InSlot' = InHand
    BY <1>3, BuffersOfFew
       DEF Publish, OwnerInv, Places, InHand, InStale, InSlot
  <2>2. UNCHANGED pool /\ capture' = "notify" /\ hand' = {}
    BY <1>3 DEF Publish
  <2>3. OneEach' /\ Apart' /\ Complete'
    BY <1>1, <2>1, <2>2 DEF OwnerInv, OneEach, Single, Apart, Complete
  <2> QED
    BY <1>1, <2>2, <2>3 DEF OwnerInv, Places
<1>4. CASE Notify
  <2>1. pool' = pool \cup InStale /\ InStale' = {} /\ UNCHANGED <<hand, slot>>
    BY <1>4, BuffersOfFew DEF Notify, InStale
  <2>2. InHand' = InHand /\ InSlot' = InSlot
    BY <2>1 DEF InHand, InSlot
  <2>3. capture = "notify" /\ capture' = "grab" /\ stale' = {}
    BY <1>4 DEF Notify
  <2>4. OneEach' /\ Apart' /\ Complete'
    BY <1>1, <2>1, <2>2 DEF OwnerInv, OneEach, Single, Apart, Complete
  <2> QED
    BY <1>1, <2>1, <2>3, <2>4 DEF OwnerInv, Places
<1> QED
  BY <1>2, <1>3, <1>4 DEF CaptureStep

\* So do those of the inference task.
LEMMA InferKeepsOwners ==
  ASSUME OwnerInv, InferStep
  PROVE  OwnerInv'
<1>1. UNCHANGED <<capture, hand, stale>> /\ InHand' = InHand /\ InStale' = InStale
  BY DEF InferStep, Wake, Take, Run, Return, captureVars, InHand, InStale
<1>2. CASE Wake \/ \E x \in Positions \cup {NoHand} : Run(x)
  <2>1. UNCHANGED <<pool, slot, mine>> /\ InSlot' = InSlot /\ InMine' = InMine
        /\ (infer' \in {"wait", "take"} => infer \in {"wait", "take"})
        /\ infer' \in {"take", "return"}
    BY <1>2 DEF Wake, Run, InSlot, InMine
  <2> QED
    BY <1>1, <2>1
       DEF OwnerInv, OneEach, Single, Apart, Complete, Places
<1>3. CASE Take
  <2>1. InMine = {} /\ InMine' = InSlot /\ InSlot' = {} /\ UNCHANGED pool
    BY <1>3, BuffersOfFew DEF Take, OwnerInv, Places, InMine, InSlot
  <2>2. infer' \in {"wait", "run"} /\ (infer' = "wait" => mine' = {})
    BY <1>3 DEF Take
  <2>3. OneEach' /\ Apart' /\ Complete'
    BY <1>1, <2>1 DEF OwnerInv, OneEach, Single, Apart, Complete
  <2> QED
    BY <1>1, <2>2, <2>3 DEF OwnerInv, Places
<1>4. CASE Return
  <2>1. pool' = pool \cup InMine /\ InMine' = {} /\ InSlot' = InSlot
    BY <1>4, BuffersOfFew DEF Return, InMine, InSlot
  <2>2. mine' = {} /\ infer' = "wait"
    BY <1>4 DEF Return
  <2>3. OneEach' /\ Apart' /\ Complete'
    BY <1>1, <2>1 DEF OwnerInv, OneEach, Single, Apart, Complete
  <2> QED
    BY <1>1, <2>2, <2>3 DEF OwnerInv, Places
<1> QED
  BY <1>2, <1>3, <1>4 DEF InferStep

\* A set of one at most is of that size.
LEMMA SizeOfSingle ==
  ASSUME NEW S, Single(S)
  PROVE  IsFiniteSet(S) /\ Cardinality(S) \in {0, 1}
<1>1. CASE S = {}
  BY <1>1, FS_EmptySet
<1>2. CASE S # {}
  <2>1. PICK x \in S : S = {x}
    BY <1>2 DEF Single
  <2> QED
    BY <2>1, FS_Singleton
<1> QED
  BY <1>1, <1>2

\* When a frame is wanted, the slot and the inference task have two at most.
LEMMA DriverHasOne ==
  ASSUME OwnerInv, capture = "grab", Cardinality(Buffers) >= 3
  PROVE  pool # {}
<1>1. SUFFICES ASSUME pool = {} PROVE FALSE
  OBVIOUS
<1>2. InHand = {} /\ InStale = {}
  BY BuffersOfFew DEF OwnerInv, Places, InHand, InStale
<1>3. Buffers = InSlot \cup InMine
  BY <1>1, <1>2 DEF OwnerInv, Complete
<1>4. /\ IsFiniteSet(InSlot) /\ Cardinality(InSlot) \in {0, 1}
      /\ IsFiniteSet(InMine) /\ Cardinality(InMine) \in {0, 1}
  BY SizeOfSingle DEF OwnerInv, OneEach
<1>5. InSlot \cap InMine = {}
  BY DEF OwnerInv, Apart
<1>6. Cardinality(Buffers) = Cardinality(InSlot) + Cardinality(InMine)
  BY <1>3, <1>4, <1>5, FS_Union, FS_EmptySet
<1> QED
  BY <1>4, <1>6

\* One owner each, and one buffer in the driver's hands, is what is claimed.
LEMMA OwnersSuffice == OwnerInv => BuffersSuffice
<1>1. SUFFICES ASSUME OwnerInv PROVE BuffersSuffice
  OBVIOUS
<1>2. /\ BuffersOf(Held[1]) = InHand /\ BuffersOf(Held[2]) = InStale
      /\ BuffersOf(Held[3]) = InSlot /\ BuffersOf(Held[4]) = InMine
  BY DEF Held, InHand, InStale, InSlot, InMine
<1>3. \A i \in 1..4 : i = 1 \/ i = 2 \/ i = 3 \/ i = 4
  OBVIOUS
<1>4. \A i, j \in 1..4 :
        i # j => BuffersOf(Held[i]) \cap BuffersOf(Held[j]) = {}
  BY <1>1, <1>2, <1>3 DEF OwnerInv, Apart
<1>5. \A i \in 1..4 : BuffersOf(Held[i]) \cap pool = {}
  BY <1>1, <1>2, <1>3 DEF OwnerInv, Apart
<1>6. UNION {BuffersOf(Held[i]) : i \in 1..4}
        = InHand \cup InStale \cup InSlot \cup InMine
  <2>1. {BuffersOf(Held[i]) : i \in 1..4} = {InHand, InStale, InSlot, InMine}
    BY <1>2, <1>3
  <2> QED
    BY <2>1
<1>7. pool \cup UNION {BuffersOf(Held[i]) : i \in 1..4} = Buffers
  BY <1>1, <1>6 DEF OwnerInv, Complete
<1> QED
  BY <1>1, <1>4, <1>5, <1>7, DriverHasOne DEF BuffersSuffice

\* Every buffer has one owner, and three are enough.
THEOREM ThreeBuffersSuffice == Spec => []BuffersSuffice
<1>1. Init => OwnerInv
  BY BuffersOfFew DEF Init, OwnerInv, OneEach, Single, Apart, Complete, Places,
     InHand, InStale, InSlot, InMine
<1>2. OwnerInv /\ [Next]_vars => OwnerInv'
  <2>1. CASE UNCHANGED vars
    BY <2>1 DEF vars, captureVars, inferVars, OwnerInv, OneEach, Apart,
       Complete, Places, InHand, InStale, InSlot, InMine
  <2> QED
    BY <2>1, CaptureKeepsOwners, InferKeepsOwners DEF Next
<1> QED
  BY <1>1, <1>2, OwnersSuffice, PTL DEF Spec

-----------------------------------------------------------------------------
(***************************************************************************)
(* The wave detector's count.  Numbers first: a set of numbers has a least *)
(* member, and what goes up by one reaches every number.                   *)
(***************************************************************************)
LEMMA Least ==
  ASSUME NEW T \in SUBSET Nat, T # {}
  PROVE  \E x \in T : \A y \in T : x <= y
<1> DEFINE R == OpToRel(<, Nat)
<1>1. IsWellFoundedOn(R, Nat)
  BY Zenon, NatLessThanWellFounded
<1>2. \A x, y \in Nat : <<x, y>> \in R <=> x < y
  BY DEF OpToRel
<1> HIDE DEF R
<1>3. PICK x \in T : \A y \in T : ~(<<y, x>> \in R)
  BY <1>1, WFMin
<1>4. ASSUME NEW y \in T PROVE x <= y
  <2>1. x \in Nat /\ y \in Nat /\ ~(y < x)
    BY <1>2, <1>3
  <2> QED
    BY <2>1
<1> QED
  BY <1>4

\* Induction over the positions of a sequence, with the set of those for which
\* something holds.
LEMMA Reaches ==
  ASSUME NEW n \in Nat, NEW B, 1 \in B,
         \A i \in 1..n : i \in B /\ i + 1 <= n => i + 1 \in B
  PROVE  \A i \in 1..n : i \in B
<1> DEFINE T == {i \in 1..n : i \notin B}
<1> SUFFICES ASSUME T # {} PROVE FALSE
  OBVIOUS
<1>1. T \in SUBSET Nat
  OBVIOUS
<1>2. PICK x \in T : \A y \in T : x <= y
  <2> HIDE DEF T
  <2> QED
    BY <1>1, Least
<1>3. x \in 1..n /\ x \notin B /\ x # 1
  BY <1>2
<1>4. x - 1 \in 1..n /\ (x - 1) + 1 = x /\ ~(x <= x - 1)
  BY <1>3
<1>5. x - 1 \in B
  <2>1. x - 1 \notin T
    BY <1>2, <1>4
  <2> QED
    BY <1>4, <2>1
<1> QED
  BY <1>3, <1>4, <1>5

\* A set of positions with one in it has a last one.
LEMMA Greatest ==
  ASSUME NEW n \in Nat, NEW S \in SUBSET (1..n), S # {}
  PROVE  \E x \in S : \A y \in S : y <= x
<1> DEFINE T == {u \in 0..n : \A y \in S : y <= u}
<1>1. T \in SUBSET Nat /\ n \in T
  OBVIOUS
<1>2. PICK x \in T : \A y \in T : x <= y
  <2> HIDE DEF T
  <2> QED
    BY <1>1, Least
<1>3. x \in S
  <2> SUFFICES ASSUME x \notin S PROVE FALSE
    OBVIOUS
  <2>1. PICK z : z \in S
    OBVIOUS
  <2>2. \A y \in S : y <= x - 1
    <3> SUFFICES ASSUME NEW y \in S PROVE y <= x - 1
      OBVIOUS
    <3>1. y \in Nat /\ x \in Nat /\ y <= x /\ y # x
      BY <1>2
    <3> QED
      BY <3>1
  <2>3. x - 1 \in 0..n
    <3>1. z \in 1..n /\ z <= x - 1 /\ x \in 0..n
      BY <2>1, <2>2
    <3> QED
      BY <3>1
  <2>4. x - 1 \in T /\ ~(x <= x - 1)
    BY <2>2, <2>3
  <2> QED
    BY <1>2, <2>4
<1> QED
  BY <1>2, <1>3

-----------------------------------------------------------------------------
(***************************************************************************)
(* One turn of the loop.                                                   *)
(***************************************************************************)
LoopStates == [dir : {-1, 0, 1}, ext : Int, rev : Nat]

\* How far d goes in a direction.
Along(dir, d) == IF dir = 1 THEN d ELSE -d

\* The five things the loop may do with a position: nothing yet, a first
\* swing, the swing goes on, jitter, or a reversal.
Still(a, b, x) == a.dir = 0 /\ b = a /\ ~Away(x - a.ext)

First(a, b, x) ==
  /\ a.dir = 0 /\ b.dir \in {-1, 1} /\ b.ext = x /\ b.rev = a.rev
  /\ Along(b.dir, x - a.ext) >= Threshold

Further(a, b, x) ==
  /\ a.dir \in {-1, 1} /\ b.dir = a.dir /\ b.ext = x /\ b.rev = a.rev
  /\ Along(a.dir, x - a.ext) > 0

Jitter(a, b, x) ==
  /\ a.dir \in {-1, 1} /\ b = a /\ Along(a.dir, x - a.ext) <= 0
  /\ Along(a.dir, x - a.ext) > -Threshold

Reversal(a, b, x) ==
  /\ a.dir \in {-1, 1} /\ b.dir = -a.dir /\ b.ext = x /\ b.rev = a.rev + 1
  /\ Along(a.dir, x - a.ext) <= -Threshold

\* There is no sixth.
LEMMA TurnIs ==
  ASSUME NEW a \in LoopStates, NEW x \in Int
  PROVE  LET b == Turn(a, x)
         IN  /\ b \in LoopStates
             /\ \/ Still(a, b, x) \/ First(a, b, x) \/ Further(a, b, x)
                \/ Jitter(a, b, x) \/ Reversal(a, b, x)
<1> DEFINE d == x - a.ext
           b == Turn(a, x)
<1>1. /\ a.dir \in {-1, 0, 1} /\ a.ext \in Int /\ a.rev \in Nat /\ d \in Int
      /\ a = [dir |-> a.dir, ext |-> a.ext, rev |-> a.rev]
  BY DEF LoopStates
<1>2. Threshold \in Nat /\ Threshold > 0
  BY DetectorAssumption
<1>3. CASE a.dir = 0 /\ Away(d)
  <2>1. b = [a EXCEPT !.dir = Sign(d), !.ext = x]
    BY <1>3 DEF Turn
  <2>2. b = [dir |-> Sign(d), ext |-> x, rev |-> a.rev]
    BY <1>1, <2>1
  <2>3. Sign(d) \in {-1, 1} /\ Along(Sign(d), d) >= Threshold
    BY <1>1, <1>2, <1>3 DEF Sign, Along, Away
  <2> QED
    BY <1>1, <1>3, <2>2, <2>3 DEF First, LoopStates
<1>4. CASE a.dir = 0 /\ ~Away(d)
  <2>1. b = a
    BY <1>4 DEF Turn
  <2> QED
    BY <1>4, <2>1 DEF Still
<1>5. ASSUME NEW dir \in {-1, 1}, a.dir = dir
      PROVE  b \in LoopStates
             /\ (Further(a, b, x) \/ Jitter(a, b, x) \/ Reversal(a, b, x))
  <2>1. /\ a.dir # 0 /\ (d * a.dir > 0 <=> Along(dir, d) > 0)
        /\ d * a.dir <= 0 /\ Away(d) <=> Along(dir, d) <= -Threshold
        /\ Along(dir, d) \in Int
    <3>1. CASE dir = 1
      BY <1>1, <1>2, <1>5, <3>1 DEF Along, Away
    <3>2. CASE dir = -1
      BY <1>1, <1>2, <1>5, <3>2 DEF Along, Away
    <3> QED
      BY <3>1, <3>2
  <2>2. CASE Along(dir, d) > 0
    <3>1. b = [a EXCEPT !.ext = x]
      <4>1. a.dir # 0 /\ d * a.dir > 0 /\ ~(d * a.dir <= 0)
        BY <1>1, <1>2, <1>5, <2>1, <2>2
      <4> QED
        BY <4>1 DEF Turn
    <3>2. b = [dir |-> dir, ext |-> x, rev |-> a.rev]
      BY <1>1, <1>5, <3>1
    <3> QED
      BY <1>1, <1>5, <2>2, <3>2 DEF Further, LoopStates
  <2>3. CASE Along(dir, d) <= -Threshold
    <3>1. b = [dir |-> -a.dir, ext |-> x, rev |-> a.rev + 1]
      BY <1>2, <1>5, <2>1, <2>3 DEF Turn
    <3> QED
      BY <1>1, <1>5, <2>3, <3>1 DEF Reversal, LoopStates
  <2>4. CASE ~(Along(dir, d) > 0) /\ ~(Along(dir, d) <= -Threshold)
    <3>1. b = a
      BY <1>2, <1>5, <2>1, <2>4 DEF Turn
    <3> QED
      BY <1>1, <1>2, <1>5, <2>1, <2>4, <3>1 DEF Jitter
  <2> QED
    BY <2>2, <2>3, <2>4
<1> QED
  BY <1>1, <1>3, <1>4, <1>5

-----------------------------------------------------------------------------
(***************************************************************************)
(* The loop is never behind.  A zigzag through some of the positions so    *)
(* far, with m swings, at z in the end and in direction dir there, has no  *)
(* more swings than the loop has noticed; where it has as many, or one     *)
(* less, and heads the same way, the loop's extreme is no nearer.          *)
(***************************************************************************)
Noticed(a) == IF a.dir = 0 THEN 0 ELSE a.rev + 1

Bound(a, m, z, dir) ==
  /\ m <= Noticed(a)
  /\ a.dir = 0 => z = a.ext
  /\ a.dir # 0 /\ m >= a.rev /\ (m = 0 \/ dir = a.dir) =>
       Along(a.dir, a.ext - z) >= 0
  /\ a.dir # 0 /\ m = a.rev + 1 => dir = a.dir

\* A zigzag that leaves out the new position.
LEMMA BoundStays ==
  ASSUME NEW a \in LoopStates, NEW b \in LoopStates, NEW x \in Int,
         \/ Still(a, b, x) \/ First(a, b, x) \/ Further(a, b, x)
         \/ Jitter(a, b, x) \/ Reversal(a, b, x),
         a.dir = 0 => a.rev = 0,
         NEW m \in Nat, NEW z \in Int, NEW dir \in {-1, 1}, Bound(a, m, z, dir)
  PROVE  Bound(b, m, z, dir)
<1>1. /\ a.dir \in {-1, 0, 1} /\ a.ext \in Int /\ a.rev \in Nat
      /\ b.dir \in {-1, 0, 1} /\ b.ext \in Int /\ b.rev \in Nat
      /\ Threshold \in Nat /\ Threshold > 0
  BY DetectorAssumption DEF LoopStates
<1>2. CASE Still(a, b, x) \/ Jitter(a, b, x)
  BY <1>2 DEF Still, Jitter
<1>3. CASE First(a, b, x)
  BY <1>1, <1>3 DEF First, Bound, Noticed, Along
<1>4. CASE Further(a, b, x)
  BY <1>1, <1>4 DEF Further, Bound, Noticed, Along
<1>5. CASE Reversal(a, b, x)
  BY <1>1, <1>5 DEF Reversal, Bound, Noticed, Along
<1> QED
  BY <1>2, <1>3, <1>4, <1>5

\* A zigzag that swings to the new position.
LEMMA BoundSwings ==
  ASSUME NEW a \in LoopStates, NEW b \in LoopStates, NEW x \in Int,
         \/ Still(a, b, x) \/ First(a, b, x) \/ Further(a, b, x)
         \/ Jitter(a, b, x) \/ Reversal(a, b, x),
         a.dir = 0 => a.rev = 0,
         NEW m \in Nat, NEW z \in Int, NEW dir \in {-1, 1}, Bound(a, m, z, dir),
         NEW to \in {-1, 1}, m = 0 \/ to = -dir, Along(to, x - z) >= Threshold
  PROVE  Bound(b, m + 1, x, to)
<1>1. /\ a.dir \in {-1, 0, 1} /\ a.ext \in Int /\ a.rev \in Nat
      /\ b.dir \in {-1, 0, 1} /\ b.ext \in Int /\ b.rev \in Nat
      /\ Threshold \in Nat /\ Threshold > 0
  BY DetectorAssumption DEF LoopStates
<1>2. CASE Still(a, b, x)
  BY <1>1, <1>2 DEF Still, Away, Bound, Noticed, Along
<1>3. CASE First(a, b, x)
  BY <1>1, <1>3 DEF First, Bound, Noticed, Along
<1>4. CASE Further(a, b, x)
  BY <1>1, <1>4 DEF Further, Bound, Noticed, Along
<1>5. CASE Jitter(a, b, x)
  BY <1>1, <1>5 DEF Jitter, Bound, Noticed, Along
<1>6. CASE Reversal(a, b, x)
  BY <1>1, <1>6 DEF Reversal, Bound, Noticed, Along
<1> QED
  BY <1>2, <1>3, <1>4, <1>5, <1>6

-----------------------------------------------------------------------------
(***************************************************************************)
(* Zigzags: positions of samples, the first one among them.                *)
(***************************************************************************)
Samples == [ts : Int, x : Int]

\* The zigzag at has m swings, the last one in direction dir to position l.
Swung(s, at, m, l, dir) ==
  /\ ZigZag(s, at) /\ 1 \in at /\ Cardinality(at) = m + 1
  /\ l \in at /\ \A k \in at : k <= l
  /\ \A p \in at : Adjacent(at, p, l) => dir = Sign(s[l].x - s[p].x)

\* A swing is as far as the threshold, in its direction.
LEMMA SwingIs ==
  ASSUME NEW d \in Int, NEW dir \in {-1, 1}
  PROVE  /\ Along(dir, d) >= Threshold <=> Away(d) /\ Sign(d) = dir
         /\ Along(dir, d) \in Int
BY DetectorAssumption DEF Along, Away, Sign

\* Samples have a position each, and sets of them are finite.
LEMMA SamplesAre ==
  ASSUME NEW s \in Seq(Samples)
  PROVE  /\ Len(s) \in Nat /\ \A i \in 1..Len(s) : s[i].x \in Int
         /\ \A at \in SUBSET (1..Len(s)) : IsFiniteSet(at)
<1>1. Len(s) \in Nat
  BY LenProperties
<1>2. ASSUME NEW i \in 1..Len(s) PROVE s[i].x \in Int
  <2>1. s[i] \in Samples
    BY ElementOfSeq
  <2> QED
    BY <2>1 DEF Samples
<1>3. IsFiniteSet(1..Len(s))
  BY <1>1, FS_Interval
<1> QED
  BY <1>1, <1>2, <1>3, FS_Subset

\* No swings leave the first position.
LEMMA NoSwings ==
  ASSUME NEW n \in Nat, NEW at \in SUBSET (1..n), 1 \in at, Cardinality(at) = 1
  PROVE  at = {1}
<1>1. IsFiniteSet(at)
  <2>1. IsFiniteSet(1..n)
    BY FS_Interval
  <2> QED
    BY <2>1, FS_Subset
<1>2. Cardinality({1}) = 1
  BY FS_Singleton
<1>3. {1} \in SUBSET at
  OBVIOUS
<1> QED
  BY <1>1, <1>2, <1>3, FS_Subset

\* What a position j behind the others, of which l is the last, changes in who
\* follows whom.
Follows(at, all, l, j) ==
  /\ \A p, q \in at : Adjacent(all, p, q) <=> Adjacent(at, p, q)
  /\ \A p \in at : Adjacent(all, p, j) <=> p = l
  /\ \A p \in all : ~Adjacent(all, j, p)

\* It follows the one that was last.
LEMMA AdjacentAdded ==
  ASSUME NEW n \in Nat, NEW at \in SUBSET (1..n), NEW l \in at,
         \A k \in at : k <= l, NEW j \in 1..n, l < j,
         NEW all, all = at \cup {j}
  PROVE  Follows(at, all, l, j)
<1>1. \A k \in at : k \in Nat /\ k < j
  <2> SUFFICES ASSUME NEW k \in at PROVE k \in Nat /\ k < j
    OBVIOUS
  <2>1. k \in Nat /\ l \in Nat /\ k <= l /\ j \in Nat
    OBVIOUS
  <2> QED
    BY <2>1
<1>2. ASSUME NEW p \in at, NEW q \in at
      PROVE  Adjacent(all, p, q) <=> Adjacent(at, p, q)
  BY <1>1 DEF Adjacent
<1>3. ASSUME NEW p \in at PROVE Adjacent(all, p, j) <=> p = l
  <2>1. CASE p = l
    <3>1. \A k \in all : ~(l < k /\ k < j)
      BY <1>1
    <3> QED
      BY <2>1, <3>1 DEF Adjacent
  <2>2. CASE p # l
    <3>1. p < l /\ l < j /\ l \in all
      <4>1. p <= l /\ p \in Nat /\ l \in Nat
        BY <1>1
      <4> QED
        BY <2>2, <4>1
    <3> QED
      BY <2>2, <3>1 DEF Adjacent
  <2> QED
    BY <2>1, <2>2
<1>4. ASSUME NEW p \in all PROVE ~Adjacent(all, j, p)
  <2>1. ~(j < p)
    BY <1>1
  <2> QED
    BY <2>1 DEF Adjacent
<1> QED
  BY <1>2, <1>3, <1>4 DEF Follows

\* From l at the end of the zigzag at, a swing to j in direction to is next.
CanSwing(s, at, m, l, dir, j, to) ==
  /\ at \in SUBSET (1..Len(s)) /\ m \in Nat /\ dir \in {-1, 1}
  /\ Swung(s, at, m, l, dir) /\ j \in 1..Len(s) /\ l < j
  /\ to \in {-1, 1} /\ (m = 0 \/ to = -dir)
  /\ Along(to, s[j].x - s[l].x) >= Threshold

\* With it the zigzag is longer.
LEMMA SwingAdded ==
  ASSUME NEW s \in Seq(Samples), NEW at, NEW m, NEW l, NEW dir, NEW j, NEW to,
         CanSwing(s, at, m, l, dir, j, to),
         NEW all, all = at \cup {j}, NEW more, more = m + 1
  PROVE  Swung(s, all, more, j, to)
<1>0. /\ at \in SUBSET (1..Len(s)) /\ m \in Nat /\ dir \in {-1, 1}
      /\ Swung(s, at, m, l, dir) /\ j \in 1..Len(s) /\ l < j
      /\ to \in {-1, 1} /\ (m = 0 \/ to = -dir)
      /\ Along(to, s[j].x - s[l].x) >= Threshold
  BY DEF CanSwing
<1> USE <1>0
<1>1. /\ Len(s) \in Nat /\ IsFiniteSet(at) /\ l \in at /\ 1 \in at
      /\ \A k \in at : k <= l
      /\ \A i \in 1..Len(s) : s[i].x \in Int
  BY SamplesAre DEF Swung
<1>2. /\ \A p, q \in at : Adjacent(all, p, q) <=> Adjacent(at, p, q)
      /\ \A p \in at : Adjacent(all, p, j) <=> p = l
      /\ \A p \in all : ~Adjacent(all, j, p)
  <2> DEFINE n == Len(s)
  <2>1. n \in Nat /\ at \in SUBSET (1..n) /\ j \in 1..n
    BY <1>1
  <2>2. l \in at /\ \A k \in at : k <= l
    BY <1>1
  <2> HIDE DEF n
  <2>3. Follows(at, all, l, j)
    BY <2>1, <2>2, AdjacentAdded
  <2> QED
    BY <2>3 DEF Follows
<1>3. Away(s[j].x - s[l].x) /\ Sign(s[j].x - s[l].x) = to
  <2> DEFINE d == s[j].x - s[l].x
  <2>1. d \in Int /\ Along(to, d) >= Threshold
    BY <1>1
  <2> HIDE DEF d
  <2>2. Away(d) /\ Sign(d) = to
    BY <2>1, SwingIs
  <2> QED
    BY <2>2 DEF d
<1>4. \A k \in all : k <= j
  <2> SUFFICES ASSUME NEW k \in at PROVE k <= j
    OBVIOUS
  <2>1. k \in Nat /\ l \in Nat /\ k <= l /\ j \in Nat
    BY <1>1
  <2> QED
    BY <2>1
<1>5. Cardinality(all) = more + 1
  <2>1. j \notin at
    <3>1. j \in Nat /\ l \in Nat /\ ~(j <= l)
      BY <1>1
    <3> QED
      BY <1>1, <3>1
  <2>2. Cardinality(at) = m + 1
    BY DEF Swung
  <2> QED
    BY <1>1, <2>1, <2>2, FS_AddElement
<1>6. ASSUME NEW p \in all, NEW q \in all, Adjacent(all, p, q)
      PROVE  Away(s[q].x - s[p].x)
  <2>1. p \in at
    BY <1>2, <1>6
  <2>2. CASE q = j
    BY <1>2, <1>3, <1>6, <2>1, <2>2
  <2>3. CASE q \in at
    BY <1>2, <1>6, <2>1, <2>3 DEF Swung, ZigZag
  <2> QED
    BY <2>2, <2>3
<1>7. ASSUME NEW p \in all, NEW q \in all, NEW r \in all,
             Adjacent(all, p, q), Adjacent(all, q, r)
      PROVE  Sign(s[q].x - s[p].x) # Sign(s[r].x - s[q].x)
  <2>1. p \in at /\ q \in at
    BY <1>2, <1>7
  <2>2. CASE r = j
    <3>1. q = l /\ Adjacent(at, p, l)
      BY <1>2, <1>7, <2>1, <2>2
    <3>2. dir = Sign(s[l].x - s[p].x)
      BY <2>1, <3>1 DEF Swung
    <3>3. m # 0
      <4> SUFFICES ASSUME m = 0 PROVE FALSE
        OBVIOUS
      <4>1. at = {1}
        <5>1. Cardinality(at) = 1
          BY DEF Swung
        <5> DEFINE n == Len(s)
        <5>2. n \in Nat /\ at \in SUBSET (1..n)
          BY <1>1
        <5> HIDE DEF n
        <5> QED
          BY <1>1, <5>1, <5>2, NoSwings
      <4> QED
        BY <1>1, <2>1, <3>1, <4>1 DEF Adjacent
    <3>4. to = -dir /\ to # dir
      BY <3>3
    <3> QED
      BY <1>3, <2>2, <3>1, <3>2, <3>4
  <2>3. CASE r \in at
    BY <1>2, <1>7, <2>1, <2>3 DEF Swung, ZigZag
  <2> QED
    BY <2>2, <2>3
<1>8. ZigZag(s, all)
  <2>1. \A p, q \in all : Adjacent(all, p, q) => Away(s[q].x - s[p].x)
    BY <1>6
  <2>2. \A p, q, r \in all : Adjacent(all, p, q) /\ Adjacent(all, q, r) =>
          Sign(s[q].x - s[p].x) # Sign(s[r].x - s[q].x)
    BY <1>7
  <2> QED
    BY <2>1, <2>2 DEF ZigZag
<1>9. ASSUME NEW p \in all, Adjacent(all, p, j)
      PROVE  to = Sign(s[j].x - s[p].x)
  <2>1. p = l
    BY <1>2, <1>9
  <2> QED
    BY <1>3, <2>1
<1>10. 1 \in all /\ j \in all
  BY <1>1
<1> QED
  BY <1>4, <1>5, <1>8, <1>9, <1>10 DEF Swung

\* The zigzag at is another one and a swing in direction to.
SwungBefore(s, at, m, j, to) ==
  \E l \in at \ {j} : /\ Swung(s, at \ {j}, m - 1, l, -to) /\ l < j
                      /\ Along(to, s[j].x - s[l].x) >= Threshold

\* Without its last swing it is a zigzag still, which headed the other way.
LEMMA SwingRemoved ==
  ASSUME NEW s \in Seq(Samples), NEW at \in SUBSET (1..Len(s)), NEW m \in Nat,
         m # 0, NEW j, NEW to \in {-1, 1}, Swung(s, at, m, j, to)
  PROVE  SwungBefore(s, at, m, j, to) /\ j # 1
<1> DEFINE few == at \ {j}
<1>1. /\ Len(s) \in Nat /\ IsFiniteSet(at) /\ j \in at /\ 1 \in at
      /\ \A k \in at : k <= j
      /\ \A i \in 1..Len(s) : s[i].x \in Int
  BY SamplesAre DEF Swung
<1>2. j # 1
  <2> SUFFICES ASSUME j = 1 PROVE FALSE
    OBVIOUS
  <2>1. ASSUME NEW k \in at PROVE k = 1
    <3>1. k \in 1..Len(s) /\ k <= 1
      BY <1>1
    <3> QED
      BY <1>1, <3>1
  <2>2. at = {1}
    BY <1>1, <2>1
  <2>3. Cardinality(at) = 1
    BY <2>2, FS_Singleton
  <2> QED
    BY <2>3 DEF Swung
<1>3. few \in SUBSET (1..Len(s)) /\ 1 \in few
  BY <1>1, <1>2
<1>4. PICK l \in few : \A k \in few : k <= l
  <2> HIDE DEF few
  <2> QED
    BY <1>1, <1>3, Greatest
<1>5. l \in Nat /\ j \in Nat /\ l < j /\ at = few \cup {j} /\ j \in 1..Len(s)
  <2>1. l \in 1..Len(s) /\ j \in 1..Len(s) /\ l <= j /\ l # j
    BY <1>1
  <2> QED
    BY <1>1, <2>1
<1> HIDE DEF few
<1>6. /\ \A p, q \in few : Adjacent(at, p, q) <=> Adjacent(few, p, q)
      /\ Adjacent(at, l, j)
  <2> DEFINE n == Len(s)
  <2>1. n \in Nat /\ few \in SUBSET (1..n) /\ j \in 1..n
    BY <1>1, <1>3, <1>5
  <2> HIDE DEF n
  <2>2. l \in few /\ (\A k \in few : k <= l) /\ l < j /\ at = few \cup {j}
    BY <1>4, <1>5
  <2>3. Follows(few, at, l, j)
    BY <2>1, <2>2, AdjacentAdded
  <2> QED
    BY <2>2, <2>3 DEF Follows
<1>7. /\ Away(s[j].x - s[l].x) /\ Sign(s[j].x - s[l].x) = to
      /\ s[j].x - s[l].x \in Int
  <2>1. l \in at /\ l \in 1..Len(s) /\ j \in at
    BY <1>1, <1>3, <1>5
  <2>2. Away(s[j].x - s[l].x)
    BY <1>6, <2>1 DEF Swung, ZigZag
  <2>3. to = Sign(s[j].x - s[l].x)
    BY <1>6, <2>1 DEF Swung
  <2>4. s[j].x \in Int /\ s[l].x \in Int
    BY <1>1, <1>5, <2>1
  <2> QED
    BY <2>2, <2>3, <2>4
<1>8. Along(to, s[j].x - s[l].x) >= Threshold
  <2> DEFINE d == s[j].x - s[l].x
  <2> HIDE DEF d
  <2>1. Away(d) /\ Sign(d) = to /\ d \in Int
    BY <1>7 DEF d
  <2>2. Along(to, d) >= Threshold
    BY <2>1, SwingIs
  <2> QED
    BY <2>2 DEF d
<1>9. ZigZag(s, few)
  <2>1. ZigZag(s, at) /\ few \subseteq at
    BY <1>5 DEF Swung
  <2>2. \A p, q \in few : Adjacent(few, p, q) => Away(s[q].x - s[p].x)
    BY <1>6, <2>1 DEF ZigZag
  <2>3. \A p, q, r \in few : Adjacent(few, p, q) /\ Adjacent(few, q, r) =>
          Sign(s[q].x - s[p].x) # Sign(s[r].x - s[q].x)
    BY <1>6, <2>1 DEF ZigZag
  <2> QED
    BY <2>2, <2>3 DEF ZigZag
<1>10. Cardinality(few) = (m - 1) + 1
  <2>1. Cardinality(at) = m + 1
    BY DEF Swung
  <2>2. Cardinality(at \ {j}) = Cardinality(at) - 1
    BY <1>1, FS_RemoveElement
  <2> QED
    BY <2>1, <2>2 DEF few
<1>11. ASSUME NEW p \in few, Adjacent(few, p, l)
       PROVE  -to = Sign(s[l].x - s[p].x)
  <2>1. Adjacent(at, p, l) /\ p \in at /\ l \in at
    BY <1>5, <1>6, <1>11
  <2>2. Sign(s[l].x - s[p].x) # Sign(s[j].x - s[l].x)
    BY <1>1, <1>6, <2>1 DEF Swung, ZigZag
  <2> QED
    BY <1>7, <2>2 DEF Sign
<1>12. Swung(s, few, m - 1, l, -to)
  BY <1>3, <1>4, <1>9, <1>10, <1>11 DEF Swung
<1> QED
  BY <1>2, <1>5, <1>8, <1>12 DEF few, SwungBefore

\* A last swing that goes on ends at the later position.
LEMMA SwingMoved ==
  ASSUME NEW s \in Seq(Samples), NEW at \in SUBSET (1..Len(s)), NEW m \in Nat,
         m # 0, NEW l, NEW dir \in {-1, 1}, Swung(s, at, m, l, dir),
         NEW j \in 1..Len(s), l < j, Along(dir, s[j].x - s[l].x) >= 0,
         NEW all, all = (at \ {l}) \cup {j}
  PROVE  Swung(s, all, m, j, dir)
<1>0. PICK p \in at \ {l} :
             /\ Swung(s, at \ {l}, m - 1, p, -dir) /\ p < l
             /\ Along(dir, s[l].x - s[p].x) >= Threshold
  <2>1. SwungBefore(s, at, m, l, dir)
    BY SwingRemoved
  <2> QED
    BY <2>1 DEF SwungBefore
<1> DEFINE few == at \ {l}
           k == m - 1
<1>1. /\ p \in few /\ Swung(s, few, k, p, -dir) /\ p < l
      /\ Along(dir, s[l].x - s[p].x) >= Threshold
  BY <1>0
<1>2. k \in Nat /\ k + 1 = m /\ -dir \in {-1, 1} /\ dir = -(-dir)
  OBVIOUS
<1>3. few \in SUBSET (1..Len(s)) /\ l \in 1..Len(s) /\ p \in 1..Len(s)
  BY DEF Swung
<1>4. p < j
  BY <1>1, <1>3
<1>5. Along(dir, s[j].x - s[p].x) >= Threshold
  <2>1. s[j].x \in Int /\ s[l].x \in Int /\ s[p].x \in Int /\ Threshold \in Nat
    BY <1>3, SamplesAre, DetectorAssumption
  <2> DEFINE a == s[j].x
             b == s[l].x
             c == s[p].x
  <2>2. /\ a \in Int /\ b \in Int /\ c \in Int
        /\ Along(dir, b - c) >= Threshold /\ Along(dir, a - b) >= 0
    BY <1>1, <2>1
  <2> HIDE DEF a, b, c
  <2>3. Along(dir, a - c) >= Threshold
    BY <2>1, <2>2 DEF Along
  <2> QED
    BY <2>3 DEF a, c
<1> HIDE DEF few, k
<1> DEFINE back == -dir
<1>6. back \in {-1, 1} /\ (k = 0 \/ dir = -back) /\ Swung(s, few, k, p, back)
  BY <1>1, <1>2
<1> HIDE DEF back
<1>7. all = few \cup {j} /\ few \in SUBSET (1..Len(s)) /\ k \in Nat /\ m = k + 1
  BY <1>2, <1>3 DEF few
<1>8. CanSwing(s, few, k, p, back, j, dir)
  BY <1>4, <1>5, <1>6, <1>7 DEF CanSwing
<1> QED
  BY <1>7, <1>8, SwingAdded

\* Every zigzag has a number of swings, an end and a direction.
LEMMA ZigZagEnds ==
  ASSUME NEW s \in Seq(Samples), NEW at \in SUBSET (1..Len(s)), 1 \in at,
         ZigZag(s, at)
  PROVE  \E m \in Nat, l \in at, dir \in {-1, 1} : Swung(s, at, m, l, dir)
<1> DEFINE n == Len(s)
           m == Cardinality(at) - 1
<1>1. n \in Nat /\ IsFiniteSet(at) /\ at \in SUBSET (1..n)
  BY SamplesAre
<1>2. PICK l \in at : \A k \in at : k <= l
  <2> HIDE DEF n
  <2> QED
    BY <1>1, Greatest
<1>3. m \in Nat /\ Cardinality(at) = m + 1
  <2>1. Cardinality(at) \in Nat /\ Cardinality(at) # 0
    BY <1>1, FS_CardinalityType, FS_EmptySet
  <2> QED
    BY <2>1
<1>4. \A p, q \in at : Adjacent(at, p, l) /\ Adjacent(at, q, l) => p = q
  <2> SUFFICES ASSUME NEW p \in at, NEW q \in at,
                      Adjacent(at, p, l), Adjacent(at, q, l)
               PROVE  p = q
    OBVIOUS
  <2>1. p \in Nat /\ q \in Nat /\ ~(p < q) /\ ~(q < p)
    BY <1>1 DEF Adjacent
  <2> QED
    BY <2>1
<1>5. \E dir \in {-1, 1} :
        \A p \in at : Adjacent(at, p, l) => dir = Sign(s[l].x - s[p].x)
  <2>1. CASE \E q \in at : Adjacent(at, q, l)
    <3>1. PICK q \in at : Adjacent(at, q, l)
      BY <2>1
    <3>2. Sign(s[l].x - s[q].x) \in {-1, 1}
      BY DEF Sign
    <3>3. \A p \in at : Adjacent(at, p, l) => p = q
      BY <1>4, <3>1
    <3> QED
      BY <3>2, <3>3
  <2>2. CASE ~\E q \in at : Adjacent(at, q, l)
    BY <2>2
  <2> QED
    BY <2>1, <2>2
<1> QED
  BY <1>2, <1>3, <1>5 DEF Swung

-----------------------------------------------------------------------------
(***************************************************************************)
(* The loop over the samples.                                              *)
(***************************************************************************)
LoopStart(s) == [dir |-> 0, ext |-> s[1].x, rev |-> 0]

\* What the recursion says of a function that goes as far as k.
IsLoop(s, k, f) ==
  f = [i \in 1..k |-> IF i = 1 THEN LoopStart(s) ELSE Turn(f[i - 1], s[i].x)]

\* There is such a function, ...
LEMMA LoopExists ==
  ASSUME NEW s \in Seq(Samples)
  PROVE  \E f : IsLoop(s, Len(s), f)
<1> DEFINE B == {k \in Nat : \E f : IsLoop(s, k, f)}
           n == Len(s)
<1>1. n \in Nat
  BY SamplesAre
<1>2. 1 \in B /\ 0 \in B
  <2>1. IsLoop(s, 1, [i \in 1..1 |-> LoopStart(s)])
    BY DEF IsLoop
  <2>2. IsLoop(s, 0, [i \in 1..0 |-> LoopStart(s)])
    BY DEF IsLoop
  <2> QED
    BY <2>1, <2>2
<1>3. ASSUME NEW k \in 1..n, k \in B PROVE k + 1 \in B
  <2>1. PICK f : IsLoop(s, k, f)
    BY <1>3
  <2> DEFINE g == [i \in 1..(k + 1) |-> IF i <= k THEN f[i]
                                        ELSE Turn(f[k], s[k + 1].x)]
  <2>2. \A i \in 1..k : g[i] = f[i]
    OBVIOUS
  <2>3. ASSUME NEW i \in 1..(k + 1)
        PROVE  g[i] = IF i = 1 THEN LoopStart(s) ELSE Turn(g[i - 1], s[i].x)
    <3>1. CASE i <= k
      <4>1. f[i] = IF i = 1 THEN LoopStart(s) ELSE Turn(f[i - 1], s[i].x)
        BY <2>1, <3>1 DEF IsLoop
      <4>2. i # 1 => g[i - 1] = f[i - 1]
        BY <2>2, <3>1
      <4>3. g[i] = f[i]
        BY <2>2, <3>1
      <4> HIDE DEF g
      <4> QED
        BY <4>1, <4>2, <4>3
    <3>2. CASE i = k + 1
      <4>1. g[i] = Turn(f[k], s[k + 1].x) /\ g[k] = f[k]
        BY <3>2
      <4>2. i # 1 /\ i - 1 = k
        BY <3>2
      <4> HIDE DEF g
      <4> QED
        BY <3>2, <4>1, <4>2
    <3> QED
      BY <3>1, <3>2
  <2>4. IsLoop(s, k + 1, g)
    <3>1. g = [i \in 1..(k + 1) |-> g[i]]
      OBVIOUS
    <3> HIDE DEF g
    <3> QED
      BY <2>3, <3>1 DEF IsLoop
  <2> HIDE DEF g
  <2> QED
    BY <2>4
<1> HIDE DEF B
<1>4. \A i \in 1..n : i \in B
  <2> HIDE DEF n
  <2> QED
    BY <1>1, <1>2, <1>3, Reaches
<1>5. n \in B
  <2>1. n = 0 \/ n \in 1..n
    BY <1>1
  <2> HIDE DEF n
  <2> QED
    BY <1>2, <1>4, <2>1
<1> QED
  BY <1>5 DEF B

\* ... and Turned() is one.
LEMMA TurnedIs ==
  ASSUME NEW s \in Seq(Samples)
  PROVE  /\ Len(s) >= 1 => Turned(s)[1] = LoopStart(s)
         /\ \A i \in 1..Len(s) :
              i + 1 <= Len(s) =>
                Turned(s)[i + 1] = Turn(Turned(s)[i], s[i + 1].x)
<1>1. IsLoop(s, Len(s), Turned(s))
  BY LoopExists DEF Turned, IsLoop, LoopStart
<1> DEFINE f == Turned(s)
<1> HIDE DEF f
<1>2. Len(s) \in Nat
  BY SamplesAre
<1>3. \A i \in 1..Len(s) :
        f[i] = IF i = 1 THEN LoopStart(s) ELSE Turn(f[i - 1], s[i].x)
  BY <1>1 DEF IsLoop, f
<1>4. Len(s) >= 1 => f[1] = LoopStart(s)
  BY <1>2, <1>3
<1>5. ASSUME NEW i \in 1..Len(s), i + 1 <= Len(s)
      PROVE  f[i + 1] = Turn(f[i], s[i + 1].x)
  <2>1. i + 1 \in 1..Len(s) /\ i + 1 # 1 /\ (i + 1) - 1 = i
    BY <1>2, <1>5
  <2> QED
    BY <1>3, <2>1
<1> QED
  BY <1>4, <1>5 DEF f

-----------------------------------------------------------------------------
(***************************************************************************)
(* What holds after each position: no zigzag so far has more swings than   *)
(* the loop has noticed, and one has as many, and ends at its extreme.     *)
(***************************************************************************)
LoopTypes(s, i) ==
  LET a == Turned(s)[i]
  IN  /\ a \in LoopStates /\ (a.dir = 0 => a.rev = 0 /\ a.ext = s[1].x)
      /\ i = 1 => a.dir = 0
      /\ i <= 2 => a.rev = 0

\* Some zigzag through the first i positions has m swings, the last one in
\* direction dir to where the hand is at z.
Ends(s, i, m, z, dir) ==
  \E at \in SUBSET (1..i) : \E l \in at : Swung(s, at, m, l, dir) /\ s[l].x = z

NeverBehind(s, i) ==
  \A m \in Nat, z \in Int, dir \in {-1, 1} :
    Ends(s, i, m, z, dir) => Bound(Turned(s)[i], m, z, dir)

Caught(a, s, i) ==
  \E dir \in {-1, 1} : /\ Ends(s, i, Noticed(a), a.ext, dir)
                       /\ a.dir # 0 => dir = a.dir

Witnessed(s, i) == Caught(Turned(s)[i], s, i)

LoopInv(s, i) == LoopTypes(s, i) /\ NeverBehind(s, i) /\ Witnessed(s, i)

\* A position more leaves the zigzags there are.
LEMMA EndsKept ==
  ASSUME NEW s, NEW i \in Nat, NEW m, NEW z, NEW dir, Ends(s, i, m, z, dir)
  PROVE  Ends(s, i + 1, m, z, dir)
<1>1. \A at \in SUBSET (1..i) : at \in SUBSET (1..(i + 1))
  OBVIOUS
<1> QED
  BY <1>1 DEF Ends

\* A swing back to the new position makes a longer one, ...
LEMMA EndsAdded ==
  ASSUME NEW s \in Seq(Samples), NEW i \in 1..Len(s), NEW j \in 1..Len(s),
         j = i + 1, NEW m \in Nat, NEW z, NEW dir \in {-1, 1},
         Ends(s, i, m, z, dir), NEW to \in {-1, 1}, m = 0 \/ to = -dir,
         Along(to, s[j].x - z) >= Threshold, NEW more, more = m + 1
  PROVE  Ends(s, j, more, s[j].x, to)
<1>1. PICK at \in SUBSET (1..i) :
             \E l \in at : Swung(s, at, m, l, dir) /\ s[l].x = z
  BY DEF Ends
<1>2. PICK l \in at : Swung(s, at, m, l, dir) /\ s[l].x = z
  BY <1>1
<1> DEFINE all == at \cup {j}
<1>3. at \in SUBSET (1..Len(s)) /\ l < j /\ all = at \cup {j}
  <2>1. Len(s) \in Nat
    BY SamplesAre
  <2>2. \A k \in 1..i : k \in 1..Len(s) /\ k < j
    BY <2>1
  <2> QED
    BY <2>2
<1>4. Along(to, s[j].x - s[l].x) >= Threshold
  BY <1>2
<1>5. Swung(s, all, more, j, to)
  <2>1. CanSwing(s, at, m, l, dir, j, to)
    BY <1>2, <1>3, <1>4 DEF CanSwing
  <2> HIDE DEF all
  <2> QED
    BY <1>3, <2>1, SwingAdded
<1>6. all \in SUBSET (1..j) /\ j \in all
  <2>1. 1..i \subseteq 1..j /\ j \in 1..j
    OBVIOUS
  <2> QED
    BY <2>1
<1> QED
  BY <1>5, <1>6 DEF Ends

\* ... and one further the same way lets the last swing end there.
LEMMA EndsMoved ==
  ASSUME NEW s \in Seq(Samples), NEW i \in 1..Len(s), NEW j \in 1..Len(s),
         j = i + 1, NEW m \in Nat, m # 0, NEW z, NEW dir \in {-1, 1},
         Ends(s, i, m, z, dir), Along(dir, s[j].x - z) >= 0
  PROVE  Ends(s, j, m, s[j].x, dir)
<1>1. PICK at \in SUBSET (1..i) :
             \E l \in at : Swung(s, at, m, l, dir) /\ s[l].x = z
  BY DEF Ends
<1>2. PICK l \in at : Swung(s, at, m, l, dir) /\ s[l].x = z
  BY <1>1
<1>3. at \in SUBSET (1..Len(s)) /\ l < j
  <2>1. Len(s) \in Nat
    BY SamplesAre
  <2>2. \A k \in 1..i : k \in 1..Len(s) /\ k < j
    BY <2>1
  <2> QED
    BY <2>2
<1>4. Along(dir, s[j].x - s[l].x) >= 0
  BY <1>2
<1> DEFINE all == (at \ {l}) \cup {j}
<1>5. Swung(s, all, m, j, dir)
  <2>1. at \in SUBSET (1..Len(s)) /\ m # 0 /\ l < j /\ all = (at \ {l}) \cup {j}
    BY <1>3
  <2>2. Swung(s, at, m, l, dir)
    BY <1>2
  <2> HIDE DEF all
  <2> QED
    BY <1>4, <2>1, <2>2, SwingMoved
<1>6. all \in SUBSET (1..j) /\ j \in all
  <2>1. 1..i \subseteq 1..j /\ j \in 1..j
    OBVIOUS
  <2> QED
    BY <2>1
<1> QED
  BY <1>5, <1>6 DEF Ends

\* The zigzag is a shorter one and a swing to position j.
EndsBefore(s, i, j, m, z, dir) ==
  /\ m # 0 /\ z = s[j].x
  /\ \E y \in Int : Ends(s, i, m - 1, y, -dir) /\ Along(dir, z - y) >= Threshold

\* There are no other zigzags with the new position than these.
LEMMA EndsWas ==
  ASSUME NEW s \in Seq(Samples), NEW i \in 1..Len(s), NEW j \in 1..Len(s),
         j = i + 1, NEW m \in Nat, NEW z, NEW dir \in {-1, 1},
         Ends(s, j, m, z, dir)
  PROVE  Ends(s, i, m, z, dir) \/ EndsBefore(s, i, j, m, z, dir)
<1>1. PICK at \in SUBSET (1..j) :
             \E l \in at : Swung(s, at, m, l, dir) /\ s[l].x = z
  BY DEF Ends
<1>2. PICK l \in at : Swung(s, at, m, l, dir) /\ s[l].x = z
  BY <1>1
<1>3. at \in SUBSET (1..Len(s)) /\ Len(s) \in Nat
  BY SamplesAre
<1>4. CASE j \notin at
  <2>1. at \in SUBSET (1..i)
    BY <1>4
  <2> QED
    BY <1>2, <2>1 DEF Ends
<1>5. CASE j \in at
  <2>1. l = j
    <3>1. j <= l /\ l \in 1..j
      BY <1>2, <1>5 DEF Swung
    <3> QED
      BY <3>1
  <2>2. m # 0
    <3> SUFFICES ASSUME m = 0 PROVE FALSE
      OBVIOUS
    <3>1. 1 \in at /\ Cardinality(at) = 1
      BY <1>2 DEF Swung
    <3>2. at = {1}
      <4>1. j \in Nat
        OBVIOUS
      <4> QED
        BY <3>1, <4>1, NoSwings
    <3> QED
      BY <1>5, <3>2
  <2>3. SwungBefore(s, at, m, l, dir)
    BY <1>2, <1>3, <2>2, SwingRemoved
  <2>4. PICK p \in at \ {l} : /\ Swung(s, at \ {l}, m - 1, p, -dir) /\ p < l
                              /\ Along(dir, s[l].x - s[p].x) >= Threshold
    BY <2>3 DEF SwungBefore
  <2>5. at \ {l} \in SUBSET (1..i) /\ p \in at \ {l}
    BY <2>1
  <2>6. Ends(s, i, m - 1, s[p].x, -dir)
    BY <2>4, <2>5 DEF Ends
  <2>7. s[p].x \in Int
    <3>1. p \in 1..Len(s)
      BY <1>3
    <3> QED
      BY <3>1, SamplesAre
  <2>8. Along(dir, z - s[p].x) >= Threshold
    BY <1>2, <2>4
  <2>9. z = s[j].x
    BY <1>2, <2>1
  <2> QED
    BY <2>2, <2>6, <2>7, <2>8, <2>9 DEF EndsBefore
<1> QED
  BY <1>4, <1>5

\* At the first position there is one zigzag, which has no swing.
LEMMA FirstPosition ==
  ASSUME NEW s \in Seq(Samples), Len(s) >= 1
  PROVE  LoopInv(s, 1)
<1> DEFINE a == Turned(s)[1]
<1>1. 1 \in 1..Len(s) /\ s[1].x \in Int
  BY SamplesAre
<1>2. a = [dir |-> 0, ext |-> s[1].x, rev |-> 0]
  BY TurnedIs DEF LoopStart
<1> HIDE DEF a
<1>3. LoopTypes(s, 1)
  BY <1>1, <1>2 DEF LoopTypes, LoopStates, a
<1>4. Cardinality({1}) = 1
  BY FS_Singleton
<1>5. ASSUME NEW at \in SUBSET (1..1), NEW m \in Nat, NEW l \in at,
             NEW dir \in {-1, 1}, Swung(s, at, m, l, dir)
      PROVE  Bound(a, m, s[l].x, dir)
  <2>1. \A k \in at : k = 1
    OBVIOUS
  <2>2. l = 1 /\ at = {1}
    BY <2>1
  <2>3. m = 0
    BY <1>4, <1>5, <2>2 DEF Swung
  <2> QED
    BY <1>2, <2>2, <2>3 DEF Bound, Noticed
<1>6. NeverBehind(s, 1)
  BY <1>5 DEF NeverBehind, Ends, a
<1>7. Swung(s, {1}, 0, 1, 1)
  BY <1>4 DEF Swung, ZigZag, Adjacent
<1>8. Ends(s, 1, 0, s[1].x, 1)
  <2>1. {1} \in SUBSET (1..1) /\ 1 \in {1}
    OBVIOUS
  <2> QED
    BY <1>7, <2>1 DEF Ends
<1>9. Noticed(a) = 0 /\ a.ext = s[1].x /\ a.dir = 0
  BY <1>2 DEF Noticed
<1>10. Witnessed(s, 1)
  BY <1>8, <1>9 DEF Witnessed, Caught, a
<1> QED
  BY <1>3, <1>6, <1>10 DEF LoopInv

\* The zigzag that is as long as the loop knows goes along with it.
LEMMA CatchesUp ==
  ASSUME NEW s \in Seq(Samples), NEW i \in 1..Len(s), NEW j \in 1..Len(s),
         j = i + 1, NEW a \in LoopStates, NEW b \in LoopStates,
         NEW x \in Int, x = s[j].x,
         \/ Still(a, b, x) \/ First(a, b, x) \/ Further(a, b, x)
         \/ Jitter(a, b, x) \/ Reversal(a, b, x),
         a.dir = 0 => a.rev = 0, Caught(a, s, i)
  PROVE  Caught(b, s, j)
<1>1. PICK dir \in {-1, 1} : /\ Ends(s, i, Noticed(a), a.ext, dir)
                             /\ a.dir # 0 => dir = a.dir
  BY DEF Caught
<1>2. /\ a.dir \in {-1, 0, 1} /\ a.rev \in Nat /\ a.ext \in Int
      /\ b.dir \in {-1, 0, 1} /\ b.rev \in Nat /\ b.ext \in Int
      /\ Threshold \in Nat
  BY DetectorAssumption DEF LoopStates
<1> DEFINE m == Noticed(a)
           z == a.ext
<1>3. m \in Nat /\ z \in Int /\ Ends(s, i, m, z, dir)
  BY <1>1, <1>2 DEF Noticed
<1>4. CASE Still(a, b, x) \/ Jitter(a, b, x)
  <2>1. b = a /\ i \in Nat
    BY <1>4 DEF Still, Jitter
  <2>2. Ends(s, j, Noticed(a), a.ext, dir)
    BY <1>1, <2>1, EndsKept
  <2> QED
    BY <1>1, <2>1, <2>2 DEF Caught
<1>5. CASE First(a, b, x)
  <2>1. /\ b.dir \in {-1, 1} /\ b.ext = x /\ m = 0 /\ Noticed(b) = m + 1
        /\ Along(b.dir, x - z) >= Threshold
    BY <1>2, <1>5 DEF First, Noticed
  <2> DEFINE to == b.dir
             more == m + 1
  <2>2. to \in {-1, 1} /\ Along(to, s[j].x - z) >= Threshold /\ m = 0 /\ more = m + 1
    BY <2>1
  <2> HIDE DEF m, z, to, more
  <2>3. Ends(s, j, more, s[j].x, to)
    BY <1>3, <2>2, EndsAdded
  <2>4. Noticed(b) = more /\ b.ext = s[j].x /\ b.dir = to
    BY <2>1, <2>2 DEF to
  <2>5. Ends(s, j, Noticed(b), b.ext, to)
    BY <2>3, <2>4
  <2> QED
    BY <2>2, <2>4, <2>5, Zenon DEF Caught
<1>6. CASE Further(a, b, x)
  <2>1. /\ dir = a.dir /\ b.dir = dir /\ b.ext = x /\ Noticed(b) = m
        /\ m # 0 /\ Along(dir, x - z) >= 0
    BY <1>1, <1>2, <1>6 DEF Further, Noticed, Along
  <2> HIDE DEF m, z
  <2>2. Along(dir, s[j].x - z) >= 0
    BY <2>1
  <2>3. Ends(s, j, m, s[j].x, dir)
    BY <1>3, <2>1, <2>2, EndsMoved
  <2> QED
    BY <2>1, <2>3 DEF Caught
<1>7. CASE Reversal(a, b, x)
  <2> DEFINE to == -dir
             d == x - z
             more == m + 1
  <2>1. /\ dir = a.dir /\ b.dir = to /\ b.ext = x /\ Noticed(b) = m + 1
        /\ to \in {-1, 1}
    BY <1>1, <1>2, <1>7 DEF Reversal, Noticed
  <2>2. Along(dir, d) <= -Threshold /\ d \in Int
    BY <1>2, <1>7, <2>1 DEF Reversal
  <2>3. Along(to, d) >= Threshold
    <3> HIDE DEF d
    <3> QED
      BY <1>2, <2>2 DEF Along
  <2> HIDE DEF m, z
  <2>4. /\ to = -dir /\ to \in {-1, 1} /\ Along(to, s[j].x - z) >= Threshold
        /\ more = m + 1
    BY <2>1, <2>3
  <2> HIDE DEF to, d, more
  <2>5. Ends(s, j, more, s[j].x, to)
    BY <1>3, <2>4, EndsAdded
  <2>6. Noticed(b) = more /\ b.ext = s[j].x /\ b.dir = to
    BY <2>1, <2>4
  <2>7. Ends(s, j, Noticed(b), b.ext, to)
    BY <2>5, <2>6
  <2> QED
    BY <2>4, <2>6, <2>7, Zenon DEF Caught
<1> QED
  BY <1>4, <1>5, <1>6, <1>7

\* The other zigzags do not get ahead of it.
LEMMA StaysAhead ==
  ASSUME NEW s \in Seq(Samples), NEW i \in 1..Len(s), NEW j \in 1..Len(s),
         j = i + 1, NEW a \in LoopStates, NEW b \in LoopStates,
         NEW x \in Int, x = s[j].x,
         \/ Still(a, b, x) \/ First(a, b, x) \/ Further(a, b, x)
         \/ Jitter(a, b, x) \/ Reversal(a, b, x),
         a.dir = 0 => a.rev = 0,
         \A m \in Nat, z \in Int, dir \in {-1, 1} :
           Ends(s, i, m, z, dir) => Bound(a, m, z, dir),
         NEW m \in Nat, NEW z \in Int, NEW dir \in {-1, 1},
         Ends(s, j, m, z, dir)
  PROVE  Bound(b, m, z, dir)
<1>1. Ends(s, i, m, z, dir) \/ EndsBefore(s, i, j, m, z, dir)
  BY EndsWas
<1>2. CASE Ends(s, i, m, z, dir)
  <2>1. Bound(a, m, z, dir)
    BY <1>2
  <2> QED
    BY <2>1, BoundStays
<1>3. CASE EndsBefore(s, i, j, m, z, dir)
  <2>1. m # 0 /\ z = x
    BY <1>3 DEF EndsBefore
  <2>2. PICK y \in Int :
          Ends(s, i, m - 1, y, -dir) /\ Along(dir, z - y) >= Threshold
    BY <1>3 DEF EndsBefore
  <2> DEFINE k == m - 1
             back == -dir
  <2>3. k \in Nat /\ k + 1 = m /\ back \in {-1, 1} /\ dir = -back
    BY <2>1
  <2>4. Ends(s, i, k, y, back) /\ Along(dir, x - y) >= Threshold
    BY <2>1, <2>2
  <2> HIDE DEF k, back
  <2>5. Bound(a, k, y, back)
    BY <2>3, <2>4
  <2>6. Bound(b, k + 1, x, dir)
    BY <2>3, <2>4, <2>5, BoundSwings
  <2> QED
    BY <2>1, <2>3, <2>6
<1> QED
  BY <1>1, <1>2, <1>3

\* One position more.
LEMMA NextPosition ==
  ASSUME NEW s \in Seq(Samples), NEW i \in 1..Len(s), i + 1 <= Len(s),
         LoopInv(s, i)
  PROVE  LoopInv(s, i + 1)
<1> DEFINE a == Turned(s)[i]
           j == i + 1
           b == Turned(s)[j]
           x == s[j].x
<1>1. Len(s) \in Nat /\ j \in 1..Len(s) /\ j = i + 1 /\ j # 1
  BY SamplesAre
<1>2. b = Turn(a, x)
  BY TurnedIs
<1>3. x \in Int /\ x = s[j].x
  BY <1>1, SamplesAre
<1>4. /\ a \in LoopStates /\ (a.dir = 0 => a.rev = 0 /\ a.ext = s[1].x)
      /\ (i = 1 => a.dir = 0) /\ (i <= 2 => a.rev = 0)
  BY DEF LoopInv, LoopTypes
<1>5. \A m \in Nat, z \in Int, dir \in {-1, 1} :
        Ends(s, i, m, z, dir) => Bound(a, m, z, dir)
  BY DEF LoopInv, NeverBehind
<1>6. Caught(a, s, i)
  BY DEF LoopInv, Witnessed
<1>7. Turned(s)[j] = b
  OBVIOUS
<1> HIDE DEF a, b, j, x
<1>8. /\ b \in LoopStates
      /\ \/ Still(a, b, x) \/ First(a, b, x) \/ Further(a, b, x)
         \/ Jitter(a, b, x) \/ Reversal(a, b, x)
  BY <1>2, <1>3, <1>4, TurnIs
<1>9. LoopTypes(s, j)
  <2>1. a.dir \in {-1, 0, 1} /\ a.rev \in Nat
    BY <1>4 DEF LoopStates
  <2>2. b.dir = 0 => b = a
    BY <1>8, <2>1 DEF Still, First, Further, Jitter, Reversal
  <2>3. i = 1 => b.rev = 0
    BY <1>4, <1>8 DEF Still, First, Further, Jitter, Reversal
  <2>4. j <= 2 => i = 1
    BY <1>1
  <2> QED
    BY <1>1, <1>4, <1>7, <1>8, <2>2, <2>3, <2>4 DEF LoopTypes
<1>10. NeverBehind(s, j)
  <2>1. ASSUME NEW m \in Nat, NEW z \in Int, NEW dir \in {-1, 1},
               Ends(s, j, m, z, dir)
        PROVE  Bound(b, m, z, dir)
    BY <1>1, <1>3, <1>4, <1>5, <1>8, <2>1, StaysAhead
  <2> QED
    BY <1>7, <2>1 DEF NeverBehind
<1>11. Caught(b, s, j)
  BY <1>1, <1>3, <1>4, <1>6, <1>8, CatchesUp
<1> QED
  BY <1>7, <1>9, <1>10, <1>11 DEF LoopInv, Witnessed, j

\* So it is at every position.
LEMMA LoopHolds ==
  ASSUME NEW s \in Seq(Samples)
  PROVE  \A i \in 1..Len(s) : LoopInv(s, i)
<1> DEFINE n == Len(s)
           B == {i \in 1..n : LoopInv(s, i)}
<1>1. n \in Nat
  BY SamplesAre
<1>2. CASE n = 0
  BY <1>2
<1>3. CASE n # 0
  <2>1. 1 \in B
    <3>1. Len(s) >= 1 /\ 1 \in 1..n
      BY <1>1, <1>3
    <3> QED
      BY <3>1, FirstPosition
  <2>2. ASSUME NEW i \in 1..n, i \in B, i + 1 <= n PROVE i + 1 \in B
    <3>1. i \in 1..Len(s) /\ i + 1 <= Len(s) /\ LoopInv(s, i) /\ i + 1 \in 1..n
      BY <1>1, <2>2
    <3> QED
      BY <3>1, NextPosition
  <2> HIDE DEF B
  <2>3. \A i \in 1..n : i \in B
    <3> HIDE DEF n
    <3> QED
      BY <1>1, <2>1, <2>2, Reaches
  <2> QED
    BY <2>3 DEF B
<1> QED
  BY <1>2, <1>3

\* The zigzags among the samples that MostReversals() looks at.
Swings(s) == {at \in SUBSET (2..Len(s)) : ZigZag(s, {1} \cup at)}

Most(s) == CHOOSE at \in Swings(s) :
             \A other \in Swings(s) : Cardinality(other) <= Cardinality(at)

\* The first sample is one more than the swings.
LEMMA FirstAdded ==
  ASSUME NEW s \in Seq(Samples), Len(s) >= 1, NEW at \in SUBSET (2..Len(s))
  PROVE  /\ {1} \cup at \in SUBSET (1..Len(s))
         /\ Cardinality(at) \in Nat
         /\ Cardinality({1} \cup at) = Cardinality(at) + 1
<1>1. Len(s) \in Nat
  BY SamplesAre
<1>2. {1} \cup at \in SUBSET (1..Len(s)) /\ at \in SUBSET (1..Len(s))
  BY <1>1
<1>3. IsFiniteSet(at) /\ 1 \notin at /\ at \cup {1} = {1} \cup at
  BY <1>1, <1>2, SamplesAre
<1>4. Cardinality(at \cup {1}) = Cardinality(at) + 1
  BY <1>3, FS_AddElement
<1> QED
  BY <1>2, <1>3, <1>4, FS_CardinalityType

\* The loop has noticed as many as there are in the longest.
LEMMA MostIsNoticed ==
  ASSUME NEW s \in Seq(Samples), Len(s) >= 1
  PROVE  /\ Most(s) \in Swings(s)
         /\ Cardinality(Most(s)) = Noticed(Turned(s)[Len(s)])
<1> DEFINE n == Len(s)
           a == Turned(s)[n]
           k == Noticed(a)
<1>1. n \in Nat /\ n \in 1..n
  BY SamplesAre
<1>2. LoopInv(s, n)
  BY <1>1, LoopHolds
<1>3. k \in Nat
  <2>1. a \in LoopStates
    BY <1>2 DEF LoopInv, LoopTypes
  <2> HIDE DEF a
  <2> QED
    BY <2>1 DEF LoopStates, Noticed
<1>4. ASSUME NEW at \in Swings(s) PROVE Cardinality(at) <= k
  <2> DEFINE all == {1} \cup at
  <2>1. at \in SUBSET (2..Len(s)) /\ ZigZag(s, all)
    BY DEF Swings
  <2>2. /\ all \in SUBSET (1..Len(s)) /\ Cardinality(at) \in Nat /\ 1 \in all
        /\ Cardinality(all) = Cardinality(at) + 1
    BY <2>1, FirstAdded
  <2> HIDE DEF all
  <2>3. PICK m \in Nat, l \in all, dir \in {-1, 1} : Swung(s, all, m, l, dir)
    BY <2>1, <2>2, ZigZagEnds
  <2>4. m = Cardinality(at)
    BY <2>2, <2>3 DEF Swung
  <2>5. s[l].x \in Int
    BY <2>2, SamplesAre
  <2>6. Ends(s, n, m, s[l].x, dir)
    BY <2>2, <2>3 DEF Ends
  <2>7. Bound(a, m, s[l].x, dir)
    BY <1>2, <2>5, <2>6 DEF LoopInv, NeverBehind
  <2> QED
    BY <2>4, <2>7 DEF Bound
<1>5. \E at \in Swings(s) : Cardinality(at) = k
  <2>1. PICK dir \in {-1, 1} : Ends(s, n, k, a.ext, dir)
    BY <1>2 DEF LoopInv, Witnessed, Caught
  <2>2. PICK all \in SUBSET (1..n) : \E l \in all : Swung(s, all, k, l, dir)
    BY <2>1 DEF Ends
  <2>3. 1 \in all /\ ZigZag(s, all) /\ Cardinality(all) = k + 1
    BY <2>2 DEF Swung
  <2> DEFINE at == all \ {1}
  <2>4. at \in SUBSET (2..Len(s)) /\ {1} \cup at = all
    BY <1>1, <2>3
  <2>5. at \in Swings(s)
    BY <2>3, <2>4 DEF Swings
  <2>6. Cardinality(at) \in Nat /\ Cardinality(all) = Cardinality(at) + 1
    <3> HIDE DEF at
    <3> QED
      BY <2>4, FirstAdded
  <2>7. Cardinality(at) = k
    <3> HIDE DEF at, k
    <3> QED
      BY <1>3, <2>3, <2>6
  <2> QED
    BY <2>5, <2>7
<1> HIDE DEF k
<1>6. \E at \in Swings(s) :
        \A other \in Swings(s) : Cardinality(other) <= Cardinality(at)
  BY <1>4, <1>5
<1>7. /\ Most(s) \in Swings(s)
      /\ \A other \in Swings(s) : Cardinality(other) <= Cardinality(Most(s))
  BY <1>6 DEF Most
<1>8. Cardinality(Most(s)) \in Nat
  <2>1. Most(s) \in SUBSET (2..Len(s))
    BY <1>7 DEF Swings
  <2> QED
    BY <2>1, FirstAdded
<1>9. Cardinality(Most(s)) <= k /\ k <= Cardinality(Most(s))
  BY <1>4, <1>5, <1>7
<1> QED
  BY <1>3, <1>7, <1>8, <1>9 DEF k

\* count_reversals() is right about any sequence of samples.
LEMMA CountIsMost ==
  ASSUME NEW s \in Seq(Samples)
  PROVE  CountReversals(s) = MostReversals(s)
<1> DEFINE n == Len(s)
           a == Turned(s)[n]
<1>1. n \in Nat /\ (s = <<>> <=> n = 0)
  BY SamplesAre, EmptySeq
<1>2. CASE n = 0
  BY <1>1, <1>2 DEF CountReversals, MostReversals
<1>3. CASE n # 0
  <2>1. n >= 1 /\ n \in 1..n /\ s # <<>>
    BY <1>1, <1>3
  <2>2. LoopTypes(s, n)
    BY <2>1, LoopHolds DEF LoopInv
  <2>3. Most(s) \in Swings(s) /\ Cardinality(Most(s)) = Noticed(a)
    BY <2>1, MostIsNoticed
  <2>4. /\ a.dir = 0 => a.rev = 0
        /\ n <= 2 => a.rev = 0
        /\ a.rev \in Nat
    BY <2>2 DEF LoopTypes, LoopStates
  <2>5. MostReversals(s) =
          IF Most(s) = {} THEN 0 ELSE Cardinality(Most(s)) - 1
    <3>1. MostReversals(s) =
            IF s = <<>> \/ Most(s) = {} THEN 0 ELSE Cardinality(Most(s)) - 1
      BY Zenon DEF MostReversals, Most, Swings
    <3> QED
      BY <2>1, <3>1
  <2>6. Most(s) = {} <=> Cardinality(Most(s)) = 0
    <3>1. Most(s) \in SUBSET (1..n)
      BY <1>1, <2>3 DEF Swings
    <3>2. IsFiniteSet(Most(s))
      BY <3>1, SamplesAre
    <3> QED
      BY <3>2, FS_EmptySet
  <2>7. CountReversals(s) = IF n < 3 THEN 0 ELSE a.rev
    BY DEF CountReversals
  <2> HIDE DEF a, n
  <2>8. CountReversals(s) = a.rev
    BY <1>1, <2>4, <2>7
  <2>9. CASE a.dir = 0
    BY <2>3, <2>4, <2>5, <2>6, <2>8, <2>9 DEF Noticed
  <2>10. CASE a.dir # 0
    <3>1. Cardinality(Most(s)) = a.rev + 1
      BY <2>3, <2>10 DEF Noticed
    <3> QED
      BY <2>4, <2>5, <2>6, <2>8, <3>1
  <2> QED
    BY <2>9, <2>10
<1> QED
  BY <1>2, <1>3

-----------------------------------------------------------------------------
(***************************************************************************)
(* The detector keeps samples, and its count is of them.                   *)
(***************************************************************************)
Frames == [buf : Buffers, ts : Int]

\* d is a detector that has counted its samples.
Counted(d) ==
  /\ d = [samples |-> d.samples, reversals |-> d.reversals,
          lastWave |-> d.lastWave]
  /\ d.samples \in Seq(Samples) /\ d.reversals = MostReversals(d.samples)

CountInv ==
  /\ now \in Int /\ pool \subseteq Buffers
  /\ hand \subseteq Frames /\ stale \subseteq Frames
  /\ slot \subseteq Frames /\ mine \subseteq Frames
  /\ Counted(detector)

\* What is left of the samples when one comes is samples.
LEMMA RoomIsMade ==
  ASSUME NEW s \in Seq(Samples), NEW ts \in Int
  PROVE  Room(Recent(s, ts)) \in Seq(Samples)
<1> DEFINE old == {n \in 1..Len(s) : \A i \in 1..n : ts - s[i].ts > Window}
           k == Cardinality(old)
<1>1. Len(s) \in Nat
  BY SamplesAre
<1>2. k \in Nat /\ k <= Len(s)
  <2> DEFINE n == Len(s)
  <2>1. old \in SUBSET (1..n) /\ n \in Nat
    BY <1>1
  <2> HIDE DEF old, n
  <2>2. IsFiniteSet(1..n) /\ Cardinality(1..n) = n
    BY <2>1, FS_Interval
  <2>3. IsFiniteSet(old) /\ Cardinality(old) <= n
    BY <2>1, <2>2, FS_Subset
  <2>4. Cardinality(old) \in Nat
    BY <2>3, FS_CardinalityType
  <2> QED
    BY <2>3, <2>4 DEF n
<1>3. Recent(s, ts) = SubSeq(s, k + 1, Len(s))
  BY DEF Recent
<1> HIDE DEF k
<1>4. Recent(s, ts) \in Seq(Samples)
  <2>1. \A i \in (k + 1)..Len(s) : s[i] \in Samples
    <3> SUFFICES ASSUME NEW i \in (k + 1)..Len(s) PROVE s[i] \in Samples
      OBVIOUS
    <3>1. i \in 1..Len(s)
      BY <1>1, <1>2
    <3> QED
      BY <3>1, ElementOfSeq
  <2>2. k + 1 \in Int /\ Len(s) \in Int
    BY <1>1, <1>2
  <2> QED
    BY <1>3, <2>1, <2>2, SubSeqProperties
<1> DEFINE r == Recent(s, ts)
<1> HIDE DEF r
<1>5. r \in Seq(Samples) /\ KMax # 0
  BY <1>4, DetectorAssumption DEF r
<1>6. Room(r) \in Seq(Samples)
  <2>1. CASE Len(r) = KMax
    <3>1. r # <<>>
      BY <1>5, <2>1, EmptySeq
    <3> QED
      BY <1>5, <2>1, <3>1, HeadTailProperties DEF Room
  <2>2. CASE Len(r) # KMax
    BY <1>5, <2>2 DEF Room
  <2> QED
    BY <2>1, <2>2
<1> QED
  BY <1>6 DEF r

\* update() counts the samples it leaves.
LEMMA UpdateCounts ==
  ASSUME NEW d, Counted(d), NEW ts \in Int, NEW x \in Positions \cup {NoHand}
  PROVE  Counted(Updated(d, ts, x))
<1> DEFINE e == Updated(d, ts, x)
<1>1. CASE x = NoHand
  <2>1. MostReversals(<<>>) = 0
    BY DEF MostReversals
  <2>2. CASE d.samples # <<>> /\ ts - Last(d.samples).ts > LostAfter
    <3>1. e = [d EXCEPT !.samples = <<>>, !.reversals = 0]
      BY <1>1, <2>2 DEF Updated
    <3>2. e = [samples |-> <<>>, reversals |-> 0, lastWave |-> d.lastWave]
      <4> HIDE DEF e
      <4> QED
        BY <3>1 DEF Counted
    <3>3. <<>> \in Seq(Samples)
      BY EmptySeq
    <3> HIDE DEF e
    <3>4. Counted(e)
      BY <2>1, <3>2, <3>3 DEF Counted
    <3> QED
      BY <3>4 DEF e
  <2>3. CASE ~(d.samples # <<>> /\ ts - Last(d.samples).ts > LostAfter)
    BY <1>1, <2>3 DEF Updated
  <2> QED
    BY <2>2, <2>3
<1>2. CASE x # NoHand
  <2> DEFINE new == [ts |-> ts, x |-> x]
             r == Room(Recent(d.samples, ts))
             s == Append(r, new)
             wave == IF CountReversals(s) >= MinReversals THEN ts ELSE d.lastWave
  <2>1. new \in Samples
    BY <1>2, InferenceAssumption DEF Samples
  <2>2. r \in Seq(Samples)
    BY RoomIsMade DEF Counted
  <2>3. e = [samples |-> s, reversals |-> CountReversals(s), lastWave |-> wave]
    BY <1>2 DEF Updated
  <2> HIDE DEF new, r
  <2>4. s \in Seq(Samples)
    BY <2>1, <2>2, AppendProperties
  <2> HIDE DEF s, wave
  <2>5. CountReversals(s) = MostReversals(s)
    BY <2>4, CountIsMost
  <2> HIDE DEF e
  <2>6. Counted(e)
    BY <2>3, <2>4, <2>5 DEF Counted
  <2> QED
    BY <2>6 DEF e
<1> QED
  BY <1>1, <1>2

\* A step of either task keeps it so.
LEMMA CountStays == CountInv /\ [Next]_vars => CountInv'
<1> SUFFICES ASSUME CountInv, [Next]_vars PROVE CountInv'
  OBVIOUS
<1> USE DEF CountInv
<1>1. ASSUME Grab PROVE CountInv'
  <2>1. PICK b \in pool, gap \in 1..MaxGap :
          now' = now + gap /\ hand' = {[buf |-> b, ts |-> now']}
          /\ pool' = pool \ {b}
    BY <1>1 DEF Grab
  <2>2. now' \in Int /\ MaxGap \in Nat
    BY <2>1, InferenceAssumption
  <2>3. hand' \subseteq Frames /\ pool' \subseteq Buffers
    BY <2>1, <2>2 DEF Frames
  <2> QED
    BY <1>1, <2>2, <2>3 DEF Grab, inferVars, Frames
<1>2. ASSUME Publish PROVE CountInv'
  BY <1>2 DEF Publish, inferVars, Frames
<1>3. ASSUME Notify PROVE CountInv'
  <2>1. pool' \subseteq Buffers
    BY <1>3 DEF Notify, BuffersOf, Frames
  <2> QED
    BY <1>3, <2>1 DEF Notify, inferVars, Frames
<1>4. ASSUME Wake PROVE CountInv'
  BY <1>4 DEF Wake, captureVars, Frames
<1>5. ASSUME Take PROVE CountInv'
  BY <1>5 DEF Take, captureVars, Frames
<1>6. ASSUME NEW x \in Positions \cup {NoHand}, Run(x) PROVE CountInv'
  <2>1. PICK f \in mine : detector' = Updated(detector, f.ts, x)
    BY <1>6 DEF Run
  <2>2. f.ts \in Int
    BY DEF Frames
  <2>3. Counted(detector')
    BY <2>1, <2>2, UpdateCounts
  <2> QED
    BY <1>6, <2>3 DEF Run, captureVars, Frames
<1>7. ASSUME Return PROVE CountInv'
  <2>1. pool' \subseteq Buffers
    BY <1>7 DEF Return, BuffersOf, Frames
  <2> QED
    BY <1>7, <2>1 DEF Return, captureVars, Frames
<1>8. ASSUME UNCHANGED vars PROVE CountInv'
  BY <1>8 DEF vars, captureVars, inferVars, Frames
<1> QED
  BY <1>1, <1>2, <1>3, <1>4, <1>5, <1>6, <1>7, <1>8
     DEF Next, CaptureStep, InferStep

\* Whatever was dropped from the ring, the reversals that decide on a wave are
\* the most that swings of the threshold through the samples left in it allow:
\* count_reversals() in one pass finds what a search of all zigzags would.
THEOREM CountsAreSwings == Spec => []ReversalsAreSwings
<1>1. Init => CountInv
  <2> SUFFICES ASSUME Init PROVE CountInv
    OBVIOUS
  <2>1. <<>> \in Seq(Samples) /\ MostReversals(<<>>) = 0
    BY EmptySeq DEF MostReversals
  <2>2. Counted(detector)
    BY <2>1 DEF Init, Detector, Counted
  <2> QED
    BY <2>2 DEF Init, CountInv, Frames
<1>2. CountInv => ReversalsAreSwings
  BY DEF CountInv, Counted, ReversalsAreSwings
<1> QED
  BY <1>1, <1>2, CountStays, PTL DEF Spec

=============================================================================
