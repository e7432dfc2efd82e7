----------------------------- MODULE WaveDetector -----------------------------
(***************************************************************************)
(* wave_detector.hpp of the inference firmware: the positions of a hand    *)
(* over a sliding window, how often they turn, and whether that is a wave. *)
(* The hand keeps its width here, so the threshold of a swing, which the   *)
(* code takes from the mean width, is a constant.                          *)
(***************************************************************************)
EXTENDS Integers, Sequences, SequencesExt

CONSTANTS
  Window,         \* window_us
  MinReversals,   \* min_reversals
  Threshold,      \* the swing that counts
  LostAfter,      \* lost_us
  Hold,           \* hold_us
  KMax            \* kMax, places of the ring

ASSUME DetectorAssumption ==
  /\ {Window, MinReversals, LostAfter, Hold} \subseteq Nat
  /\ Threshold \in Nat \ {0} /\ KMax \in Nat \ {0}

NoHand == -1
Never == -1

\* A detector: its samples, oldest first, and what it last found.
Detector == [samples |-> <<>>, reversals |-> 0, lastWave |-> Never]

Away(d) == d >= Threshold \/ -d >= Threshold
Sign(d) == IF d > 0 THEN 1 ELSE -1

\* Mutant of Turn: the extreme stays where the swing was first noticed.
TurnEarly(a, x) ==
  LET d == x - a.ext IN
  CASE a.dir = 0 /\ Away(d)  -> [a EXCEPT !.dir = Sign(d), !.ext = x]
    [] a.dir # 0 /\ Away(d) /\ Sign(d) # a.dir
                             -> [dir |-> -a.dir, ext |-> x, rev |-> a.rev + 1]
    [] OTHER                 -> a

\* One position in the loop of count_reversals().
Turn(a, x) ==
  LET d == x - a.ext IN
  CASE a.dir = 0 /\ Away(d)    -> [a EXCEPT !.dir = Sign(d), !.ext = x]
    [] a.dir # 0 /\ d * a.dir > 0 -> [a EXCEPT !.ext = x]
    [] a.dir # 0 /\ d * a.dir <= 0 /\ Away(d)
                             -> [dir |-> -a.dir, ext |-> x, rev |-> a.rev + 1]
    [] OTHER                   -> a

\* The loop's variables after each of the positions.
Turned(s) ==
  LET after[i \in 1..Len(s)] ==
        IF i = 1 THEN [dir |-> 0, ext |-> s[1].x, rev |-> 0]
                 ELSE Turn(after[i - 1], s[i].x)
  IN  after

CountReversals(s) == IF Len(s) < 3 THEN 0 ELSE Turned(s)[Len(s)].rev

\* What is left after dropping the oldest samples as long as they are too old.
Recent(s, ts) ==
  LET old == {n \in 1..Len(s) : \A i \in 1..n : ts - s[i].ts > Window}
  IN  SubSeq(s, Cardinality(old) + 1, Len(s))
Room(s) == IF Len(s) = KMax THEN Tail(s) ELSE s

\* update(): a frame taken at ts, with the hand at x or without one.
Updated(d, ts, x) ==
  IF x = NoHand
    THEN IF d.samples # <<>> /\ ts - Last(d.samples).ts > LostAfter
           THEN [d EXCEPT !.samples = <<>>, !.reversals = 0] ELSE d
    ELSE LET s == Append(Room(Recent(d.samples, ts)), [ts |-> ts, x |-> x])
             n == CountReversals(s)
         IN  [samples |-> s, reversals |-> n,
              lastWave |-> IF n >= MinReversals THEN ts ELSE d.lastWave]

Waving(d, ts) == d.lastWave # Never /\ ts - d.lastWave <= Hold

(***************************************************************************)
(* What the count is of: from the first sample on, the swings of a zigzag  *)
(* through some of the samples, each of at least the threshold and each    *)
(* the other way than the one before.  A reversal is between two swings.   *)
(***************************************************************************)
Adjacent(at, i, j) == i < j /\ \A k \in at : ~(i < k /\ k < j)

ZigZag(s, at) ==
  /\ \A i, j \in at : Adjacent(at, i, j) => Away(s[j].x - s[i].x)
  /\ \A i, j, k \in at : Adjacent(at, i, j) /\ Adjacent(at, j, k) =>
       Sign(s[j].x - s[i].x) # Sign(s[k].x - s[j].x)

MostReversals(s) ==
  LET swings == {at \in SUBSET (2..Len(s)) : ZigZag(s, {1} \cup at)}
      most == CHOOSE at \in swings :
                \A other \in swings : Cardinality(other) <= Cardinality(at)
  IN  IF s = <<>> \/ most = {} THEN 0 ELSE Cardinality(most) - 1
=============================================================================
