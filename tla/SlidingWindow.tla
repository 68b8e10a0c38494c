--------------------------- MODULE SlidingWindow ---------------------------
(***************************************************************************)
(* SlidingWindowMinimum of tsclientlib/src/audio.rs: the minimum of the    *)
(* last WindowSize pushed values.  Only the entries that can still become  *)
(* the minimum are kept, each with its insertion time, a counter modulo    *)
(* TimeCount (256 in the code, with a window of 255).                      *)
(***************************************************************************)
EXTENDS Integers, Sequences, FiniteSetsExt

CONSTANTS WindowSize,   \* how long a value stays in the window
          TimeCount     \* insertion times are counted modulo TimeCount

ASSUME WindowAssumption ==
  /\ TimeCount \in Nat
  /\ WindowSize \in 1 .. (TimeCount - 1)

EmptyWindow == [queue |-> <<>>, cur_time |-> 0]

\* The entries that stay when all entries at the back that are not smaller
\* than the new value are popped.
SmallerPart(q, value) ==
  SubSeq(q, 1, Max({0} \cup {i \in DOMAIN q : q[i].value < value}))

Age(time, entry) == (time - entry.time) % TimeCount

\* The entries that stay when the front is popped while it is too old.
YoungPart(q, time) ==
  SubSeq(q, Min({i \in DOMAIN q : Age(time, q[i]) < WindowSize}
                  \cup {Len(q) + 1}), Len(q))

PushValue(w, value) ==
  LET pushed == Append(SmallerPart(w.queue, value),
                       [time |-> w.cur_time, value |-> value])
  IN  [queue    |-> YoungPart(pushed, w.cur_time),
       cur_time |-> (w.cur_time + 1) % TimeCount]

GetMin(w) == IF w.queue = <<>> THEN 0 ELSE Head(w.queue).value

\* std::cmp::Reverse: the minimum of the reversed values is the maximum.
Reversed(value) == -value

============================================================================
