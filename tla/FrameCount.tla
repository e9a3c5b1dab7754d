------------------------------ MODULE FrameCount ------------------------------
(***************************************************************************)
(* The loop of generate_dataset (dataset.py) that cuts the duration into   *)
(* frames, with the rounding DatasetGeneration leaves out: elapsed is a    *)
(* Python float that grows by one rounded addition per frame.              *)
(*                                                                         *)
(* A float of less than 128 s is kept as an exact multiple of 2^-55 s in   *)
(* three digits of base 2^21, the most significant first.                  *)
(***************************************************************************)
EXTENDS Integers, FiniteSetsExt

CONSTANT Cases   \* datasets: [duration, sample, limit, frames], where limit is the
                 \* float duration - 1e-12 and frames the quotient duration / sample

Base == 2 ^ 21
Zero == <<0, 0, 0>>

VARIABLES
  case,     \* the dataset
  elapsed,  \* the sum of the steps so far
  frames    \* frame_count

vars == <<case, elapsed, frames>>

-----------------------------------------------------------------------------
Less(a, b) ==
  \/ a[1] < b[1]
  \/ (a[1] = b[1] /\ a[2] < b[2])
  \/ (a[1] = b[1] /\ a[2] = b[2] /\ a[3] < b[3])

\* Digits that may be out of range, by less than Base, brought back into it.
Carried(a) ==
  LET mid == a[2] + a[3] \div Base
  IN <<a[1] + mid \div Base, mid % Base, a[3] % Base>>

\* The nearest float: 53 significant bits, ties to the even one.
Rounded(a) ==
  LET length  == Min({n \in 0..21 : a[1] < 2 ^ n})
      ulp     == IF length > 11 THEN 2 ^ (length - 11) ELSE 1
      rest    == a[3] % ulp
      even    == (a[3] \div ulp) % 2 = 0
      up      == 2 * rest > ulp \/ (2 * rest = ulp /\ ~even)
  IN Carried(<<a[1], a[2], a[3] - rest + (IF up THEN ulp ELSE 0)>>)

Plus(a, b) == Rounded(Carried(<<a[1] + b[1], a[2] + b[2], a[3] + b[3]>>))
Minus(a, b) == Rounded(Carried(<<a[1] - b[1], a[2] - b[2], a[3] - b[3]>>))

Least(a, b) == IF Less(b, a) THEN b ELSE a

Init == case \in Cases /\ elapsed = Zero /\ frames = 0

\* One turn of the loop: advance by a frame or by what is left of the duration.
Frame ==
  /\ Less(elapsed, case.limit)
  /\ elapsed' = Plus(elapsed, Least(case.sample, Minus(case.duration, elapsed)))
  /\ frames' = frames + 1
  /\ UNCHANGED case

Spec == Init /\ [][Frame]_vars

-----------------------------------------------------------------------------
\* docs/contracts.md:55-56: frames and duration are exact multiples, so that no
\* dataset gets a partial step.  When the loop ends, the dataset has the number
\* of frames its arguments promise.
FramesExact == Less(elapsed, case.limit) \/ frames = case.frames
=============================================================================
