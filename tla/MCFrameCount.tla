----------------------------- MODULE MCFrameCount -----------------------------
(***************************************************************************)
(* Two datasets with frames of 0.1 s, of 20 s and of 100 s.                *)
(***************************************************************************)
EXTENDS FrameCount

Tenth == <<819, 419430, 838861>>
MCCases ==
  {[duration |-> <<163840, 0, 0>>, sample |-> Tenth,
    limit |-> <<163839, 2097151, 2061184>>, frames |-> 200],
   [duration |-> <<819200, 0, 0>>, sample |-> Tenth,
    limit |-> <<819199, 2097151, 2061312>>, frames |-> 1000]}
=============================================================================
