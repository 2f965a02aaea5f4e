------------------------------ MODULE Histories ------------------------------
(***************************************************************************)
(* The two buffers predictors keep their past in.  Both are arrays that    *)
(* are run through once; at the end the values still needed are copied to  *)
(* where the next run begins, so that the taps of a filter are always one  *)
(* piece of memory.  A history falls: its newest value is at the lowest    *)
(* place (OFR_Predictor, OFR_PredictorStereo_Inner).  A ring rises         *)
(* (OFR_CascadeStage, OFR_CascadeRing).                                    *)
(***************************************************************************)
EXTENDS Integers

Blank(size) == [i \in 0 .. size - 1 |-> 0]

-----------------------------------------------------------------------------
(* `keep` values survive the move from the bottom to the top.              *)
NewHistory(size, keep) ==
  [cells |-> Blank(size), size |-> size, keep |-> keep, head |-> size - keep]

(* The k-th value back, 0 for the newest.                                  *)
Back(h, k) == h.cells[h.head + k]

(* Mutant: the move forgets the oldest value.                              *)
MovedOneShort(h) ==
  LET top == h.size - h.keep IN
  [h EXCEPT !.head = top,
            !.cells = [i \in DOMAIN @ |->
                         IF i \in top .. h.size - 2 THEN @[i - top] ELSE @[i]]]

Moved(h) ==
  LET top == h.size - h.keep IN
  [h EXCEPT !.head = top,
            !.cells = [i \in DOMAIN @ |-> IF i >= top THEN @[i - top] ELSE @[i]]]

Pushed(h, x) ==
  LET at == IF h.head = 0 THEN Moved(h) ELSE h
  IN [at EXCEPT !.head = @ - 1, !.cells[at.head - 1] = x]

-----------------------------------------------------------------------------
NewRing(size, copy) ==
  [cells |-> Blank(size), size |-> size, copy |-> copy, cur |-> copy]

(* The k-th value back, 0 for the one being filled in.                     *)
Before(r, k) == r.cells[r.cur - k]

(* To the next place, which is empty.                                      *)
Turned(r) ==
  LET wraps == r.cur + 1 = r.size
      at    == IF wraps THEN r.copy ELSE r.cur + 1
      kept  == [i \in DOMAIN r.cells |->
                  IF wraps /\ i < r.copy THEN r.cells[r.size - r.copy + i] ELSE r.cells[i]]
  IN [r EXCEPT !.cur = at, !.cells = [kept EXCEPT ![at] = 0]]

Filled(r, x) == [r EXCEPT !.cells[r.cur] = x]
=============================================================================
