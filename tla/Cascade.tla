------------------------------- MODULE Cascade -------------------------------
(***************************************************************************)
(* The NLMS cascade of src/core/optimfrog_decoder_pred3.cpp: stages of     *)
(* adaptive filters, each fed with what the one before has left over, and  *)
(* a combiner of their partial sums.  In stereo each channel's cascade     *)
(* (OFR_SubCascade) has its own rings as primary and the other's as        *)
(* secondary input; mono stages have no secondary taps.                    *)
(*                                                                         *)
(* Single precision sums are whole numbers here.                           *)
(***************************************************************************)
EXTENDS Lpc, Sequences

CONSTANTS
  RingSize,    (* cells of a ring, 0x400                                   *)
  Step(_, _)   (* the step of a filter, from what is left over and the     *)
               (* energy of its input                                      *)

Largest(a, b) == IF a > b THEN a ELSE b
Squared(x) == x * x

NewRings(stages) ==
  [s \in DOMAIN stages |-> NewRing(RingSize, Largest(stages[s].size1 + 1, stages[s].size2))]

(* The stages, and the combiner in its first state (sub_cascade_alloc).    *)
NewCascade(stages, decay, resolve, resolved) ==
  [stages |-> [s \in DOMAIN stages |->
                 [size1 |-> stages[s].size1, size2 |-> stages[s].size2, energy |-> 0,
                  w1 |-> Zeros(1 .. stages[s].size1), w2 |-> Zeros(Places(stages[s].size2))]],
   decay |-> decay, bias |-> 0, cumsum |-> Zeros(0 .. Len(stages)),
   coefs |-> Only(Len(stages), 0), mat |-> Zeros(Lower(Len(stages))),
   v |-> Zeros(0 .. Len(stages)), counter |-> 0, resolve |-> resolve, resolved |-> resolved]

-----------------------------------------------------------------------------
(* Prediction *)

(* stage_fir: the taps are the values before the one being filled in.      *)
PrimarySum(st, pri) == SumOver(1 .. st.size1, LAMBDA k : Before(pri, k) * st.w1[k])

(* xfir: of the other channel the one filled in last is the first tap.     *)
CrossSum(st, pri, sec) ==
  PrimarySum(st, pri) + SumOver(Places(st.size2), LAMBDA k : Before(sec, k) * st.w2[k])

(* What the first stages add up to, for every number of them.              *)
PartialSums(stages, pri, sec) ==
  LET total[s \in 0 .. Len(stages)] ==
        IF s = 0 THEN 0 ELSE total[s - 1] + CrossSum(stages[s], pri[s], sec[s])
  IN total

(* cascade_predict, sub_predict: rings move on, sums are kept.             *)
CascadePredicted(cas, pri, sec) ==
  LET turned   == [s \in DOMAIN pri |-> Turned(pri[s])]
      total    == PartialSums(cas.stages, turned, sec)
      combined == SumOver(Places(Len(cas.stages)),
                          LAMBDA i : total[Len(cas.stages) - i] * cas.coefs[i])
  IN [cas |-> [cas EXCEPT !.cumsum = total], rings |-> turned, p |-> combined + cas.bias]

-----------------------------------------------------------------------------
(* Adaptation *)

(* Mutant: the value that leaves is the oldest tap.                        *)
PrimaryEnergyTapEarly(st, pri) == Squared(Before(pri, 1)) - Squared(Before(pri, st.size1))

(* What a new value adds to the energy of the taps, and one that leaves    *)
(* takes (stage_nlms_update, xnlms).                                       *)
PrimaryEnergy(st, pri) == Squared(Before(pri, 1)) - Squared(Before(pri, 1 + st.size1))
CrossEnergy(st, pri, sec) ==
  PrimaryEnergy(st, pri) + (Squared(Before(sec, 0)) - Squared(Before(sec, st.size2)))

Adapted(st, pri, sec, left) ==
  LET energy == st.energy + CrossEnergy(st, pri, sec)
      step   == Step(left, energy)
  IN [st EXCEPT !.energy = energy,
                !.w1 = [k \in DOMAIN @ |-> @[k] + Before(pri, k) * step],
                !.w2 = [k \in DOMAIN @ |-> @[k] + Before(sec, k) * step]]

(* fc_solve *)
Combined(cas) ==
  LET n   == Len(cas.stages)
      rhs == [i \in Places(n) |-> cas.v[i + 1]]
  IN IF cas.v[0] = 0 THEN Only(n, 0)
     ELSE IF Singular(cas.mat) THEN Only(n, FirstOf(Peaks(cas.v[0], rhs)))
     ELSE Solution(cas.mat, rhs)

(* cascade_update, sub_update                                              *)
CascadeUpdated(cas, pri, sec, x) ==
  LET n    == Len(cas.stages)
      err  == x - cas.bias
      left(s) == err - cas.cumsum[s]
      sum(i)  == cas.cumsum[n - i]
      q == [cas EXCEPT
              !.bias = x * cas.decay,
              !.stages = [s \in DOMAIN @ |-> Adapted(@[s], pri[s], sec[s], left(s))],
              !.counter = @ + 1,
              !.mat = [ij \in DOMAIN @ |-> @[ij] * Damping + sum(ij[1]) * sum(ij[2])],
              !.v = [j \in DOMAIN @ |->
                       @[j] * Damping + err * (IF j = 0 THEN err ELSE sum(j - 1))]]
  IN [cas |-> IF q.resolve + q.resolved <= q.counter
              THEN [q EXCEPT !.coefs = Combined(q), !.resolved = q.counter] ELSE q,
      rings |-> [s \in DOMAIN pri |-> Filled(pri[s], left(s - 1))]]
=============================================================================
