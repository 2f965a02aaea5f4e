--------------------------------- MODULE Lpc ---------------------------------
(***************************************************************************)
(* The linear predictors OFR_Predictor (mono) and                          *)
(* OFR_PredictorStereo_Inner (of each channel from both) in                *)
(* src/core/optimfrog_decoder_predictor.cpp.  Every `interval` samples the *)
(* weights are solved for again.  The matrix of the system is not summed   *)
(* up sample by sample: only one row of it is (R), and the rest is worked  *)
(* out from that row, the newest samples, and the very first sample's      *)
(* products, kept for as long as they still count.                         *)
(*                                                                         *)
(* The weighting of the past is below 1 in the code and a whole number     *)
(* here, so that dividing by it is exact and no rounding hides an error of *)
(* the algebra.  The LDLT solver is any function of matrix and right-hand  *)
(* side.  The reset of an R that is noise cannot happen to integers.       *)
(***************************************************************************)
EXTENDS Histories, FiniteSetsExt, Functions

CONSTANTS
  HistorySize,     (* cells of a history, 1024                             *)
  Damping,         (* the weight of the past                               *)
  Settled,         (* samples after which the first does not count, 48000  *)
  Singular(_),     (* the solver gives up on a matrix                      *)
  Solution(_, _)   (* what it finds                                        *)

ASSUME LpcAssumption ==
  HistorySize \in Nat \ {0} /\ Damping \in Nat \ {0} /\ Settled \in Nat

SumOver(S, f(_)) == SumFunctionOnSet([x \in S |-> f(x)], S)
Places(n) == 0 .. n - 1
Lower(n)  == {ij \in Places(n) \X Places(n) : ij[2] <= ij[1]}
Zeros(S)  == [i \in S |-> 0]
Only(n, k) == [i \in Places(n) |-> IF i = k THEN 1 ELSE 0]

(* The lag at which the signal repeats itself, if the solver gives up.     *)
Peaks(energy, rhs) == {i \in DOMAIN rhs : rhs[i] = energy}
FirstOf(S) == IF S = {} THEN 0 ELSE Min(S)

-----------------------------------------------------------------------------
(* OFR_Predictor *)

NewMono(order, interval) ==
  [order |-> order, interval |-> interval,
   hist |-> NewHistory(Max({HistorySize, 2 * order}), order),
   R |-> Zeros(0 .. order), first |-> Zeros(Lower(order)),
   weights |-> Only(order, 0), n |-> 0, last |-> 0]

MonoPredict(p) == SumOver(Places(p.order), LAMBDA i : Back(p.hist, i) * p.weights[i])

(* The weight of what is k samples back.                                   *)
Power[k \in Nat] == IF k = 0 THEN 1 ELSE Damping * Power[k - 1]

FirstCounts(n, order) == IF n < Settled THEN Power[n - order - 1] ELSE 0

(* Mutant: the newest products are not taken out before the shift.         *)
MonoMatrixUnshifted(p) ==
  LET cov[ij \in Lower(p.order)] ==
        (IF ij[2] = 0 THEN p.R[ij[1]] ELSE cov[<<ij[1] - 1, ij[2] - 1>>]) \div Damping
        + p.first[ij] * FirstCounts(p.n, p.order)
  IN cov

(* update_weights: each entry is the one up and to the left a sample ago.  *)
MonoMatrix(p) ==
  LET cov[ij \in Lower(p.order)] ==
        ((IF ij[2] = 0 THEN p.R[ij[1]] ELSE cov[<<ij[1] - 1, ij[2] - 1>>])
           - Back(p.hist, ij[1]) * Back(p.hist, ij[2])) \div Damping
        + p.first[ij] * FirstCounts(p.n, p.order)
  IN cov

MonoWeights(p) ==
  LET rhs    == [i \in Places(p.order) |-> p.R[i + 1]]
      matrix == MonoMatrix(p)
  IN IF p.R[0] = 0 THEN Only(p.order, 0)
     ELSE IF Singular(matrix) THEN Only(p.order, FirstOf(Peaks(p.R[0], rhs)))
     ELSE Solution(matrix, rhs)

MonoUpdate(p, x) ==
  LET h     == Pushed(p.hist, x)
      n     == p.n + 1
      begun == n >= p.order + 1
      starts == n = p.order + 1
      q == [p EXCEPT !.hist = h, !.n = n,
                     !.first = IF starts THEN [ij \in DOMAIN @ |->
                                 Back(h, ij[1] + 1) * Back(h, ij[2] + 1)] ELSE @,
                     !.last = IF starts THEN n ELSE @,
                     !.R = IF begun THEN [i \in DOMAIN @ |->
                                 @[i] * Damping + Back(h, i) * Back(h, 0)] ELSE @]
  IN IF begun /\ n - q.last >= p.interval
     THEN [q EXCEPT !.weights = MonoWeights(q), !.last = n] ELSE q

-----------------------------------------------------------------------------
(* OFR_PredictorStereo_Inner: channel c is predicted from `left` values of *)
(* its own and max - left of the other one.                                *)

Other(c) == 3 - c

NewStereo(left, max, interval) ==
  LET both(x) == [c \in 1 .. 2 |-> x] IN
  [left |-> left, max |-> max, interval |-> interval,
   hist |-> both(NewHistory(HistorySize, left)),
   R |-> both(Zeros(0 .. 2 * max)), first |-> both(Zeros(Lower(max))),
   coefs |-> both(Only(max, 0)), n |-> both(0), last |-> both(0)]

StereoPredict(s, c) ==
  SumOver(Places(s.left), LAMBDA k : Back(s.hist[c], k) * s.coefs[c][k])
  + SumOver(Places(s.max - s.left),
            LAMBDA k : Back(s.hist[Other(c)], k) * s.coefs[c][s.left + k])

(* updateAutocorr: even places relate the window to the newest own value,  *)
(* odd ones to the newest of the other channel.                            *)
Window(s, c, k) ==
  IF k <= s.left THEN Back(s.hist[c], k) ELSE Back(s.hist[Other(c)], k - s.left - 1)

StereoR(s, c) ==
  [k \in 0 .. 2 * s.max |-> s.R[c][k] * Damping +
     IF k % 2 = 0 THEN Window(s, c, k \div 2) * Back(s.hist[c], 0)
     ELSE Window(s, c, (k + 1) \div 2) * Back(s.hist[Other(c)], 0)]

(* solveCholesky: row and column `left` are in R; elsewhere as in mono.    *)
StereoMatrix(s, c, size, oldest) ==
  LET v(k) == IF k < s.left THEN Back(s.hist[c], k)
              ELSE Back(s.hist[Other(c)], k - 1 - s.left)
      T[ij \in Lower(size)] ==
        LET i == ij[1]  j == ij[2] IN
        IF i = s.left THEN s.R[c][2 * j + 1]
        ELSE IF j = s.left THEN s.R[c][2 * i + 1]
        ELSE ((IF j = 0 THEN s.R[c][2 * i] ELSE T[<<i - 1, j - 1>>]) - v(i) * v(j)) \div Damping
             + s.first[c][ij] * oldest
  IN T

(* If the system is singular and the signal does not repeat itself, the    *)
(* own channel's part is tried alone; there the first sample counts as if  *)
(* it was the last one.                                                    *)
OwnSolution(s, c) ==
  LET own == StereoMatrix(s, c, s.left, IF s.n[c] < Settled THEN 1 ELSE 0)
      found == Solution(own, [i \in Places(s.left) |-> s.R[c][2 * i + 2]])
  IN IF Singular(own) THEN Only(s.max, 0)
     ELSE [i \in Places(s.max) |-> IF i < s.left THEN found[i] ELSE 0]

StereoCoefs(s, c) ==
  LET rhs    == [i \in Places(s.max) |-> s.R[c][2 * i + 2]]
      peaks  == Peaks(s.R[c][0], rhs)
      matrix == StereoMatrix(s, c, s.max, FirstCounts(s.n[c], s.left))
  IN IF s.R[c][0] = 0 THEN Only(s.max, 0)
     ELSE IF ~Singular(matrix) THEN Solution(matrix, rhs)
     ELSE IF peaks # {} THEN Only(s.max, FirstOf(peaks))
     ELSE OwnSolution(s, c)

(* The products of the first window; row and column `left` are not needed. *)
StereoFirst(s, c) ==
  LET u(k) == IF k < s.left THEN Back(s.hist[c], k + 1) ELSE Back(s.hist[Other(c)], k - s.left)
  IN [ij \in Lower(s.max) |-> IF s.left \in {ij[1], ij[2]} THEN 0 ELSE u(ij[1]) * u(ij[2])]

StereoUpdate(s, c, x) ==
  LET n  == s.n[c] + 1
      at == [s EXCEPT !.hist[c] = Pushed(@, x), !.n[c] = n]
      q  == [at EXCEPT !.first[c] = IF n = s.left + 1 THEN StereoFirst(at, c) ELSE @,
                       !.last[c] = IF n = s.left + 1 THEN n ELSE @,
                       !.R[c] = StereoR(at, c)]
  IN IF n < s.left + 1 THEN at
     ELSE IF n - q.last[c] >= s.interval
     THEN [q EXCEPT !.coefs[c] = StereoCoefs(q, c), !.last[c] = n] ELSE q
=============================================================================
