---------------------------- MODULE MCPredictors ----------------------------
(***************************************************************************)
(* Windows of two values and buffers of six to eight cells, so that each   *)
(* is run through at least once; the first sample settles inside a block.  *)
(* The solver and the step of a filter are replaced by functions of every  *)
(* entry with small values, which whole numbers hold.                      *)
(***************************************************************************)
EXTENDS Predictors, TLC

MCSingular(matrix) ==
  matrix[<<0, 0>>] = 0 \/ SumOver(DOMAIN matrix, LAMBDA ij : matrix[ij]) % 5 = 0

MCSolution(matrix, rhs) ==
  [i \in DOMAIN rhs |->
     ((rhs[i] + SumOver(DOMAIN matrix, LAMBDA ij : (ij[1] + i + 1) * matrix[ij])) % 3) - 1]

MCStep(left, energy) == ((left + energy) % 3) - 1

MCLow == -1

Block(type, channels, left, max, interval, frames, samples) ==
  [type |-> type, channels |-> channels, left |-> left, max |-> max, interval |-> interval,
   frames |-> frames, samples |-> samples]

Mono   == Block(1, 1, 2, 2, 2, 9, {-1, 0, 1})
Stereo == Block(1, 2, 2, 4, 1, 6, {-1, 1})

Layers(block, stages, decay) ==
  block @@ [schedule |-> <<>>, stages |-> stages, decay |-> decay, resolve |-> 2, resolved |-> 1]

Stage(size1, size2) == [size1 |-> size1, size2 |-> size2]
MonoLayers   == {Layers(Block(3, 1, 1, 1, 2, n, {-1, 1}), <<Stage(3, 0), Stage(2, 0)>>, decay) :
                   n \in {1, 2, 7}, decay \in {0, 1}}
StereoLayers == {Layers(Block(3, 2, 2, 4, 2, 5, {-1, 1}), <<Stage(2, 1)>>, 1)}
                \cup {Layers(Block(3, 2, 2, 4, 3, 4, {0, 1}), <<Stage(1, 3), Stage(2, 0)>>, 0)}

Dual(block, weight, steps) == block @@ [weight |-> weight, steps |-> steps]
MonoDual   == Dual(Block(4, 1, 1, 1, 2, 7, {-1, 0, 1}), 3, <<<<1, 3, 2>>>>)
StereoDual == Dual(Block(4, 2, 2, 4, 2, 4, {-1, 1}), 2, <<<<2, 1>>, <<1, 5>>>>)

MCSetups == {Mono, Stereo, MonoDual, StereoDual} \cup MonoLayers \cup StereoLayers

(* The hypothesis of SystemStands holds of the set-ups above.              *)
ASSUME MCFarEnough == \A s \in MCSetups : FarEnough(s)
=============================================================================
