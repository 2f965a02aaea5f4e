--------------------------- MODULE PostProcessor ---------------------------
(***************************************************************************)
(* OFR_PostProcessor, the last stage of a block: it turns the values that  *)
(* predictor and entropy coder work on back into samples.  Type 1 divides  *)
(* the samples by a common multiplier, type 2 numbers the values that      *)
(* occur and has a table of them.  The object is made by the first block   *)
(* that needs it and serves all later ones, of whatever type.              *)
(*                                                                         *)
(* One channel; the others are set up by the same code.  The coded values  *)
(* are those from scaled_min to scaled_max, where the predictors clamp.    *)
(***************************************************************************)
EXTENDS Integers, FiniteSets

CONSTANTS
  Bits,         (* of an int and of a sample, 32                           *)
  SafeRange,    (* below it the range is reduced with ints, 0x800000       *)
  Ranges,       (* the <<min, max>> of blocks                              *)
  Multipliers,  (* the multipliers of type 1 blocks                        *)
  RemapRanges,  (* those of remapped blocks, which include 0               *)
  Scales,       (* the scales of remapped blocks, in units of ...          *)
  ScaleUnit,    (* ... 1 / ScaleUnit, 2^-52                                *)
  Overshoot     (* how far a lossy predictor leaves the coded range        *)

MaxInt == 2 ^ (Bits - 1) - 1
Int32  == -MaxInt - 1 .. MaxInt

ASSUME PostAssumption ==
  /\ {Bits, SafeRange, ScaleUnit} \subseteq Nat \ {0} /\ Overshoot \in Nat
  /\ \A r \in Ranges \cup RemapRanges : {r[1], r[2]} \subseteq Int32 /\ r[1] <= r[2]
  /\ \A r \in RemapRanges : 0 \in r[1] .. r[2]
  /\ Scales \subseteq Int /\ Multipliers \subseteq 1 .. 2 ^ Bits - 1
  /\ 2 * SafeRange <= MaxInt   (* a multiplier of a safe range is positive *)

VARIABLES
  pc,      (* "header", "walk" over the values of a remap, "block"         *)
  pp,      (* the object                                                   *)
  block,   (* the set-up of the block, and the values its encoder means    *)
  walk     (* [range, candidates, present, v] of build_present             *)

vars == <<pc, pp, block, walk>>

NoWalk == [range |-> <<0, 0>>, candidates |-> {}, present |-> {}, v |-> 0]

Unsigned(x) == x % 2 ^ Bits
Signed(x)   == ((x + 2 ^ (Bits - 1)) % 2 ^ Bits) - 2 ^ (Bits - 1)

Fresh ==
  [made |-> FALSE, has_remap |-> FALSE, table |-> <<>>,
   min_val |-> -SafeRange, max_val |-> SafeRange - 1, mult |-> 1, offset |-> 0,
   scaled_min |-> -SafeRange, scaled_max |-> SafeRange - 1]

Init ==
  /\ pc = "header"
  /\ pp = Fresh
  /\ block = [type |-> 0, dual |-> FALSE, values |-> {}]
  /\ walk = NoWalk

-----------------------------------------------------------------------------
(* The coded range of type 1 *)

(* Division of C++ rounds towards 0, and the remainder has the sign of a.  *)
Quotient(a, b) ==
  LET abs(x) == IF x < 0 THEN -x ELSE x
      q == abs(a) \div abs(b)
  IN IF (a < 0) = (b < 0) THEN q ELSE -q
Remainder(a, b) == a - b * Quotient(a, b)

(* Mutant: mult is taken as the int it is stored in.                       *)
DivisorSigned(p) == p.mult

(* With a wide range mult is zero-extended.                                *)
Divisor(p) ==
  IF p.min_val < -SafeRange \/ p.max_val >= SafeRange THEN Unsigned(p.mult) ELSE p.mult

(* ofr_reduce_range rounds outwards.                                       *)
ReducedMin(p) ==
  LET a == p.min_val - p.offset IN
  Quotient(a, Divisor(p)) + (IF Remainder(a, Divisor(p)) < 0 THEN -1 ELSE 0)
ReducedMax(p) ==
  LET a == p.max_val - p.offset IN
  Quotient(a, Divisor(p)) + (IF Remainder(a, Divisor(p)) > 0 THEN 1 ELSE 0)

(* Mutant: the clamp stays as it was set up.                               *)
WidenedNot(p, dual) == p

(* A lossy predictor may overshoot: the clamp is moved out of its way.     *)
Widened(p, dual) ==
  IF dual THEN [p EXCEPT !.min_val = -MaxInt, !.max_val = MaxInt] ELSE p

-----------------------------------------------------------------------------
(* What OFR_PostProcessor::decode makes of a coded value *)

Restored(c) ==
  LET scaled == Unsigned(pp.mult) * c + pp.offset IN
  IF pp.has_remap THEN pp.table[c]
  ELSE IF scaled <= pp.min_val THEN pp.min_val
  ELSE IF scaled > pp.max_val THEN pp.max_val
  ELSE scaled

-----------------------------------------------------------------------------
(* Set-up of a block without, with reduced, and with renumbered values *)

(* The object, if there is one, is left as it is.                          *)
SetUp0(dual) ==
  /\ pc = "header"
  /\ pp' = IF pp.made THEN Widened(pp, dual) ELSE pp
  /\ block' = [type |-> 0, dual |-> dual, values |-> {}]
  /\ pc' = "block"
  /\ UNCHANGED walk

(* Mutant: mult goes unsigned into its field.                              *)
StoredUnsigned(mult) == mult

(* mult_L is an int, the number read has no sign.                          *)
Stored(mult) == Signed(mult)

(* init(): the encoder has found every sample to be offset modulo mult,    *)
(* but for the extremes.                                                   *)
SetUp1(range, mult, offset, dual) ==
  /\ pc = "header"
  /\ LET p == [pp EXCEPT !.made = TRUE, !.min_val = range[1], !.max_val = range[2],
                         !.mult = Stored(mult), !.offset = offset]
     IN pp' = Widened([p EXCEPT !.scaled_min = ReducedMin(p), !.scaled_max = ReducedMax(p)],
                      dual)
  /\ block' = [type |-> 1, dual |-> dual,
               values |-> {x \in range[1] .. range[2] :
                             x \in {range[1], range[2]} \/ (x - offset) % mult = 0}]
  /\ pc' = "block"
  /\ UNCHANGED walk

(* Type 2 codes the numbers of the values, from min to max.                *)
Numbered(p, remapped, table, min, max) ==
  [p EXCEPT !.made = TRUE, !.has_remap = remapped, !.table = table, !.mult = 1, !.offset = 0,
            !.min_val = min, !.max_val = max, !.scaled_min = min, !.scaled_max = max]

(* Mutant: a table of an earlier block is not switched off.                *)
RemappedStill(flagged) == flagged \/ pp.has_remap

Remapped(flagged) == flagged

(* init2() of a channel that is not flagged: where another one is, it gets *)
(* a table of its own, of every value.                                     *)
SetUp2Plain(range, otherFlagged, dual) ==
  /\ pc = "header"
  /\ LET identity == [x \in range[1] .. range[2] |-> x]
         table    == IF otherFlagged THEN identity ELSE pp.table
     IN pp' = Widened(Numbered(pp, Remapped(otherFlagged), table, range[1], range[2]), dual)
  /\ block' = [type |-> 2, dual |-> dual, values |-> range[1] .. range[2]]
  /\ pc' = "block"
  /\ UNCHANGED walk

(* xform: v times scale, rounded in one of six ways.                       *)
Transformed(rounding, scale, v) ==
  LET sv     == scale * v
      floor  == sv \div ScaleUnit
      ceil   == -((-sv) \div ScaleUnit)
      half   == (2 * sv + ScaleUnit) \div (2 * ScaleUnit)
      tie    == (2 * sv + ScaleUnit) % (2 * ScaleUnit) = 0
  IN CASE rounding = 1 -> ceil
       [] rounding = 2 -> IF v < 0 THEN ceil ELSE floor
       [] rounding = 3 -> IF v < 0 THEN floor ELSE ceil
       [] rounding = 4 -> half
       [] rounding = 5 -> IF tie /\ half % 2 = 1 THEN half - 1 ELSE half
       [] OTHER -> floor

(* init2() of a flagged channel: the values a scaled signal would have are *)
(* the candidates, and the stream says where the signal differs.           *)
SetUp2Remap(range, rounding, scale) ==
  /\ pc = "header"
  /\ LET candidates == {Transformed(rounding, scale, v) : v \in range[1] .. range[2]}
                         \cap range[1] .. range[2]
     IN /\ walk' = [range |-> range, candidates |-> candidates, present |-> {}, v |-> range[1]]
        /\ block' = [type |-> 2, dual |-> FALSE, values |-> candidates]
  /\ pc' = "walk"
  /\ UNCHANGED pp

-----------------------------------------------------------------------------
(* build_present, one value of the range a step *)

AtValue == pc = "walk" /\ walk.v <= walk.range[2]

WalkCandidate ==
  /\ AtValue /\ walk.v \in walk.candidates
  /\ walk' = [walk EXCEPT !.present = @ \cup {walk.v}, !.v = @ + 1]
  /\ UNCHANGED <<pc, pp, block>>

WalkAbsent ==
  /\ AtValue /\ walk.v \notin walk.candidates
  /\ walk' = [walk EXCEPT !.v = @ + 1]
  /\ UNCHANGED <<pc, pp, block>>

(* A value that is there may stand for one beside it that is not.          *)
Replaceable ==
  {{}} \cup {{n} : n \in ({walk.v - 1} \cap walk.present)
                         \cup ({walk.v + 1} \cap walk.candidates)}

(* The walk skips a candidate that was replaced beforehand.                *)
Resume(replaced) == IF walk.v + 1 \in replaced THEN walk.v + 2 ELSE walk.v + 1

WalkAdded(replaced) ==
  /\ AtValue /\ walk.v \notin walk.candidates
  /\ replaced \in Replaceable
  /\ walk' = [walk EXCEPT !.present = (@ \cup {walk.v}) \ replaced, !.v = Resume(replaced)]
  /\ block' = [block EXCEPT !.values = (@ \cup {walk.v}) \ replaced]
  /\ UNCHANGED <<pc, pp>>

(* Mutant: the negative values are numbered from the far end.              *)
NumberingReversed(range, present) ==
  LET count(a, b) == Cardinality(present \cap a .. b)
  IN [k \in -count(range[1], -1) .. count(1, range[2]) |->
        IF k = 0 THEN 0
        ELSE IF k > 0 THEN CHOOSE x \in present : 0 < x /\ count(1, x) = k
        ELSE CHOOSE x \in present : x < 0 /\ count(range[1], x) = -k]

(* build_inverse numbers the values upwards and downwards from 0, which    *)
(* always has its own number.  The rest of the table is a hole and never   *)
(* looked at.                                                              *)
Numbering(range, present) ==
  LET count(a, b) == Cardinality(present \cap a .. b)
  IN [k \in -count(range[1], -1) .. count(1, range[2]) |->
        IF k = 0 THEN 0
        ELSE IF k > 0 THEN CHOOSE x \in present : 0 < x /\ count(1, x) = k
        ELSE CHOOSE x \in present : x < 0 /\ count(x, -1) = -k]

(* Which predictor follows is looked at after init2.                       *)
WalkEnd(dual) ==
  /\ pc = "walk" /\ walk.v > walk.range[2]
  /\ LET table == Numbering(walk.range, walk.present)
         min == CHOOSE k \in DOMAIN table : \A j \in DOMAIN table : k <= j
         max == CHOOSE k \in DOMAIN table : \A j \in DOMAIN table : k >= j
     IN pp' = Widened(Numbered(pp, Remapped(TRUE), table, min, max), dual)
  /\ block' = [block EXCEPT !.values = @ \cup {0}, !.dual = dual]
  /\ pc' = "block"
  /\ walk' = NoWalk

-----------------------------------------------------------------------------
NextBlock ==
  /\ pc = "block"
  /\ pc' = "header"
  /\ UNCHANGED <<pp, block, walk>>

(* A block's type picks the set-up; what that reads from the range coder   *)
(* may be anything.                                                        *)
Next ==
  \/ \E dual \in BOOLEAN : SetUp0(dual)
  \/ \E range \in Ranges, dual \in BOOLEAN :
       \/ \E mult \in Multipliers \cap 1 .. range[2] - range[1] + 1 :
            \E offset \in 0 .. mult - 1 : offset <= MaxInt /\ SetUp1(range, mult, offset, dual)
       \/ \E otherFlagged \in BOOLEAN : SetUp2Plain(range, otherFlagged, dual)
  \/ \E range \in RemapRanges, rounding \in 0 .. 5, scale \in Scales :
       SetUp2Remap(range, rounding, scale)
  \/ WalkCandidate
  \/ WalkAbsent
  \/ \E replaced \in SUBSET {walk.v - 1, walk.v + 1} : WalkAdded(replaced)
  \/ \E dual \in BOOLEAN : WalkEnd(dual)
  \/ NextBlock

Spec == Init /\ [][Next]_vars

-----------------------------------------------------------------------------
PostTypeOK ==
  /\ pc \in {"header", "walk", "block"}
  /\ {pp.min_val, pp.max_val, pp.mult, pp.offset, pp.scaled_min, pp.scaled_max} \subseteq Int32
  /\ block.type \in 0 .. 2 /\ block.values \subseteq Int32
  /\ walk.present \subseteq walk.range[1] .. walk.range[2]

(* What an earlier block left behind is in force: has_remap is cleared     *)
(* only by init2, and a block of type 0 sets up nothing at all.            *)
Stale == (block.type = 0 /\ pp.made) \/ (block.type = 1 /\ pp.has_remap)

Coded == pp.scaled_min .. pp.scaled_max

(* Whatever the rounding of the range and the walk over the values have    *)
(* come to, the coded values restore exactly the samples the block's       *)
(* encoder means: none is out of reach, not even an extreme that is no     *)
(* multiple, and none is made up (ofr_reduce_range, build_present,         *)
(* build_inverse and decode together).                                     *)
RestoresExactly ==
  pc = "block" /\ ~block.dual /\ block.type # 0 /\ ~Stale =>
    {Restored(c) : c \in Coded} = block.values

(* A larger coded value is a larger sample: no two coded values restore    *)
(* the same one, and the predictor's arithmetic on them means something.   *)
OrderKept ==
  pc = "block" /\ ~block.dual /\ block.type # 0 /\ ~Stale =>
    \A c, d \in Coded : c < d => Restored(c) < Restored(d)

(* "Widen post1's clamp bounds so it never fires here": a lossy block's    *)
(* overshoot comes out as it was computed, as long as it is an int.        *)
LossyUnclipped ==
  pc = "block" /\ block.dual /\ block.type = 1 /\ ~Stale =>
    \A c \in pp.scaled_min - Overshoot .. pp.scaled_max + Overshoot :
      LET x == Unsigned(pp.mult) * c + pp.offset IN
      x \in -MaxInt .. MaxInt => Restored(c) = x

(* After a type 2 set-up, whatever came before, the table in force is this *)
(* block's, or there is none: its coded range is what the table covers.    *)
TableIsOwn ==
  pc = "block" /\ block.type = 2 /\ pp.has_remap => DOMAIN pp.table = Coded
=============================================================================
