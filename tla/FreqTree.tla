------------------------------ MODULE FreqTree ------------------------------
(***************************************************************************)
(* The adaptive model OFR_ModelContext.  The frequencies are the leaves of *)
(* a complete binary tree kept in an array: the children of node n are     *)
(* nodes 2n and 2n + 1, and an inner node holds the sum of the leaves      *)
(* below its left child.  The same tree is written out again for the       *)
(* master, fast, ACM, schedule and remap contexts; the encoder walks it    *)
(* by the bits of the symbol, the decoder by comparing.                    *)
(*                                                                         *)
(* An encoder and a decoder each keep their own copy of the tree and must  *)
(* never differ.  What lies between them, the range coder, delivers to the *)
(* decoder some point of the interval the encoder coded (RangeCoder shows  *)
(* that it does).                                                          *)
(***************************************************************************)
EXTENDS Integers, FiniteSets, Functions

CONSTANTS
  SymbolCounts,  (* the alphabet sizes of the contexts                     *)
  Limits         (* their limits                                           *)

ASSUME TreeAssumption ==
  /\ SymbolCounts \subseteq Nat \ {0}
  /\ Limits \subseteq Nat
  /\ \A n \in SymbolCounts, lim \in Limits : n + 1 < lim

VARIABLES
  encTree,   (* the encoder's tree                                         *)
  decTree,   (* the decoder's tree                                         *)
  coded,     (* the symbol the encoder coded last and its interval         *)
  received   (* the symbol the decoder made of it                          *)

treeVars == <<encTree, decTree, coded, received>>

-----------------------------------------------------------------------------
(* init, rebuild_tree and halve_freqs *)

(* The least power of two that has room for n symbols. *)
Depth(n)  == CHOOSE k \in 0 .. n : 2^k >= n /\ \A j \in 0 .. k - 1 : 2^j < n
NumNodes(n) == 2^Depth(n)
Nodes(t)  == 1 .. 2 * t.num_nodes - 1
Leaves(t) == {t.num_nodes + i : i \in 0 .. t.num_symbols - 1}

(* What the leaves below each node add up to.                              *)
SubtreeSums(t) ==
  LET sum[n \in Nodes(t)] ==
        IF n >= t.num_nodes THEN t.freqs[n] ELSE sum[2 * n] + sum[2 * n + 1]
  IN sum

(* Mutant: every inner node holds the sum of all the leaves below it.      *)
RebuiltWithBothSums(t) == [t EXCEPT !.freqs = SubtreeSums(t)]

Rebuilt(t) ==
  [t EXCEPT !.freqs =
     [n \in Nodes(t) |-> IF n >= t.num_nodes THEN @[n] ELSE SubtreeSums(t)[2 * n]]]

NewTree(symbols, lim) ==
  LET nn == NumNodes(symbols) IN
  Rebuilt([num_symbols |-> symbols, num_nodes |-> nn, limit |-> lim, total_freq |-> symbols,
           freqs |-> [n \in 1 .. 2 * nn - 1 |->
                        IF n \in nn .. nn + symbols - 1 THEN 1 ELSE 0]])

(* Mutant: a frequency of one is halved to nothing.                        *)
HalvedDown(t) ==
  LET freqs == [n \in Nodes(t) |->
                  IF n \in Leaves(t) THEN t.freqs[n] \div 2 ELSE t.freqs[n]]
  IN Rebuilt([t EXCEPT !.freqs = freqs, !.total_freq = SumFunctionOnSet(freqs, Leaves(t))])

Halved(t) ==
  LET freqs == [n \in Nodes(t) |->
                  IF n \in Leaves(t) THEN (t.freqs[n] - 1) \div 2 + 1 ELSE t.freqs[n]]
  IN Rebuilt([t EXCEPT !.freqs = freqs, !.total_freq = SumFunctionOnSet(freqs, Leaves(t))])

-----------------------------------------------------------------------------
(* decode_symbol and encode_symbol *)

(* A walk down the tree: where it stands, the frequencies it has left to   *)
(* its left, and the array it has counted in.                              *)
Start(t) == [node |-> 1, acc |-> 0, freqs |-> t.freqs]
TurnLeft(w)  == [w EXCEPT !.freqs[w.node] = @ + 2, !.node = 2 * @]
TurnRight(w) == [w EXCEPT !.acc = @ + w.freqs[w.node], !.node = 2 * @ + 1]

EncodeWalk(t, sym) ==
  LET levels == Depth(t.num_symbols)
      walk[i \in 0 .. levels] ==
        IF i = 0 THEN Start(t)
        ELSE IF ((t.num_nodes + sym) \div 2^(levels - i)) % 2 = 0
             THEN TurnLeft(walk[i - 1]) ELSE TurnRight(walk[i - 1])
  IN walk[levels]

(* Mutant: the comparison misses the first point of the right subtree.     *)
DecodeWalkOffByOne(t, point) ==
  LET levels == Depth(t.num_symbols)
      walk[i \in 0 .. levels] ==
        IF i = 0 THEN Start(t)
        ELSE LET w == walk[i - 1] IN
             IF point > w.acc + w.freqs[w.node] THEN TurnRight(w) ELSE TurnLeft(w)
  IN walk[levels]

DecodeWalk(t, point) ==
  LET levels == Depth(t.num_symbols)
      walk[i \in 0 .. levels] ==
        IF i = 0 THEN Start(t)
        ELSE LET w == walk[i - 1] IN
             IF point >= w.acc + w.freqs[w.node] THEN TurnRight(w) ELSE TurnLeft(w)
  IN walk[levels]

(* The interval a walk has found.                                          *)
Coded(t, w) ==
  [sym |-> w.node - t.num_nodes, total |-> t.total_freq, acc |-> w.acc,
   freq |-> w.freqs[w.node]]

(* Mutant: the limit may be reached.                                       *)
CountedPastLimit(t, w) ==
  LET grown == [t EXCEPT !.freqs = [w.freqs EXCEPT ![w.node] = @ + 2],
                         !.total_freq = @ + 2]
  IN IF grown.total_freq > t.limit THEN Halved(grown) ELSE grown

(* Both sides end alike: the leaf is counted, the limit is looked at.      *)
Counted(t, w) ==
  LET grown == [t EXCEPT !.freqs = [w.freqs EXCEPT ![w.node] = @ + 2],
                         !.total_freq = @ + 2]
  IN IF grown.total_freq >= t.limit THEN Halved(grown) ELSE grown

-----------------------------------------------------------------------------
Init ==
  /\ \E n \in SymbolCounts, lim \in Limits : encTree = NewTree(n, lim)
  /\ decTree = encTree
  /\ coded = <<>>
  /\ received = <<>>

(* encode_symbol(sym) on one side, and on the other decode_symbol with a   *)
(* point of the interval.                                                  *)
CodeSymbol(sym, offset) ==
  LET e == EncodeWalk(encTree, sym)
      d == DecodeWalk(decTree, e.acc + offset)
  IN /\ offset < e.freqs[e.node]
     /\ coded' = Coded(encTree, e)
     /\ received' = Coded(decTree, d)
     /\ encTree' = Counted(encTree, e)
     /\ decTree' = Counted(decTree, d)

Next == \E sym \in 0 .. encTree.num_symbols - 1, offset \in 0 .. encTree.total_freq - 1 :
           CodeSymbol(sym, offset)

Spec == Init /\ [][Next]_treeVars

-----------------------------------------------------------------------------
(* Every inner node holds the sum of the leaves below its left child, and  *)
(* the total that of all leaves, although neither is summed up again       *)
(* between two halvings.                                                   *)
SumsKept ==
  LET sum == SubtreeSums(decTree) IN
  /\ \A n \in 1 .. decTree.num_nodes - 1 : decTree.freqs[n] = sum[2 * n]
  /\ decTree.total_freq = sum[1]

(* The decoder finds the symbol that was coded wherever in its interval    *)
(* the stream points, and the two trees never part.                        *)
Lockstep == received = coded /\ decTree = encTree

(* Every symbol stays codable and no padding leaf ever is: a frequency     *)
(* never drops to zero, and one behind the alphabet never leaves it.  One  *)
(* halving always brings the total the range coder divides by below the    *)
(* limit again.                                                            *)
FrequenciesInBounds ==
  /\ \A n \in decTree.num_nodes .. 2 * decTree.num_nodes - 1 :
       decTree.freqs[n] > 0 <=> n \in Leaves(decTree)
  /\ decTree.total_freq < decTree.limit

(* The tree is the flat table of frequencies, only faster.                 *)
Table == INSTANCE FreqTable WITH
  freq  <- [s \in 0 .. decTree.num_symbols - 1 |-> decTree.freqs[decTree.num_nodes + s]],
  limit <- decTree.limit,
  coded <- coded

ImplementsTable == Table!Spec
=============================================================================
