----------------------------- MODULE FreqTable -----------------------------
(***************************************************************************)
(* What an adaptive model promises the range coder: a table of frequencies *)
(* from which every symbol gets an interval of its own, side by side in    *)
(* the order of the symbols.  Coding a symbol adds 2 to its frequency, and *)
(* when the frequencies sum up to the limit all of them are halved.        *)
(***************************************************************************)
EXTENDS Integers, FiniteSets, Functions

CONSTANTS
  SymbolCounts,  (* the alphabet sizes a model is created with, all > 0    *)
  Limits         (* the totals at which models halve, natural numbers      *)

VARIABLES
  freq,   (* the frequency of every symbol                                 *)
  limit,  (* the limit of this table                                       *)
  coded   (* the interval of the last symbol                               *)

tableVars == <<freq, limit, coded>>

Symbols == DOMAIN freq
SumOf(S) == SumFunctionOnSet(freq, S)

Init ==
  /\ \E n \in SymbolCounts : freq = [s \in 0 .. n - 1 |-> 1]
  /\ limit \in Limits
  /\ coded = <<>>

Code(sym) ==
  LET total == SumOf(Symbols)
      grown == [freq EXCEPT ![sym] = @ + 2] IN
  /\ coded' = [sym   |-> sym,
               total |-> total,
               acc   |-> SumOf(0 .. sym - 1),
               freq  |-> freq[sym]]
  /\ freq' = IF total + 2 < limit THEN grown
             ELSE [s \in Symbols |-> (grown[s] + 1) \div 2]
  /\ UNCHANGED limit

Next == \E sym \in Symbols : Code(sym)

Spec == Init /\ [][Next]_tableVars
=============================================================================
