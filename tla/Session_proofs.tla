--------------------------- MODULE Session_proofs ---------------------------
(***************************************************************************)
(* Proofs about Session, for all files, whole and damaged, all portions in *)
(* which they are read and all seeks, and about the Programs, which are    *)
(* callers of it.                                                          *)
(*                                                                         *)
(* Three things are followed at once.  The count: how far the engine has   *)
(* come is what the instance says it is, less the slip, unless a seek has  *)
(* failed and the instance stands at the end without the engine (Lost).    *)
(* The place, on a file laid out in order, as an intact one is (whatever   *)
(* else its payloads are): between blocks the stream stands on the         *)
(* header of the block that goes on with the next frame, or behind the     *)
(* last one; within a block it is as far into the payload as the frames so *)
(* far have cost, and the coder has been fed exactly that much of it.  And *)
(* the tail: it is next behind the last block until it has been looked     *)
(* for.                                                                    *)
(***************************************************************************)
EXTENDS Programs, SequenceTheorems, ArithmeticFacts

Fields == {"pos", "budget", "comp_start", "need_new_block", "block", "block_pos",
           "payload_start", "fed", "ready", "live", "samples_read", "errors", "tail"}

-----------------------------------------------------------------------------
(* The engine *)

Size(s, block) == block.values \div s.channels

(* A block is open, maybe through.                                         *)
InBlock(s, e) ==
  /\ e.block.values \in Nat /\ e.block.first \in Nat
  /\ e.block_pos \in 0 .. Size(s, e.block)
  /\ s.float => e.ready \in [1 .. Size(s, e.block) -> Int]

EngineTyped(s, e) ==
  /\ DOMAIN e = Fields
  /\ e.samples_read \in Nat /\ {e.need_new_block, e.errors} \subseteq BOOLEAN
  /\ ~e.need_new_block => InBlock(s, e) /\ e.block_pos < Size(s, e.block)

(* The place between two blocks.                                           *)
AtBoundary(s, e) ==
  /\ e.budget = -1 /\ e.pos \in 0 .. Len(s.cells)
  /\ IF IsBlock(s, e.pos + 1)
     THEN /\ Cell(s, e.pos + 1).first = e.samples_read
          /\ e.samples_read < Points(s) \/ Points(s) = 0
     ELSE /\ e.samples_read = Points(s)
          /\ \A q \in DOMAIN s.cells : q > e.pos => ~IsBlock(s, q)

(* So much of a payload has been passed when n bytes were asked for.       *)
Passed(cell, n) == IF n < cell.payload THEN n ELSE cell.payload

(* A coder that has been fed n bytes of the payload whose header is at p.  *)
Feeding(s, e, p, n) ==
  /\ e.pos = p + Passed(Cell(s, p), n)
  /\ e.budget = Cell(s, p).payload - Passed(Cell(s, p), n)
  /\ e.fed = Payload(Cell(s, p), n)

(* The place within the block at p.                                        *)
Within(s, e, p) ==
  /\ p \in DOMAIN s.cells /\ IsBlock(s, p) /\ e.block = s.cells[p]
  /\ e.samples_read = e.block.first + e.block_pos
  /\ IF s.float THEN e.budget = -1 /\ e.pos = BlockEnd(s, p)
     ELSE e.payload_start = p /\ Feeding(s, e, p, CostTo(e.block, e.block_pos))

Placed(s, e) ==
  IF e.need_new_block THEN AtBoundary(s, e) ELSE \E p \in DOMAIN s.cells : Within(s, e, p)

(* The stages are those of the blocks, and floats are what they should be. *)
Faithful(s, e) ==
  /\ \A p \in DOMAIN s.cells : IsBlock(s, p) => e.live \subseteq s.cells[p].stages
  /\ ~e.need_new_block =>
       /\ e.live = e.block.stages
       /\ s.float => \A j \in 1 .. Size(s, e.block) : e.ready[j] = e.block.first + j

BodyStart(s) == HeadAt(s) + Cell(s, HeadAt(s)).size

(* Whoever is behind the last block without an error finds the tail.       *)
TailNext(s, e) ==
  e.need_new_block /\ ~IsBlock(s, e.pos + 1) =>
    e.errors \/ \A q \in DOMAIN s.cells : s.cells[q].kind = "TAIL" => q = e.pos + 1

-----------------------------------------------------------------------------
(* The instance *)

(* After a failed seek the instance stands at the end and reads no more.   *)
Lost == failedSeek /\ points_read_so_far = noPoints

ReadCalls == [op: {"read"}, want: Nat, frames: Seq(Int), turn: {0, 1}]
SeekCalls == [op: {"seek"}, point: Int, want: Nat, got: Nat, turn: {0, 1}]

Typed ==
  /\ stream \in Streams /\ {is_opened, failedSeek, tail_read} \subseteq BOOLEAN
  /\ points_read_so_far \in Int /\ slip \in Int
  /\ points_read_so_far <= noPoints /\ slip <= 0
  /\ call \in {Idle} \cup ReadCalls \cup SeekCalls
  /\ IF is_opened THEN EngineTyped(stream, eng) ELSE call = Idle

Counted ==
  /\ is_opened /\ call = Idle /\ ~Lost => eng.samples_read = points_read_so_far - slip
  /\ call \in ReadCalls =>
       /\ Len(call.frames) < call.want /\ call.want <= noPoints - points_read_so_far
       /\ eng.samples_read = points_read_so_far - slip + Len(call.frames)
  /\ call \in SeekCalls =>
       /\ stream.seekable /\ call.point * stream.channels < stream.total
       /\ call.got < call.want
       /\ eng.samples_read + (call.want - call.got) <= SeekTarget(call.point)

(* What a seek relies on in a file laid out in order, lost or not.         *)
Restorable ==
  is_opened /\ LaidOut(stream) =>
    /\ eng.comp_start = BodyStart(stream)
    /\ OneConfiguration(stream) => Faithful(stream, eng)
    /\ eng.errors => slip < 0 /\ call \notin SeekCalls

OnTrack ==
  is_opened /\ LaidOut(stream) /\ (call # Idle \/ ~Lost) =>
    Placed(stream, eng) /\ (tail_read \/ TailNext(stream, eng))

TailSize(cell) == IF cell = Zero THEN 0 ELSE cell.size

TailKept ==
  is_opened =>
    /\ ~tail_read => eng.tail = Zero
    /\ tail_read /\ LaidOut(stream) /\ ~failedSeek /\ noPoints > 0 =>
         TailSize(eng.tail) = TailOf(stream)

ShortReadTold ==
  call = Idle /\ result.op = "read" /\ Len(result.frames) < result.asked => eng.errors \/ slip < 0

(* As far as it goes, a read of such a file has its frames in order.       *)
InOrder ==
  call \in ReadCalls /\ LaidOut(stream) /\ OneConfiguration(stream) =>
    \A i \in 1 .. Len(call.frames) : call.frames[i] = points_read_so_far - slip + i

IInv == Typed /\ Counted /\ Restorable /\ OnTrack /\ TailKept /\ ShortReadTold /\ InOrder
-----------------------------------------------------------------------------
(* Numbers and sequences *)

LEMMA MinOfTwo ==
  ASSUME NEW a \in Int, NEW b \in Int
  PROVE  Min({a, b}) = IF a < b THEN a ELSE b
  <1> DEFINE m == IF a < b THEN a ELSE b
  <1>1. m \in {a, b} /\ \A y \in {a, b} : m <= y
    OBVIOUS
  <1>2. \A x \in {a, b} : (\A y \in {a, b} : x <= y) => x = m
    OBVIOUS
  <1>3. QED BY <1>1, <1>2 DEF Min

LEMMA MaxOfTwo ==
  ASSUME NEW a \in Int, NEW b \in Int
  PROVE  Max({a, b}) = IF a < b THEN b ELSE a
  <1> DEFINE m == IF a < b THEN b ELSE a
  <1>1. m \in {a, b} /\ \A y \in {a, b} : m >= y
    OBVIOUS
  <1>2. \A x \in {a, b} : (\A y \in {a, b} : x >= y) => x = m
    OBVIOUS
  <1>3. QED BY <1>1, <1>2 DEF Max

(* Two stretches of a sequence, one behind the other.                      *)
LEMMA Joined ==
  ASSUME NEW S, NEW a \in Seq(S), NEW b \in Seq(S), NEW c \in Seq(S),
         Len(c) = Len(a) + Len(b),
         \A i \in 1 .. Len(a) : c[i] = a[i],
         \A i \in 1 .. Len(b) : c[Len(a) + i] = b[i]
  PROVE  a \o b = c
  <1>1. /\ a \o b \in Seq(S) /\ Len(a \o b) = Len(a) + Len(b)
        /\ Len(a) \in Nat /\ Len(b) \in Nat
        /\ \A i \in 1 .. Len(a) : (a \o b)[i] = a[i]
        /\ \A i \in 1 .. Len(b) : (a \o b)[Len(a) + i] = b[i]
    OBVIOUS
  <1>2. ASSUME NEW i \in 1 .. Len(a \o b) PROVE (a \o b)[i] = c[i]
    <2>1. CASE i <= Len(a)
      BY <1>1, <2>1
    <2>2. CASE i > Len(a)
      <3>1. i - Len(a) \in 1 .. Len(b) /\ i = Len(a) + (i - Len(a))
        BY <1>1, <2>2
      <3>2. QED BY <1>1, <3>1
    <2>3. QED BY <1>1, <2>1, <2>2
  <1>3. QED BY <1>1, <1>2, SeqEqual

-----------------------------------------------------------------------------
(* Files *)

LEMMA StreamFacts ==
  ASSUME NEW s \in Streams
  PROVE  /\ Len(s.cells) \in Nat /\ DOMAIN s.cells = 1 .. Len(s.cells)
         /\ s.total \in Nat /\ s.channels \in Nat \ {0}
         /\ s.float \in BOOLEAN /\ s.seekable \in BOOLEAN /\ s.intact \in BOOLEAN
         /\ s.intact => LaidOut(s)
  BY StreamsAssumption

(* The frames of a file are no more than its values.                       *)
LEMMA PointsType ==
  ASSUME NEW s \in Streams
  PROVE  /\ Points(s) \in Nat /\ Points(s) <= s.total
         /\ \A k \in Int : k * s.channels < s.total => k <= Points(s)
         /\ \A k \in Int : k < Points(s) => k * s.channels < s.total
  <1>1. s.total \in Nat /\ s.channels \in Nat \ {0}
    BY StreamFacts
  <1> DEFINE n == s.total c == s.channels q == n \div c
  <1>2. q \in Int /\ n % c \in 0 .. c - 1 /\ n = c * q + (n % c)
    <2>1. n \in Int /\ c \in Nat \ {0}
      BY <1>1
    <2> HIDE DEF n, c
    <2>2. QED BY <2>1, Division
  <1> HIDE DEF n, c, q
  <1>3. n \in Nat /\ c \in Nat \ {0}
    BY <1>1 DEF n, c
  <1>4. ~(q < 0)
    <2>1. ASSUME q < 0 PROVE FALSE
      <3>1. q + 1 \in Int /\ q + 1 <= 0 /\ c \in Nat
        BY <1>2, <1>3, <2>1
      <3>2. (q + 1) * c <= 0 * c
        BY <3>1, ProductMono
      <3>3. (q + 1) * c = c * q + c /\ 0 * c = 0 /\ c * q \in Int
        BY <1>2, <1>3
      <3>4. QED BY <1>2, <1>3, <3>2, <3>3
    <2>2. QED BY <2>1
  <1>5. q \in Nat
    BY <1>2, <1>4
  <1>6. q <= n
    <2>1. 1 <= c /\ 1 \in Int /\ c \in Int
      BY <1>3
    <2>2. 1 * q <= c * q
      BY <1>5, <2>1, ProductMono
    <2>3. c * q \in Nat /\ 1 * q = q
      BY <1>3, <1>5
    <2>4. QED BY <1>2, <1>3, <1>5, <2>2, <2>3
  <1>7. ASSUME NEW k \in Int, k * c < n PROVE k <= q
    <2>1. ASSUME k > q PROVE FALSE
      <3>1. q + 1 <= k /\ c \in Nat /\ q + 1 \in Int
        BY <1>5, <1>3, <2>1
      <3>2. (q + 1) * c <= k * c
        BY <3>1, ProductMono
      <3>3. (q + 1) * c = c * q + c /\ c * q \in Int /\ k * c \in Int
        BY <1>3, <1>5
      <3>4. QED BY <1>2, <1>3, <1>7, <3>2, <3>3
    <2>2. QED BY <2>1, <1>5
  <1>8. ASSUME NEW k \in Int, k < q PROVE k * c < n
    <2>1. k + 1 <= q /\ k + 1 \in Int /\ c \in Nat
      BY <1>3, <1>5, <1>8
    <2>2. (k + 1) * c <= q * c
      BY <1>5, <2>1, ProductMono
    <2>3. (k + 1) * c = k * c + c /\ k * c \in Int /\ q * c = c * q /\ c * q \in Int
      BY <1>3, <1>5
    <2>4. QED BY <1>2, <1>3, <2>2, <2>3
  <1>9. QED BY <1>5, <1>6, <1>7, <1>8 DEF Points, n, c, q

LEMMA CellFacts ==
  ASSUME NEW s \in Streams, NEW p
  PROVE  /\ p \in DOMAIN s.cells => Cell(s, p) = s.cells[p]
         /\ p \notin DOMAIN s.cells => Cell(s, p) = Zero
  BY StreamFacts DEF Cell

LEMMA BlockFacts ==
  ASSUME NEW s \in Streams, NEW p, IsBlock(s, p)
  PROVE  /\ p \in DOMAIN s.cells /\ Cell(s, p) = s.cells[p]
         /\ Cell(s, p).first \in Nat /\ Cell(s, p).values \in Nat
         /\ FramesIn(s, p) = Size(s, Cell(s, p)) /\ FramesIn(s, p) \in Nat
  <1>1. p \in DOMAIN s.cells
    <2>1. Zero.kind # "COMP"
      BY DEF Zero
    <2>2. QED BY <2>1, CellFacts DEF IsBlock
  <1>2. Cell(s, p) = s.cells[p]
    BY <1>1, CellFacts
  <1>3. s.cells[p].first \in Nat /\ s.cells[p].values \in Nat
    BY <1>1, StreamsAssumption
  <1>4. Size(s, Cell(s, p)) \in Nat
    <2>1. \A v \in Nat, c \in Nat \ {0} : v \div c \in Nat
      OBVIOUS
    <2>2. QED BY <1>2, <1>3, <2>1, StreamFacts DEF Size
  <1>5. QED BY <1>1, <1>2, <1>3, <1>4 DEF FramesIn, Size

LEMMA GoesOnFacts ==
  ASSUME NEW s \in Streams, NEW p \in Nat, NEW n \in Nat, GoesOn(s, p, n)
  PROVE  /\ n <= Points(s)
         /\ IsBlock(s, p + 1) => Cell(s, p + 1).first = n /\ n < Points(s)
         /\ ~IsBlock(s, p + 1) =>
              /\ n = Points(s)
              /\ \A q \in DOMAIN s.cells : q > p => ~IsBlock(s, q)
              /\ \A q \in DOMAIN s.cells : s.cells[q].kind = "TAIL" => q = p + 1
  <1>1. Points(s) \in Nat
    BY PointsType
  <1>2. CASE n < Points(s)
    BY <1>1, <1>2 DEF GoesOn
  <1>3. CASE ~(n < Points(s))
    <2>1. /\ n = Points(s)
          /\ \A q \in DOMAIN s.cells : /\ q > p => ~IsBlock(s, q)
                                       /\ s.cells[q].kind = "TAIL" => q = p + 1
      BY <1>3 DEF GoesOn
    <2>2. ~IsBlock(s, p + 1)
      <3>1. ASSUME IsBlock(s, p + 1) PROVE FALSE
        <4>1. p + 1 \in DOMAIN s.cells /\ p + 1 > p
          BY <3>1, BlockFacts
        <4>2. QED BY <2>1, <3>1, <4>1
      <3>2. QED BY <3>1
    <2>3. QED BY <1>1, <2>1, <2>2
  <1>4. QED BY <1>2, <1>3

(* What the blocks of a file laid out in order are like.                   *)
LEMMA BlockLaid ==
  ASSUME NEW s \in Streams, LaidOut(s), NEW p, IsBlock(s, p)
  PROVE  /\ p \in Nat /\ PayloadFollows(s, p, FramesIn(s, p))
         /\ PayloadEnd(s, p) \in p .. Len(s.cells)
         /\ s.float => /\ PayloadEnd(s, p) + 1 \in DOMAIN s.cells
                       /\ Cell(s, PayloadEnd(s, p) + 1).kind = "DETA"
                       /\ PayloadFollows(s, PayloadEnd(s, p) + 1, FramesIn(s, p))
         /\ BlockEnd(s, p) \in Nat /\ BlockEnd(s, p) <= Len(s.cells)
         /\ GoesOn(s, BlockEnd(s, p), Cell(s, p).first + FramesIn(s, p))
  <1>1. /\ p \in DOMAIN s.cells /\ DOMAIN s.cells = 1 .. Len(s.cells) /\ Len(s.cells) \in Nat
        /\ LaidOut(s)
    BY BlockFacts, StreamFacts
  <1>2. /\ PayloadFollows(s, p, FramesIn(s, p))
        /\ s.float => /\ Cell(s, PayloadEnd(s, p) + 1).kind = "DETA"
                      /\ PayloadFollows(s, PayloadEnd(s, p) + 1, FramesIn(s, p))
        /\ GoesOn(s, BlockEnd(s, p), Cell(s, p).first + FramesIn(s, p))
    BY <1>1 DEF LaidOut
  <1>3. p \in Nat /\ PayloadEnd(s, p) \in p .. Len(s.cells)
    BY <1>1, <1>2 DEF PayloadFollows, PayloadEnd
  <1>4. s.float => PayloadEnd(s, p) + 1 \in DOMAIN s.cells
    <2>1. Zero.kind # "DETA"
      BY DEF Zero
    <2>2. QED BY <1>2, <2>1, CellFacts
  <1>5. BlockEnd(s, p) \in Nat /\ BlockEnd(s, p) <= Len(s.cells)
    <2>1. CASE s.float
      <3> DEFINE d == PayloadEnd(s, p) + 1
      <3>1. d \in Nat /\ Cell(s, d).payload \in Nat /\ d + Cell(s, d).payload <= Len(s.cells)
        BY <1>2, <1>3, <2>1 DEF PayloadFollows
      <3>2. BlockEnd(s, p) = d + Cell(s, d).payload
        BY <2>1 DEF BlockEnd, PayloadEnd
      <3> HIDE DEF d
      <3>3. QED BY <1>1, <3>1, <3>2
    <2>2. CASE ~s.float
      <3>1. BlockEnd(s, p) = PayloadEnd(s, p)
        BY <2>2 DEF BlockEnd
      <3>2. QED BY <1>1, <1>3, <3>1
    <2>3. QED BY <2>1, <2>2
  <1>6. QED BY <1>2, <1>3, <1>4, <1>5

(* The bytes taken up to the end of a frame, which never grow less.        *)
LEMMA Costs ==
  ASSUME NEW cell, NEW n \in Nat, \A i \in 1 .. n + 1 : cell.cost[i] \in Nat
  PROVE  /\ \A j \in 0 .. n : CostTo(cell, j) \in Nat
         /\ CostTo(cell, 0) = cell.cost[1]
         /\ \A j \in 0 .. n : \A i \in 0 .. j : CostTo(cell, i) <= CostTo(cell, j)
  <1> DEFINE f == cell.cost
             Sums(p, m) == p = [i \in 0 .. m |-> IF i = 0 THEN 0 ELSE p[i - 1] + f[i]]
  <1>1. PICK p : Sums(p, n + 1)
    <2>1. n + 1 \in Nat
      OBVIOUS
    <2> HIDE DEF f
    <2>2. \E p : p = [i \in 0 .. n + 1 |-> IF i = 0 THEN 0 ELSE p[i - 1] + f[i]]
      BY <2>1, RunningSum
    <2>3. QED BY <2>2
  <1> HIDE DEF f
  <1>2. /\ p[0] = 0
        /\ \A i \in 1 .. n + 1 : p[i] = p[i - 1] + f[i] /\ f[i] \in Nat
    <2>1. \A i \in 1 .. n + 1 : f[i] \in Nat
      BY DEF f
    <2>2. \A i \in 0 .. n + 1 : p[i] = IF i = 0 THEN 0 ELSE p[i - 1] + f[i]
      BY <1>1
    <2>3. 0 \in 0 .. n + 1 /\ \A i \in 1 .. n + 1 : i \in 0 .. n + 1 /\ i # 0
      OBVIOUS
    <2>4. QED BY <2>1, <2>2, <2>3
  <1>3. \A i \in 0 .. n + 1 : p[i] \in Nat
    <2> DEFINE T == {i \in 0 .. n + 1 : p[i] \in Nat}
    <2>1. 0 \in T /\ T \in SUBSET (0 .. n + 1) /\ n + 1 \in Nat
      BY <1>2
    <2>2. ASSUME NEW i \in 1 .. n + 1, i - 1 \in T PROVE i \in T
      BY <1>2, <2>2
    <2> HIDE DEF T
    <2>3. T = 0 .. n + 1
      BY <2>1, <2>2, UpTo
    <2>4. QED BY <2>3 DEF T
  <1>4. ASSUME NEW j \in 0 .. n PROVE CostTo(cell, j) = p[j + 1]
    <2> DEFINE q == [i \in 0 .. j + 1 |-> p[i]]
               m == j + 1
    <2>1. m \in Nat /\ 1 + m - 1 = m /\ m <= n + 1
      OBVIOUS
    <2>2. ASSUME NEW i \in 0 .. m PROVE q[i] = IF i = 0 THEN 0 ELSE q[i - 1] + f[1 + i - 1]
      <3>1. CASE i = 0
        BY <1>2, <3>1
      <3>2. CASE i # 0
        <4>1. i \in 1 .. n + 1 /\ i - 1 \in 0 .. m /\ 1 + i - 1 = i
          BY <2>1, <3>2
        <4>2. QED BY <1>2, <3>2, <4>1
      <3>3. QED BY <3>1, <3>2
    <2>3. \A i \in 1 .. m : f[i] \in Int
      BY <1>2, <2>1
    <2> HIDE DEF m
    <2>4. q = [i \in 0 .. m |-> IF i = 0 THEN 0 ELSE q[i - 1] + f[1 + i - 1]]
      <3>1. q = [i \in 0 .. m |-> q[i]]
        BY DEF m
      <3> HIDE DEF q
      <3>2. QED BY <2>2, <3>1
    <2>5. q[m] = p[m]
      BY <2>1 DEF m
    <2> HIDE DEF q
    <2>6. AddsInOrder(q, f, 1, m)
      BY <2>1, <2>3, <2>4 DEF AddsInOrder
    <2>7. SumFunctionOnSet(f, 1 .. 1 + m - 1) = q[m]
      BY <2>1, <2>6, SumInOrder
    <2>8. CostTo(cell, j) = SumFunctionOnSet(f, 1 .. m)
      BY DEF CostTo, f, m
    <2>9. QED BY <2>1, <2>5, <2>7, <2>8 DEF m
  <1>5. CostTo(cell, 0) = cell.cost[1]
    <2>1. 0 \in 0 .. n /\ 1 \in 1 .. n + 1 /\ 1 - 1 = 0
      OBVIOUS
    <2>2. CostTo(cell, 0) = p[1] /\ p[1] = p[0] + f[1] /\ f[1] \in Nat
      BY <1>2, <1>4, <2>1
    <2>3. QED BY <1>2, <2>2 DEF f
  <1>6. ASSUME NEW j \in 0 .. n, NEW i \in 0 .. j PROVE CostTo(cell, i) <= CostTo(cell, j)
    <2> DEFINE T == {k \in 0 .. j : i <= k => CostTo(cell, i) <= CostTo(cell, k)}
    <2>1. 0 \in T
      <3>1. CostTo(cell, 0) \in Nat
        BY <1>3, <1>4
      <3>2. i <= 0 => i = 0
        OBVIOUS
      <3>3. QED BY <3>1, <3>2
    <2>2. ASSUME NEW k \in 1 .. j, k - 1 \in T PROVE k \in T
      <3>1. /\ k - 1 \in 0 .. n /\ k \in 0 .. n /\ i \in 0 .. n
            /\ k + 1 \in 1 .. n + 1 /\ (k - 1) + 1 = (k + 1) - 1
        OBVIOUS
      <3>2. /\ CostTo(cell, k) = p[k + 1] /\ CostTo(cell, k - 1) = p[(k + 1) - 1]
            /\ p[k + 1] = p[(k + 1) - 1] + f[k + 1] /\ f[k + 1] \in Nat
            /\ CostTo(cell, k) \in Nat /\ CostTo(cell, k - 1) \in Nat /\ CostTo(cell, i) \in Nat
        <4>1. /\ CostTo(cell, k) = p[k + 1] /\ CostTo(cell, k - 1) = p[(k - 1) + 1]
              /\ CostTo(cell, i) = p[i + 1]
          BY <1>4, <3>1
        <4>2. p[k + 1] = p[(k + 1) - 1] + f[k + 1] /\ f[k + 1] \in Nat
          BY <1>2, <3>1
        <4>3. k + 1 \in 0 .. n + 1 /\ (k - 1) + 1 \in 0 .. n + 1 /\ i + 1 \in 0 .. n + 1
          OBVIOUS
        <4>4. QED BY <1>3, <3>1, <4>1, <4>2, <4>3
      <3>3. i <= k - 1 => CostTo(cell, i) <= CostTo(cell, k - 1)
        BY <2>2
      <3>4. CASE i <= k - 1
        BY <3>2, <3>3, <3>4
      <3>5. CASE i = k
        BY <3>2, <3>5
      <3>6. CASE i > k
        BY <3>6
      <3>7. QED BY <3>4, <3>5, <3>6
    <2>3. T \in SUBSET (0 .. j) /\ j \in Nat
      OBVIOUS
    <2> HIDE DEF T
    <2>4. T = 0 .. j
      BY <2>1, <2>2, <2>3, UpTo
    <2>5. j \in T
      BY <2>3, <2>4
    <2>6. QED BY <2>5 DEF T
  <1>7. \A j \in 0 .. n : CostTo(cell, j) \in Nat
    <2>1. \A j \in 0 .. n : j + 1 \in 0 .. n + 1
      OBVIOUS
    <2>2. QED BY <1>3, <1>4, <2>1
  <1>8. QED BY <1>5, <1>6, <1>7

-----------------------------------------------------------------------------
(* The bit stream *)

(* Nothing but the fields of G differs.                                    *)
Apart(d, e, G) == DOMAIN d = Fields /\ \A f \in Fields \ G : d[f] = e[f]

LEMMA ApartTwice ==
  ASSUME NEW c, NEW d, NEW e, NEW G, NEW H, Apart(d, e, G), Apart(c, d, H)
  PROVE  Apart(c, e, G \cup H)
  BY DEF Apart

LEMMA AdvanceApart ==
  ASSUME NEW e, DOMAIN e = Fields, NEW n
  PROVE  Apart(Advance(e, n), e, {"pos", "budget"})
  BY DEF Advance, Apart, Fields

LEMMA FeedApart ==
  ASSUME NEW e, DOMAIN e = Fields, NEW n
  PROVE  /\ Apart(Feed(e, n), e, {"pos", "budget", "fed"})
         /\ Feed(e, n).pos = Advance(e, n).pos
         /\ Feed(e, n).budget = Advance(e, n).budget
         /\ Feed(e, n).fed = Advance(e, n).fed \o Bytes(e, n)
  <1> DEFINE d == Advance(e, n)
  <1>1. Apart(d, e, {"pos", "budget"}) /\ DOMAIN d = Fields
    BY AdvanceApart DEF Apart
  <1> HIDE DEF d
  <1>2. Feed(e, n) = [d EXCEPT !.fed = @ \o Bytes(e, n)]
    BY DEF Feed, d
  <1>3. Apart(Feed(e, n), e, {"pos", "budget", "fed"})
    BY <1>1, <1>2 DEF Apart
  <1>4. {"pos", "budget", "fed"} \subseteq Fields
    BY DEF Fields
  <1>5. QED BY <1>1, <1>2, <1>3, <1>4 DEF d

LEMMA SkipApart ==
  ASSUME NEW e, DOMAIN e = Fields, NEW start, NEW len
  PROVE  Apart(PayloadSkipped(e, start, len), e, {"pos", "budget"})
  <1> DEFINE d == [e EXCEPT !.budget = -1]
  <1>1. DOMAIN d = Fields /\ \A f \in Fields \ {"pos", "budget"} : d[f] = e[f]
    OBVIOUS
  <1> HIDE DEF d
  <1>2. Apart(Advance(d, Max({start + len - e.pos, 0})), d, {"pos", "budget"})
    BY <1>1, AdvanceApart
  <1>3. QED BY <1>1, <1>2 DEF PayloadSkipped, Apart, d

(* What an advance without a budget, and with one, comes to.               *)
LEMMA AdvanceFree ==
  ASSUME stream \in Streams, NEW e, DOMAIN e = Fields, e.budget = -1,
         e.pos \in 0 .. Len(stream.cells), NEW n \in Nat
  PROVE  /\ Advance(e, n).budget = -1
         /\ Advance(e, n).pos \in e.pos .. Len(stream.cells)
         /\ e.pos + n <= Len(stream.cells) => Advance(e, n).pos = e.pos + n
  <1> DEFINE len == Len(stream.cells)
  <1>1. len \in Nat /\ e.pos \in Nat /\ e.pos + n \in Int
    BY StreamFacts
  <1>2. "pos" \in Fields /\ "budget" \in Fields
    BY DEF Fields
  <1>3. Advance(e, n).budget = -1 /\ Advance(e, n).pos = Min({e.pos + n, len})
    BY <1>2 DEF Advance
  <1>4. Min({e.pos + n, len}) = IF e.pos + n < len THEN e.pos + n ELSE len
    <2> HIDE DEF len
    <2>1. QED BY <1>1, MinOfTwo
  <1> HIDE DEF len
  <1>5. Advance(e, n).pos \in e.pos .. len
        /\ (e.pos + n <= len => Advance(e, n).pos = e.pos + n)
    <2>1. e.pos <= len
      BY DEF len
    <2>2. QED BY <1>1, <1>3, <1>4, <2>1
  <1>6. QED BY <1>3, <1>5 DEF len

LEMMA AdvanceHeld ==
  ASSUME stream \in Streams, NEW e, DOMAIN e = Fields, e.budget \in Nat, e.pos \in Nat,
         e.pos + e.budget <= Len(stream.cells), NEW n \in Nat
  PROVE  LET asked == IF n < e.budget THEN n ELSE e.budget
         IN Advance(e, n).pos = e.pos + asked /\ Advance(e, n).budget = e.budget - asked
  <1> DEFINE len == Len(stream.cells)
             asked == IF n < e.budget THEN n ELSE e.budget
  <1>1. len \in Nat
    BY StreamFacts
  <1>2. "pos" \in Fields /\ "budget" \in Fields /\ ~(e.budget < 0)
    BY DEF Fields
  <1>3. Min({n, e.budget}) = asked /\ asked \in Nat /\ e.pos + asked <= len /\ e.pos + asked \in Int
    BY MinOfTwo
  <1> HIDE DEF asked
  <1>4. Min({e.pos + asked, len}) = e.pos + asked
    <2> DEFINE x == e.pos + asked
    <2>1. x \in Int /\ len \in Int /\ x <= len
      BY <1>1, <1>3
    <2> HIDE DEF len, x
    <2>2. Min({x, len}) = IF x < len THEN x ELSE len
      BY <2>1, MinOfTwo
    <2>3. Min({x, len}) = x
      BY <2>1, <2>2
    <2>4. QED BY <2>3 DEF x
  <1>5. Advance(e, n).budget = e.budget - asked
    BY <1>2, <1>3 DEF Advance
  <1>6. Advance(e, n).pos = e.pos + asked
    BY <1>2, <1>3, <1>4 DEF Advance
  <1>7. QED BY <1>5, <1>6 DEF asked

(* Skipping to the end of a payload from anywhere inside.                  *)
LEMMA Skipped ==
  ASSUME stream \in Streams, NEW e, DOMAIN e = Fields, NEW start \in Nat, NEW len \in Nat,
         e.pos \in start .. start + len, start + len <= Len(stream.cells)
  PROVE  /\ PayloadSkipped(e, start, len).budget = -1
         /\ PayloadSkipped(e, start, len).pos = start + len
  <1> DEFINE d == [e EXCEPT !.budget = -1]
             n == start + len - e.pos
  <1>1. DOMAIN d = Fields /\ d.budget = -1 /\ d.pos = e.pos
    BY DEF Fields
  <1>2. n \in Nat /\ Max({n, 0}) = n
    <2>1. n \in Nat
      OBVIOUS
    <2> HIDE DEF n
    <2>2. Max({n, 0}) = IF n < 0 THEN 0 ELSE n
      BY <2>1, MaxOfTwo
    <2>3. QED BY <2>1, <2>2
  <1>3. d.pos \in 0 .. Len(stream.cells) /\ d.pos + n = start + len
    <2>1. Len(stream.cells) \in Nat
      BY StreamFacts
    <2>2. QED BY <1>1, <2>1
  <1>4. PayloadSkipped(e, start, len) = Advance(d, Max({n, 0}))
    BY DEF PayloadSkipped
  <1> HIDE DEF d, n
  <1>5. Advance(d, n).budget = -1
        /\ (d.pos + n <= Len(stream.cells) => Advance(d, n).pos = d.pos + n)
    BY <1>1, <1>2, <1>3, AdvanceFree
  <1>6. QED BY <1>2, <1>3, <1>4, <1>5

-----------------------------------------------------------------------------
(* Payloads *)

LEMMA PassedFacts ==
  ASSUME NEW cell, cell.payload \in Nat, NEW t \in Nat, NEW n \in Nat
  PROVE  LET left == cell.payload - Passed(cell, t)
         IN /\ Passed(cell, t) \in 0 .. cell.payload
            /\ Passed(cell, t + n) = Passed(cell, t) + IF n < left THEN n ELSE left
            /\ \A i \in Nat : i > 0 => (i <= left <=> t + i <= cell.payload)
            /\ left > 0 => Passed(cell, t) = t
  BY DEF Passed

(* A coder inside a payload that takes n more bytes.                       *)
LEMMA FeedInPayload ==
  ASSUME stream \in Streams, NEW p \in Nat, NEW m, PayloadFollows(stream, p, m),
         NEW e, DOMAIN e = Fields, NEW t \in Nat, Feeding(stream, e, p, t), NEW n \in Nat
  PROVE  Feeding(stream, Feed(e, n), p, t + n)
  <1> DEFINE cell == Cell(stream, p)
             len == cell.payload
             got == Passed(cell, t)
             left == len - got
             d == Feed(e, n)
  <1>1. /\ len \in Nat /\ p + len <= Len(stream.cells)
        /\ \A i \in 1 .. len : stream.cells[p + i] = [kind |-> "DATA", block |-> cell.id, index |-> i]
    BY DEF PayloadFollows
  <1>2. e.pos = p + got /\ e.budget = left /\ e.fed = Payload(cell, t)
    BY DEF Feeding
  <1>3. /\ got \in 0 .. len /\ Passed(cell, t + n) = got + IF n < left THEN n ELSE left
        /\ \A i \in Nat : i > 0 => (i <= left <=> t + i <= len)
        /\ left > 0 => got = t
    <2> HIDE DEF cell
    <2>1. QED BY <1>1, PassedFacts
  <1> HIDE DEF got
  <1>4. /\ e.pos \in Nat /\ e.budget \in Nat /\ e.pos + e.budget <= Len(stream.cells)
        /\ left \in Nat /\ left = len - got
    <2>1. /\ Len(stream.cells) \in Nat /\ len \in Nat /\ p + len <= Len(stream.cells)
          /\ got \in 0 .. len /\ left = len - got /\ e.pos = p + got /\ e.budget = left
      BY <1>1, <1>2, <1>3, StreamFacts
    <2> HIDE DEF cell, len, left
    <2>2. QED BY <2>1
  <1>5. /\ d.pos = e.pos + (IF n < left THEN n ELSE left)
        /\ d.budget = e.budget - (IF n < left THEN n ELSE left)
    <2>1. d.pos = Advance(e, n).pos /\ d.budget = Advance(e, n).budget
      BY FeedApart
    <2> HIDE DEF d, left
    <2>2. QED BY <1>2, <1>4, <2>1, AdvanceHeld
  <1>6. d.pos = p + Passed(cell, t + n) /\ d.budget = len - Passed(cell, t + n)
    <2> DEFINE x == IF n < left THEN n ELSE left
               g == Passed(cell, t + n)
    <2>1. /\ d.pos = e.pos + x /\ d.budget = e.budget - x /\ x \in Nat
          /\ e.pos = p + got /\ e.budget = left /\ left = len - got /\ g = got + x
          /\ got \in Nat /\ len \in Nat /\ left \in Nat
      BY <1>1, <1>2, <1>3, <1>4, <1>5
    <2> HIDE DEF d, cell, len, left, x, g
    <2>2. d.pos = p + g /\ d.budget = len - g
      BY <2>1
    <2>3. QED BY <2>2 DEF g
  <1>7. d.fed = Payload(cell, t + n)
    <2> DEFINE S == {Zero} \cup {[kind |-> "DATA", block |-> cell.id, index |-> i] : i \in Nat}
               a == Payload(cell, t)
               b == Bytes(e, n)
               c == Payload(cell, t + n)
    <2>1. d.fed = a \o b
      <3>1. d.fed = Advance(e, n).fed \o b
        BY FeedApart
      <3>2. Advance(e, n).fed = e.fed
        BY AdvanceApart DEF Apart, Fields
      <3>3. QED BY <1>2, <3>1, <3>2
    <2>2. ASSUME NEW k \in Nat
          PROVE  /\ Payload(cell, k) \in Seq(S) /\ Len(Payload(cell, k)) = k
                 /\ \A i \in 1 .. k : Payload(cell, k)[i] =
                      IF i <= len THEN [kind |-> "DATA", block |-> cell.id, index |-> i] ELSE Zero
      BY DEF Payload
    <2>3. ASSUME NEW i \in 1 .. n
          PROVE  b[i] = IF t + i <= len
                        THEN [kind |-> "DATA", block |-> cell.id, index |-> t + i] ELSE Zero
      <3>1. b[i] = IF i <= left THEN CellAt(e.pos + i) ELSE Zero
        BY <1>2, <1>4 DEF Bytes
      <3>2. i \in Nat /\ i > 0 /\ (i <= left <=> t + i <= len)
        BY <1>3
      <3>3. CASE i <= left
        <4>1. got = t /\ t + i \in 1 .. len /\ e.pos + i = p + (t + i)
          <5> HIDE DEF cell
          <5>1. QED BY <1>1, <1>2, <1>3, <3>2, <3>3, SMTT(30)
        <4>2. e.pos + i \in DOMAIN stream.cells
          <5>1. DOMAIN stream.cells = 1 .. Len(stream.cells)
            BY StreamFacts
          <5> HIDE DEF cell
          <5>2. QED BY <1>1, <4>1, <5>1
        <4>3. CellAt(e.pos + i) = stream.cells[p + (t + i)]
          BY <4>1, <4>2, CellFacts DEF CellAt
        <4>4. stream.cells[p + (t + i)] = [kind |-> "DATA", block |-> cell.id, index |-> t + i]
          BY <1>1, <4>1
        <4>5. QED BY <3>1, <3>2, <3>3, <4>3, <4>4
      <3>4. CASE ~(i <= left)
        BY <3>1, <3>2, <3>4
      <3>5. QED BY <3>3, <3>4
    <2>4. b \in Seq(S) /\ Len(b) = n
      <3>1. b = [i \in 1 .. n |-> b[i]]
        BY DEF Bytes
      <3>2. ASSUME NEW i \in 1 .. n PROVE b[i] \in S
        <4>1. t + i \in Nat
          OBVIOUS
        <4>2. [kind |-> "DATA", block |-> cell.id, index |-> t + i] \in S /\ Zero \in S
          BY <4>1
        <4> HIDE DEF b, S
        <4>3. QED BY <2>3, <4>2
      <3> HIDE DEF b, S
      <3>3. QED BY <3>1, <3>2
    <2>5. /\ Len(c) = Len(a) + Len(b) /\ t + n \in Nat
          /\ \A i \in 1 .. Len(a) : c[i] = a[i]
          /\ \A i \in 1 .. Len(b) : c[Len(a) + i] = b[i]
      <3>1. Len(a) = t /\ Len(b) = n /\ t + n \in Nat /\ Len(c) = t + n
        BY <2>2, <2>4
      <3>2. \A i \in 1 .. t : i \in 1 .. t + n
        OBVIOUS
      <3>3. \A i \in 1 .. n : t + i \in 1 .. t + n
        OBVIOUS
      <3>4. \A i \in 1 .. t : c[i] = a[i]
        BY <2>2, <3>1, <3>2
      <3>5. ASSUME NEW i \in 1 .. n PROVE c[t + i] = b[i]
        <4>1. t + i \in 1 .. t + n /\ t + n \in Nat
          BY <3>1, <3>3
        <4>2. c[t + i] = IF t + i <= len
                         THEN [kind |-> "DATA", block |-> cell.id, index |-> t + i] ELSE Zero
          BY <2>2, <4>1
        <4> HIDE DEF b, c
        <4>3. QED BY <2>3, <4>2
      <3>6. QED BY <3>1, <3>4, <3>5
    <2>6. a \in Seq(S) /\ c \in Seq(S)
      BY <2>2, <2>5
    <2> HIDE DEF a, b, c, S
    <2>7. a \o b = c
      BY <2>4, <2>5, <2>6, Joined
    <2>8. QED BY <2>1, <2>7 DEF c
  <1>8. QED BY <1>6, <1>7 DEF Feeding

-----------------------------------------------------------------------------
(* An iteration of read() on any file *)

(* BlockOpened() up to where the coder takes its first bytes.              *)
HeaderRead(e) ==
  [Advance(e, 1) EXCEPT !.block = CellAt(e.pos + 1), !.block_pos = 0,
                        !.payload_start = e.pos + 1,
                        !.budget = CellAt(e.pos + 1).payload,
                        !.fed = <<>>,
                        !.live = @ \cup CellAt(e.pos + 1).stages,
                        !.need_new_block = FALSE]

LEMMA HeaderReadFacts ==
  ASSUME NEW e, DOMAIN e = Fields
  PROVE  LET d == HeaderRead(e) block == CellAt(e.pos + 1)
         IN /\ BlockOpened(e) = Feed(d, block.cost[1])
            /\ Apart(d, e, {"block", "block_pos", "payload_start", "budget", "pos", "fed", "live",
                            "need_new_block"})
            /\ d.block = block /\ d.block_pos = 0 /\ d.payload_start = e.pos + 1
            /\ d.budget = block.payload /\ d.fed = <<>> /\ d.live = e.live \cup block.stages
            /\ d.need_new_block = FALSE /\ d.pos = Advance(e, 1).pos
  <1> DEFINE a == Advance(e, 1)
  <1>1. Apart(a, e, {"pos", "budget"})
    BY AdvanceApart
  <1>2. BlockOpened(e) = Feed(HeaderRead(e), CellAt(e.pos + 1).cost[1])
    BY DEF BlockOpened, BlockBudget, HeaderRead
  <1> HIDE DEF a
  <1>3. HeaderRead(e) = [a EXCEPT !.block = CellAt(e.pos + 1), !.block_pos = 0,
                                  !.payload_start = e.pos + 1,
                                  !.budget = CellAt(e.pos + 1).payload,
                                  !.fed = <<>>,
                                  !.live = @ \cup CellAt(e.pos + 1).stages,
                                  !.need_new_block = FALSE]
    BY DEF HeaderRead, a
  <1>4. DOMAIN a = Fields /\ \A f \in Fields \ {"pos", "budget"} : a[f] = e[f]
    BY <1>1 DEF Apart
  <1>5. "live" \in Fields \ {"pos", "budget"} /\ a.live = e.live
    BY <1>4 DEF Fields
  <1>6. QED BY <1>2, <1>3, <1>4, <1>5 DEF Apart, Fields, a

(* The block of a header is one of the file.                               *)
LEMMA OpenedTyped ==
  ASSUME stream \in Streams, NEW e, EngineTyped(stream, e), CellAt(e.pos + 1).kind = "COMP"
  PROVE  LET d == BlockOpened(e)
         IN /\ Apart(d, e, {"block", "block_pos", "payload_start", "budget", "pos", "fed", "live",
                            "need_new_block"})
            /\ d.block = CellAt(e.pos + 1) /\ d.block_pos = 0 /\ d.need_new_block = FALSE
            /\ d.live = e.live \cup d.block.stages /\ d.payload_start = e.pos + 1
            /\ d.block.values \in Nat /\ d.block.first \in Nat /\ Size(stream, d.block) \in Nat
  <1> DEFINE h == HeaderRead(e) d == BlockOpened(e) block == CellAt(e.pos + 1)
             G == {"block", "block_pos", "payload_start", "budget", "pos", "fed", "live",
                   "need_new_block"}
  <1>1. DOMAIN e = Fields
    BY DEF EngineTyped
  <1>2. /\ d = Feed(h, block.cost[1]) /\ Apart(h, e, G)
        /\ h.block = block /\ h.block_pos = 0 /\ h.need_new_block = FALSE
        /\ h.live = e.live \cup block.stages /\ h.payload_start = e.pos + 1
    BY <1>1, HeaderReadFacts
  <1>3. block.values \in Nat /\ block.first \in Nat /\ Size(stream, block) \in Nat
    <2>1. IsBlock(stream, e.pos + 1) /\ block = Cell(stream, e.pos + 1)
      BY DEF IsBlock, CellAt
    <2> HIDE DEF block
    <2>2. QED BY <2>1, BlockFacts
  <1> HIDE DEF h, d, block
  <1>4. Apart(d, h, {"pos", "budget", "fed"})
    BY <1>2, FeedApart DEF Apart
  <1>5. Apart(d, e, G)
    BY <1>2, <1>4 DEF Apart
  <1>6. /\ d.block = h.block /\ d.block_pos = h.block_pos /\ d.live = h.live
        /\ d.need_new_block = h.need_new_block /\ d.payload_start = h.payload_start
    BY <1>4 DEF Apart, Fields
  <1>7. QED BY <1>2, <1>3, <1>5, <1>6 DEF d, block

LEMMA DecodedTyped ==
  ASSUME stream \in Streams, NEW e, DOMAIN e = Fields, e.block.first \in Nat,
         Size(stream, e.block) \in Nat
  PROVE  LET d == BlockDecoded(e)
         IN /\ Apart(d, e, {"pos", "budget", "fed", "ready"})
            /\ d.ready \in [1 .. Size(stream, e.block) -> Int]
  <1> DEFINE size == BlockSize(e.block)
             f == Feed(e, CostTo(e.block, size) - e.block.cost[1])
             k == PayloadSkipped(f, e.payload_start, e.block.payload)
             r == [j \in 1 .. size |-> FrameOf(f, j)]
             d == BlockDecoded(e)
  <1>1. size = Size(stream, e.block) /\ size \in Nat
    BY DEF BlockSize, Size
  <1>2. Apart(f, e, {"pos", "budget", "fed"}) /\ DOMAIN f = Fields
    BY FeedApart DEF Apart
  <1>3. d = [k EXCEPT !.ready = r]
    BY DEF BlockDecoded
  <1> HIDE DEF f
  <1>4. Apart(k, f, {"pos", "budget"})
    BY <1>2, SkipApart
  <1>5. f.block = e.block
    BY <1>2 DEF Apart, Fields
  <1>6. \A j \in 1 .. size : FrameOf(f, j) \in Int
    BY <1>1, <1>5 DEF FrameOf, Noise
  <1>7. r \in [1 .. size -> Int]
    <2> HIDE DEF size
    <2>1. QED BY <1>6
  <1> HIDE DEF k, r, d, size
  <1>8. d.ready = r /\ Apart(d, e, {"pos", "budget", "fed", "ready"})
    BY <1>2, <1>3, <1>4 DEF Apart, Fields
  <1>9. QED BY <1>1, <1>7, <1>8 DEF d

LEMMA ReconstructedTyped ==
  ASSUME stream \in Streams, NEW e, DOMAIN e = Fields, e.errors \in BOOLEAN,
         Size(stream, e.block) \in Nat, e.ready \in [1 .. Size(stream, e.block) -> Int]
  PROVE  LET d == FloatsReconstructed(e)
         IN /\ Apart(d, e, {"pos", "budget", "fed", "ready", "errors"})
            /\ d.ready \in [1 .. Size(stream, e.block) -> Int]
            /\ d.errors \in BOOLEAN
  <1> DEFINE deta == CellAt(e.pos + 1)
             size == BlockSize(e.block)
             a == Advance(e, 1)
             at == [a EXCEPT !.budget = deta.payload, !.fed = <<>>]
             f == Feed(at, CostTo(deta, size))
             k == PayloadSkipped(f, at.pos, deta.payload)
             r == [j \in 1 .. size |->
                     IF FedRight(f.fed, deta, CostTo(deta, j)) THEN e.ready[j] ELSE Noise]
             none == [j \in 1 .. size |-> Noise]
             d == FloatsReconstructed(e)
  <1>1. size = Size(stream, e.block) /\ size \in Nat
    BY DEF BlockSize, Size
  <1>2. Apart(a, e, {"pos", "budget"})
    BY AdvanceApart
  <1>3. d = IF deta.kind # "DETA" THEN [a EXCEPT !.errors = TRUE, !.ready = none]
            ELSE [k EXCEPT !.ready = r]
    BY DEF FloatsReconstructed
  <1>4. none \in [1 .. size -> Int] /\ r \in [1 .. size -> Int]
    <2>1. e.ready \in [1 .. size -> Int]
      BY <1>1
    <2> HIDE DEF size, deta, f
    <2>2. none \in [1 .. size -> Int]
      BY DEF Noise
    <2>3. ASSUME NEW j \in 1 .. size
          PROVE  (IF FedRight(f.fed, deta, CostTo(deta, j)) THEN e.ready[j] ELSE Noise) \in Int
      <3>1. e.ready[j] \in Int /\ Noise \in Int
        BY <1>1, <2>1 DEF Noise
      <3>2. QED BY <3>1
    <2>4. QED BY <2>2, <2>3
  <1> HIDE DEF a
  <1>5. DOMAIN at = Fields /\ \A x \in Fields \ {"pos", "budget", "fed"} : at[x] = e[x]
    BY <1>2 DEF Apart
  <1> HIDE DEF at
  <1>6. Apart(f, at, {"pos", "budget", "fed"}) /\ DOMAIN f = Fields
    BY <1>5, FeedApart DEF Apart
  <1> HIDE DEF f
  <1>7. Apart(k, f, {"pos", "budget"})
    BY <1>6, SkipApart
  <1> HIDE DEF k, r, d, size, none, deta
  <1>8. CASE deta.kind # "DETA"
    <2>1. d = [a EXCEPT !.errors = TRUE, !.ready = none]
      BY <1>3, <1>8
    <2>2. QED BY <1>1, <1>2, <1>4, <2>1 DEF Apart, Fields, d
  <1>9. CASE deta.kind = "DETA"
    <2>1. d = [k EXCEPT !.ready = r]
      BY <1>3, <1>9
    <2>2. Apart(d, e, {"pos", "budget", "fed", "ready", "errors"}) /\ d.ready = r
      BY <1>5, <1>6, <1>7, <2>1 DEF Apart, Fields
    <2>3. d.errors = e.errors
      BY <1>5, <1>6, <1>7, <2>1 DEF Apart, Fields
    <2>4. QED BY <1>1, <1>4, <2>2, <2>3 DEF d
  <1>10. QED BY <1>8, <1>9

(* What an iteration can begin with: a block, or none where one was due.   *)
Begun(e, at) ==
  /\ at.missing \in BOOLEAN
  /\ at.missing => /\ e.need_new_block /\ CellAt(e.pos + 1).kind # "COMP"
                   /\ at.eng = MissingBlock(e)
  /\ ~at.missing =>
       /\ DOMAIN at.eng = Fields /\ InBlock(stream, at.eng)
       /\ at.eng.need_new_block = FALSE /\ at.eng.errors \in BOOLEAN
       /\ at.eng.samples_read = e.samples_read
       /\ at.eng.comp_start = e.comp_start /\ at.eng.tail = e.tail

LEMMA NewBlockTyped ==
  ASSUME stream \in Streams, NEW e, EngineTyped(stream, e), CellAt(e.pos + 1).kind = "COMP",
         NEW d \in NewBlock(e)
  PROVE  /\ DOMAIN d = Fields /\ InBlock(stream, d)
         /\ d.need_new_block = FALSE /\ d.errors \in BOOLEAN
         /\ d.samples_read = e.samples_read
         /\ d.comp_start = e.comp_start /\ d.tail = e.tail
  <1> DEFINE b == BlockOpened(e)
  <1>1. /\ Apart(b, e, {"block", "block_pos", "payload_start", "budget", "pos", "fed", "live",
                        "need_new_block"})
        /\ b.block_pos = 0 /\ b.need_new_block = FALSE
        /\ b.block.values \in Nat /\ b.block.first \in Nat /\ Size(stream, b.block) \in Nat
    BY OpenedTyped
  <1>2. e.samples_read \in Nat /\ e.errors \in BOOLEAN
    BY DEF EngineTyped
  <1> HIDE DEF b
  <1>3. /\ DOMAIN b = Fields /\ b.errors = e.errors /\ b.samples_read = e.samples_read
        /\ b.comp_start = e.comp_start /\ b.tail = e.tail
    BY <1>1 DEF Apart, Fields
  <1>4. CASE ~stream.float
    <2>1. d = b
      BY <1>4 DEF NewBlock, b
    <2>2. QED BY <1>1, <1>2, <1>3, <1>4, <2>1 DEF InBlock
  <1>5. CASE stream.float
    <2> DEFINE k == BlockDecoded(b)
    <2>1. d = FloatsReconstructed(k)
      BY <1>5 DEF NewBlock, b
    <2>2. /\ Apart(k, b, {"pos", "budget", "fed", "ready"})
          /\ k.ready \in [1 .. Size(stream, b.block) -> Int]
      BY <1>1, <1>3, DecodedTyped
    <2> HIDE DEF k
    <2>3. /\ DOMAIN k = Fields /\ k.errors = e.errors /\ k.samples_read = e.samples_read
          /\ k.comp_start = e.comp_start /\ k.tail = e.tail
          /\ k.block = b.block /\ k.block_pos = 0 /\ k.need_new_block = FALSE
      BY <1>1, <1>3, <2>2 DEF Apart, Fields
    <2>4. /\ Apart(d, k, {"pos", "budget", "fed", "ready", "errors"})
          /\ d.ready \in [1 .. Size(stream, b.block) -> Int] /\ d.errors \in BOOLEAN
      <3>1. /\ k.errors \in BOOLEAN /\ Size(stream, k.block) \in Nat
            /\ k.ready \in [1 .. Size(stream, k.block) -> Int]
        BY <1>1, <1>2, <2>2, <2>3
      <3>2. /\ Apart(FloatsReconstructed(k), k, {"pos", "budget", "fed", "ready", "errors"})
            /\ FloatsReconstructed(k).ready \in [1 .. Size(stream, k.block) -> Int]
            /\ FloatsReconstructed(k).errors \in BOOLEAN
        BY <2>3, <3>1, ReconstructedTyped
      <3>3. QED BY <2>1, <2>3, <3>2
    <2>5. /\ DOMAIN d = Fields /\ d.samples_read = e.samples_read
          /\ d.comp_start = e.comp_start /\ d.tail = e.tail
          /\ d.block = b.block /\ d.block_pos = 0 /\ d.need_new_block = FALSE
      BY <2>3, <2>4 DEF Apart, Fields
    <2>6. QED BY <1>1, <2>4, <2>5 DEF InBlock
  <1>6. QED BY <1>4, <1>5

LEMMA EnteredTyped ==
  ASSUME stream \in Streams, NEW e, EngineTyped(stream, e), NEW at \in Entered(e)
  PROVE  Begun(e, at)
  <1>1. CASE ~e.need_new_block
    <2>1. at.missing = FALSE /\ at.eng = e
      BY <1>1 DEF Entered
    <2>2. e.need_new_block = FALSE
      BY <1>1 DEF EngineTyped
    <2>3. QED BY <1>1, <2>1, <2>2 DEF EngineTyped, Begun
  <1>2. CASE e.need_new_block /\ CellAt(e.pos + 1).kind # "COMP"
    <2>1. at.missing = TRUE /\ at.eng = MissingBlock(e)
      BY <1>2 DEF Entered
    <2>2. QED BY <1>2, <2>1 DEF Begun
  <1>3. CASE e.need_new_block /\ CellAt(e.pos + 1).kind = "COMP"
    <2>1. PICK d \in NewBlock(e) : at = [eng |-> d, missing |-> FALSE]
      BY <1>3 DEF Entered
    <2>2. at.missing = FALSE /\ at.eng = d
      BY <2>1
    <2>3. /\ DOMAIN d = Fields /\ InBlock(stream, d)
          /\ d.need_new_block = FALSE /\ d.errors \in BOOLEAN
          /\ d.samples_read = e.samples_read
          /\ d.comp_start = e.comp_start /\ d.tail = e.tail
      BY <1>3, NewBlockTyped
    <2>4. QED BY <2>2, <2>3 DEF Begun
  <1>4. QED BY <1>1, <1>2, <1>3

(* Where a block is missing nothing changes but the place and the mark.    *)
LEMMA MissingTyped ==
  ASSUME stream \in Streams, NEW e, EngineTyped(stream, e), e.need_new_block
  PROVE  LET d == MissingBlock(e)
         IN /\ EngineTyped(stream, d) /\ d.errors = TRUE /\ d.pos = Advance(e, 1).pos
            /\ Apart(d, e, {"pos", "budget", "errors"})
            /\ d.budget = Advance(e, 1).budget
  <1> DEFINE a == Advance(e, 1) d == MissingBlock(e)
  <1>1. DOMAIN e = Fields
    BY DEF EngineTyped
  <1>2. Apart(a, e, {"pos", "budget"})
    BY <1>1, AdvanceApart
  <1>3. d = [a EXCEPT !.errors = TRUE]
    BY DEF MissingBlock
  <1> HIDE DEF a, d
  <1>4. /\ Apart(d, e, {"pos", "budget", "errors"}) /\ d.errors = TRUE
        /\ d.pos = a.pos /\ d.budget = a.budget
    BY <1>2, <1>3 DEF Apart, Fields
  <1>5. DOMAIN d = Fields /\ d.samples_read = e.samples_read /\ d.need_new_block = e.need_new_block
    BY <1>4 DEF Apart, Fields
  <1>6. EngineTyped(stream, d)
    BY <1>4, <1>5 DEF EngineTyped
  <1>7. QED BY <1>4, <1>6 DEF a, d

-----------------------------------------------------------------------------
(* The frames a block has for a caller who wants so many.                  *)
ToRead(e, want) ==
  IF BlockSize(e.block) - e.block_pos < want THEN BlockSize(e.block) - e.block_pos ELSE want

Fetched(e, want) ==
  IF stream.float THEN e
  ELSE Feed(e, CostTo(e.block, e.block_pos + ToRead(e, want)) - CostTo(e.block, e.block_pos))

Passing(d, e, want) ==
  [d EXCEPT !.block_pos = e.block_pos + ToRead(e, want), !.samples_read = @ + ToRead(e, want),
            !.need_new_block = (e.block_pos + ToRead(e, want) = BlockSize(e.block))]

FrameGiven(d, e, i) ==
  IF stream.float THEN e.ready[e.block_pos + i] ELSE FrameOf(d, e.block_pos + i)

LEMMA ToReadFacts ==
  ASSUME stream \in Streams, NEW e, InBlock(stream, e), NEW want \in Nat
  PROVE  LET size == BlockSize(e.block) n == ToRead(e, want)
         IN /\ size = Size(stream, e.block) /\ size \in Nat /\ e.block_pos \in 0 .. size
            /\ n \in 0 .. want /\ e.block_pos + n \in 0 .. size
            /\ n = Min({size - e.block_pos, want})
            /\ n < want => e.block_pos + n = size
            /\ want > 0 /\ e.block_pos < size => n > 0
  <1> DEFINE size == BlockSize(e.block)
  <1>1. size = Size(stream, e.block) /\ size \in Nat
    <2>1. \A v \in Nat, c \in Nat \ {0} : v \div c \in Nat
      OBVIOUS
    <2>2. QED BY <2>1, StreamFacts DEF BlockSize, Size, InBlock
  <1>2. e.block_pos \in 0 .. size
    BY <1>1 DEF InBlock
  <1> HIDE DEF size
  <1>3. Min({size - e.block_pos, want}) = IF size - e.block_pos < want THEN size - e.block_pos ELSE want
    <2>1. size - e.block_pos \in Int /\ want \in Int
      BY <1>1, <1>2
    <2>2. QED BY <2>1, MinOfTwo
  <1>4. ToRead(e, want) = IF size - e.block_pos < want THEN size - e.block_pos ELSE want
    BY DEF ToRead, size
  <1> DEFINE n == ToRead(e, want)
  <1> HIDE DEF n
  <1>5. n = IF size - e.block_pos < want THEN size - e.block_pos ELSE want
    BY <1>4 DEF n
  <1>6. /\ n \in 0 .. want /\ e.block_pos + n \in 0 .. size
        /\ n < want => e.block_pos + n = size
        /\ want > 0 /\ e.block_pos < size => n > 0
    BY <1>1, <1>2, <1>5
  <1>7. QED BY <1>1, <1>2, <1>3, <1>5, <1>6 DEF n, size

LEMMA DeliveredIs ==
  ASSUME stream \in Streams, NEW e, InBlock(stream, e), NEW want \in Nat
  PROVE  LET d == Fetched(e, want) c == Passing(d, e, want)
         IN /\ Delivered(e, want).frames = [i \in 1 .. ToRead(e, want) |-> FrameGiven(d, e, i)]
            /\ Delivered(e, want).eng =
                 IF e.block_pos + ToRead(e, want) = BlockSize(e.block) /\ ~stream.float
                 THEN PayloadSkipped(c, e.payload_start, e.block.payload) ELSE c
  <1>1. ToRead(e, want) = Min({BlockSize(e.block) - e.block_pos, want})
    BY ToReadFacts
  <1>2. QED BY <1>1 DEF Delivered, Fetched, Passing, FrameGiven

LEMMA PassingFacts ==
  ASSUME stream \in Streams, NEW e, DOMAIN e = Fields, NEW want \in Nat
  PROVE  LET d == Fetched(e, want) c == Passing(d, e, want) n == ToRead(e, want)
         IN /\ Apart(d, e, {"pos", "budget", "fed"})
            /\ Apart(c, d, {"block_pos", "samples_read", "need_new_block"})
            /\ c.block_pos = e.block_pos + n /\ c.samples_read = e.samples_read + n
            /\ c.need_new_block = (e.block_pos + n = BlockSize(e.block))
  <1> DEFINE d == Fetched(e, want)
  <1>1. Apart(d, e, {"pos", "budget", "fed"})
    <2>1. CASE stream.float
      BY <2>1 DEF Fetched, Apart
    <2>2. CASE ~stream.float
      BY <2>2, FeedApart DEF Fetched
    <2>3. QED BY <2>1, <2>2
  <1> HIDE DEF d
  <1>2. DOMAIN d = Fields /\ d.samples_read = e.samples_read
    BY <1>1 DEF Apart, Fields
  <1>3. QED BY <1>1, <1>2 DEF Passing, Apart, Fields, d

(* What the block has is handed over and counted.                          *)
LEMMA DeliveredTyped ==
  ASSUME stream \in Streams, NEW e, DOMAIN e = Fields, InBlock(stream, e),
         e.samples_read \in Nat, e.errors \in BOOLEAN, NEW want \in Nat
  PROVE  LET r == Delivered(e, want)
         IN /\ r.frames \in Seq(Int) /\ Len(r.frames) = ToRead(e, want)
            /\ EngineTyped(stream, r.eng)
            /\ r.eng.samples_read = e.samples_read + Len(r.frames)
            /\ Apart(r.eng, e, {"pos", "budget", "fed", "block_pos", "samples_read",
                                "need_new_block"})
            /\ r.eng.block_pos = e.block_pos + ToRead(e, want)
            /\ r.eng.need_new_block = (e.block_pos + ToRead(e, want) = Size(stream, e.block))
  <1> DEFINE size == Size(stream, e.block)
             n == ToRead(e, want)
             d == Fetched(e, want)
             c == Passing(d, e, want)
             k == PayloadSkipped(c, e.payload_start, e.block.payload)
             frames == Delivered(e, want).frames
             g == Delivered(e, want).eng
  <1>1. /\ BlockSize(e.block) = size /\ size \in Nat /\ e.block_pos \in 0 .. size
        /\ n \in Nat /\ e.block_pos + n \in 0 .. size
    <2> HIDE DEF n
    <2>1. /\ BlockSize(e.block) = size /\ size \in Nat /\ e.block_pos \in 0 .. size
          /\ n \in 0 .. want /\ e.block_pos + n \in 0 .. size
      BY ToReadFacts DEF n
    <2>2. \A x \in 0 .. want : x \in Nat
      OBVIOUS
    <2>3. QED BY <2>1, <2>2
  <1>2. /\ frames = [i \in 1 .. n |-> FrameGiven(d, e, i)]
        /\ g = c \/ g = k
    BY DeliveredIs
  <1>3. /\ Apart(d, e, {"pos", "budget", "fed"})
        /\ Apart(c, d, {"block_pos", "samples_read", "need_new_block"})
        /\ c.block_pos = e.block_pos + n /\ c.samples_read = e.samples_read + n
        /\ c.need_new_block = (e.block_pos + n = size)
    BY <1>1, PassingFacts
  <1> HIDE DEF d, c, frames, g, n
  <1>4. Apart(k, c, {"pos", "budget"})
    BY <1>3, SkipApart DEF Apart
  <1> HIDE DEF k
  <1>5. /\ Apart(g, e, {"pos", "budget", "fed", "block_pos", "samples_read", "need_new_block"})
        /\ g.block_pos = e.block_pos + n /\ g.samples_read = e.samples_read + n
        /\ g.need_new_block = (e.block_pos + n = size)
    BY <1>2, <1>3, <1>4 DEF Apart, Fields
  <1>6. ASSUME NEW i \in 1 .. n PROVE FrameGiven(d, e, i) \in Int
    <2>1. e.block_pos + i \in 1 .. size
      BY <1>1
    <2>2. CASE stream.float
      <3>1. e.ready[e.block_pos + i] \in Int
        <4>1. e.ready \in [1 .. size -> Int]
          BY <2>2 DEF InBlock
        <4> DEFINE j == e.block_pos + i
        <4>2. j \in 1 .. size
          BY <2>1
        <4> HIDE DEF j, size
        <4>3. e.ready[j] \in Int
          BY <1>1, <4>1, <4>2
        <4>4. QED BY <4>3 DEF j
      <3>2. QED BY <2>2, <3>1 DEF FrameGiven
    <2>3. CASE ~stream.float
      <3>1. d.block = e.block /\ e.block.first \in Nat
        BY <1>3 DEF Apart, Fields, InBlock
      <3>2. e.block_pos + i \in Int
        BY <2>1
      <3>3. FrameOf(d, e.block_pos + i) \in Int
        BY <3>1, <3>2 DEF FrameOf, Noise
      <3>4. QED BY <2>3, <3>3 DEF FrameGiven
    <2>4. QED BY <2>2, <2>3
  <1>7. frames \in Seq(Int) /\ Len(frames) = n
    BY <1>1, <1>2, <1>6
  <1>8. EngineTyped(stream, g)
    <2>1. /\ DOMAIN g = Fields /\ g.errors = e.errors /\ g.block = e.block /\ g.ready = e.ready
      BY <1>5 DEF Apart, Fields
    <2>2. g.samples_read \in Nat /\ g.need_new_block \in BOOLEAN /\ g.block_pos \in 0 .. size
      BY <1>1, <1>5
    <2>3. InBlock(stream, g)
      BY <2>1, <2>2 DEF InBlock
    <2>4. ~g.need_new_block => g.block_pos < size
      <3> DEFINE x == e.block_pos + n
      <3>1. x \in 0 .. size /\ size \in Nat /\ g.block_pos = x /\ g.need_new_block = (x = size)
        BY <1>1, <1>5
      <3>2. x # size => x < size
        <4> HIDE DEF size, x
        <4>1. QED BY <3>1
      <3>3. QED BY <3>1, <3>2
    <2>5. QED BY <2>1, <2>2, <2>3, <2>4 DEF EngineTyped
  <1>9. QED BY <1>5, <1>7, <1>8 DEF frames, g, n

-----------------------------------------------------------------------------
(* An iteration of read() on a file laid out in order *)

LEMMA FeedStart ==
  ASSUME NEW p \in Nat, Cell(stream, p).payload \in Nat,
         NEW e, e.pos = p, e.budget = Cell(stream, p).payload, e.fed = <<>>
  PROVE  Feeding(stream, e, p, 0)
  <1> DEFINE cell == Cell(stream, p)
  <1>1. Passed(cell, 0) = 0
    <2> HIDE DEF cell
    <2>1. cell.payload \in Nat
      BY DEF cell
    <2>2. QED BY <2>1 DEF Passed
  <1>2. Payload(cell, 0) = <<>>
    BY DEF Payload
  <1>3. e.pos = p + 0 /\ e.budget = cell.payload - 0
    OBVIOUS
  <1>4. QED BY <1>1, <1>2, <1>3 DEF Feeding

(* A coder that has read on has read what comes first all the same.        *)
LEMMA FedBefore ==
  ASSUME NEW cell, NEW n \in Nat, NEW m \in 0 .. n
  PROVE  FedRight(Payload(cell, n), cell, m)
  <1> DEFINE Byte(i) == IF i <= cell.payload
                        THEN [kind |-> "DATA", block |-> cell.id, index |-> i] ELSE Zero
             a == Payload(cell, n)
             b == SubSeq(a, 1, m)
  <1>1. a = [i \in 1 .. n |-> Byte(i)] /\ Payload(cell, m) = [i \in 1 .. m |-> Byte(i)]
    BY DEF Payload
  <1> HIDE DEF Byte, a
  <1>2. m \in Nat /\ 1 + m - 1 = m /\ \A i \in 1 .. m : i \in 1 .. n /\ i + 1 - 1 = i
    OBVIOUS
  <1>3. b = [i \in 1 .. m |-> a[i]]
    <2> DEFINE S == {Byte(i) : i \in 1 .. n}
    <2>1. a \in Seq(S) /\ Len(a) = n
      BY <1>1
    <2> HIDE DEF S
    <2>2. /\ b \in Seq(S) /\ Len(b) = m
          /\ \A i \in 1 .. m : b[i] = a[i]
      <3>1. 1 \in 1 .. n + 1 /\ m \in 0 .. n /\ (1 <= m => m <= n)
        OBVIOUS
      <3>2. /\ Len(b) = IF 1 <= m THEN m - 1 + 1 ELSE 0
            /\ \A i \in 1 .. m - 1 + 1 : b[i] = a[1 + i - 1]
        BY <2>1, <3>1
      <3>3. QED BY <1>2, <2>1, <3>2
    <2>3. QED BY <2>2
  <1>4. \A i \in 1 .. m : a[i] = Byte(i)
    BY <1>1, <1>2
  <1>5. b = [i \in 1 .. m |-> Byte(i)]
    BY <1>3, <1>4
  <1>6. QED BY <1>1, <1>5 DEF FedRight, a

LEMMA FrameRight ==
  ASSUME NEW d, NEW p, NEW n \in Nat, Feeding(stream, d, p, CostTo(d.block, n)),
         d.block = Cell(stream, p), \A i \in 1 .. n + 1 : d.block.cost[i] \in Nat,
         d.live = d.block.stages, NEW j \in 0 .. n
  PROVE  FrameOf(d, j) = d.block.first + j
  <1> DEFINE m == CostTo(d.block, j) k == CostTo(d.block, n)
  <1>1. k \in Nat /\ m \in 0 .. k
    <2>1. n \in 0 .. n /\ j \in 0 .. j
      OBVIOUS
    <2>2. m \in Nat /\ k \in Nat /\ m <= k
      BY <2>1, Costs
    <2> HIDE DEF m, k
    <2>3. QED BY <2>2
  <1> HIDE DEF m, k
  <1>2. d.fed = Payload(d.block, k)
    BY DEF Feeding, k
  <1>3. FedRight(d.fed, d.block, m)
    BY <1>1, <1>2, FedBefore
  <1>4. QED BY <1>3 DEF FrameOf, m

(* What a block of such a file has for its n frames.                       *)
LEMMA PayloadFacts ==
  ASSUME stream \in Streams, NEW p, NEW n \in Nat, PayloadFollows(stream, p, n)
  PROVE  /\ \A i \in 1 .. n + 1 : Cell(stream, p).cost[i] \in Nat
         /\ Cell(stream, p).payload \in Nat
         /\ p + Cell(stream, p).payload <= Len(stream.cells)
  BY DEF PayloadFollows

(* A coder that has taken the bytes of i frames takes those of j frames.   *)
LEMMA FeedFrames ==
  ASSUME stream \in Streams, NEW p \in Nat, NEW n \in Nat, PayloadFollows(stream, p, n),
         NEW e, DOMAIN e = Fields, NEW j \in 0 .. n, NEW i \in 0 .. j,
         Feeding(stream, e, p, CostTo(Cell(stream, p), i))
  PROVE  Feeding(stream, Feed(e, CostTo(Cell(stream, p), j) - CostTo(Cell(stream, p), i)), p,
                 CostTo(Cell(stream, p), j))
  <1> DEFINE a == CostTo(Cell(stream, p), i) b == CostTo(Cell(stream, p), j)
  <1>1. a \in Nat /\ b \in Nat /\ a <= b
    <2>1. i \in 0 .. n
      OBVIOUS
    <2>2. QED BY <2>1, PayloadFacts, Costs
  <1> HIDE DEF a, b
  <1>2. b - a \in Nat /\ a + (b - a) = b
    BY <1>1
  <1>3. Feeding(stream, e, p, a)
    BY DEF a
  <1>4. Feeding(stream, Feed(e, b - a), p, a + (b - a))
    BY <1>1, <1>2, <1>3, FeedInPayload
  <1>5. QED BY <1>2, <1>4 DEF a, b

(* From within a payload there is a way to its end.                        *)
LEMMA FeedingSkipped ==
  ASSUME stream \in Streams, NEW p \in Nat, NEW n \in Nat, PayloadFollows(stream, p, n),
         NEW e, DOMAIN e = Fields, NEW t \in Nat, Feeding(stream, e, p, t)
  PROVE  LET d == PayloadSkipped(e, p, Cell(stream, p).payload)
         IN d.budget = -1 /\ d.pos = PayloadEnd(stream, p)
  <1> DEFINE len == Cell(stream, p).payload
  <1>1. len \in Nat /\ p + len <= Len(stream.cells)
    BY PayloadFacts
  <1>2. e.pos = p + Passed(Cell(stream, p), t) /\ Passed(Cell(stream, p), t) \in 0 .. len
    <2>1. Passed(Cell(stream, p), t) = IF t < len THEN t ELSE len
      BY DEF Passed
    <2> HIDE DEF len
    <2>2. QED BY <1>1, <2>1 DEF Feeding
  <1>3. e.pos \in p .. p + len
    <2> DEFINE g == Passed(Cell(stream, p), t)
    <2>1. g \in 0 .. len /\ e.pos = p + g
      BY <1>2
    <2> HIDE DEF len, g
    <2>2. QED BY <1>1, <2>1
  <1> HIDE DEF len
  <1>4. /\ PayloadSkipped(e, p, len).budget = -1
        /\ PayloadSkipped(e, p, len).pos = p + len
    BY <1>1, <1>3, Skipped
  <1>5. QED BY <1>4 DEF PayloadEnd, len

LEMMA OpenedPlaced ==
  ASSUME stream \in Streams, LaidOut(stream), NEW e, EngineTyped(stream, e),
         AtBoundary(stream, e), IsBlock(stream, e.pos + 1)
  PROVE  LET p == e.pos + 1 d == BlockOpened(e)
         IN /\ p \in DOMAIN stream.cells /\ d.block = Cell(stream, p) /\ d.block.first = e.samples_read
            /\ Feeding(stream, d, p, CostTo(d.block, 0))
  <1> DEFINE p == e.pos + 1 d == BlockOpened(e) h == HeaderRead(e) cell == Cell(stream, p)
             n == FramesIn(stream, p)
  <1>1. /\ p \in DOMAIN stream.cells /\ p \in Nat /\ n \in Nat
        /\ PayloadFollows(stream, p, n) /\ cell.first = e.samples_read
        /\ e.budget = -1 /\ e.pos \in 0 .. Len(stream.cells)
    BY BlockFacts, BlockLaid DEF AtBoundary
  <1>2. p <= Len(stream.cells)
    <2> HIDE DEF p
    <2>1. QED BY <1>1, StreamFacts
  <1>3. DOMAIN e = Fields
    BY DEF EngineTyped
  <1>4. Advance(e, 1).pos = p
    BY <1>1, <1>2, <1>3, AdvanceFree
  <1>5. /\ d = Feed(h, cell.cost[1]) /\ DOMAIN h = Fields
        /\ h.block = cell /\ h.budget = cell.payload /\ h.fed = <<>> /\ h.pos = p
    BY <1>3, <1>4, HeaderReadFacts DEF Apart, CellAt
  <1>6. d.block = cell
    BY <1>5, FeedApart DEF Apart, Fields
  <1> HIDE DEF d, h, n, p
  <1>7. cell.payload \in Nat /\ \A i \in 1 .. n + 1 : cell.cost[i] \in Nat
    BY <1>1, PayloadFacts
  <1>8. Feeding(stream, h, p, 0)
    BY <1>1, <1>5, <1>7, FeedStart
  <1>9. CostTo(cell, 0) = cell.cost[1] /\ CostTo(cell, 0) \in Nat
    <2>1. 0 \in 0 .. n
      BY <1>1
    <2> HIDE DEF cell
    <2>2. QED BY <1>1, <1>7, <2>1, Costs
  <1>10. 0 \in Nat /\ 0 + cell.cost[1] = cell.cost[1] /\ cell.cost[1] \in Nat
    <2> HIDE DEF cell
    <2>1. QED BY <1>9
  <1>11. Feeding(stream, Feed(h, cell.cost[1]), p, 0 + cell.cost[1])
    BY <1>1, <1>5, <1>8, <1>10, FeedInPayload
  <1>12. QED BY <1>1, <1>5, <1>6, <1>9, <1>10, <1>11 DEF p, d

(* The whole of a float block, up to its DETA block.                       *)
LEMMA DecodedPlaced ==
  ASSUME stream \in Streams, LaidOut(stream), NEW p, IsBlock(stream, p),
         NEW e, DOMAIN e = Fields, e.block = Cell(stream, p), e.payload_start = p,
         Feeding(stream, e, p, CostTo(e.block, 0))
  PROVE  LET d == BlockDecoded(e)
         IN /\ d.budget = -1 /\ d.pos = PayloadEnd(stream, p)
            /\ e.live = e.block.stages =>
                 \A j \in 1 .. Size(stream, e.block) : d.ready[j] = e.block.first + j
  <1> DEFINE size == BlockSize(e.block) n == FramesIn(stream, p)
             cell == Cell(stream, p)
             f == Feed(e, CostTo(e.block, size) - e.block.cost[1])
             k == PayloadSkipped(f, e.payload_start, e.block.payload)
             r == [j \in 1 .. size |-> FrameOf(f, j)]
             d == BlockDecoded(e)
  <1>1. p \in Nat /\ n \in Nat /\ PayloadFollows(stream, p, n) /\ size = n
        /\ size = Size(stream, e.block)
    BY BlockFacts, BlockLaid DEF BlockSize, Size
  <1>2. /\ \A i \in 1 .. n + 1 : cell.cost[i] \in Nat
        /\ CostTo(cell, 0) = cell.cost[1]
        /\ CostTo(cell, n) \in Nat
    <2>1. \A i \in 1 .. n + 1 : cell.cost[i] \in Nat
      BY <1>1, PayloadFacts
    <2> HIDE DEF cell, n
    <2>2. n \in 0 .. n
      BY <1>1
    <2>3. QED BY <1>1, <2>1, <2>2, Costs
  <1>3. d = [k EXCEPT !.ready = r]
    BY DEF BlockDecoded
  <1> HIDE DEF n, size
  <1>4. f = Feed(e, CostTo(cell, n) - CostTo(cell, 0)) /\ Feeding(stream, e, p, CostTo(cell, 0))
    BY <1>1, <1>2
  <1> HIDE DEF f
  <1>5. Feeding(stream, f, p, CostTo(cell, n)) /\ DOMAIN f = Fields
        /\ f.block = cell /\ f.live = e.live
    <2>1. Apart(f, e, {"pos", "budget", "fed"})
      BY <1>4, FeedApart
    <2>2. n \in 0 .. n /\ 0 \in 0 .. n
      BY <1>1
    <2>3. Feeding(stream, f, p, CostTo(cell, n))
      BY <1>1, <1>4, <2>2, FeedFrames
    <2>4. QED BY <2>1, <2>3 DEF Apart, Fields
  <1> HIDE DEF cell
  <1>6. k.budget = -1 /\ k.pos = PayloadEnd(stream, p) /\ DOMAIN k = Fields
    <2>1. k = PayloadSkipped(f, p, cell.payload)
      BY DEF cell
    <2>2. k.budget = -1 /\ k.pos = PayloadEnd(stream, p)
      BY <1>1, <1>2, <1>5, <2>1, FeedingSkipped DEF cell
    <2>3. Apart(k, f, {"pos", "budget"})
      BY <1>5, SkipApart
    <2>4. QED BY <2>2, <2>3 DEF Apart
  <1> HIDE DEF k
  <1>7. d.ready = r /\ d.budget = k.budget /\ d.pos = k.pos
    BY <1>3, <1>6 DEF Fields
  <1>8. ASSUME e.live = e.block.stages, NEW j \in 1 .. size PROVE d.ready[j] = e.block.first + j
    <2>1. j \in 0 .. n /\ n \in Nat
      BY <1>1
    <2>2. f.live = f.block.stages /\ f.block = Cell(stream, p) /\ f.block = e.block
      BY <1>5, <1>8 DEF cell
    <2>3. /\ Feeding(stream, f, p, CostTo(f.block, n))
          /\ \A i \in 1 .. n + 1 : f.block.cost[i] \in Nat
      BY <1>2, <1>5
    <2>4. FrameOf(f, j) = f.block.first + j
      BY <2>1, <2>2, <2>3, FrameRight
    <2>5. QED BY <1>7, <2>2, <2>4
  <1> HIDE DEF d, r
  <1>9. QED BY <1>1, <1>6, <1>7, <1>8 DEF d

(* And its DETA block.                                                     *)
LEMMA ReconstructedPlaced ==
  ASSUME stream \in Streams, LaidOut(stream), stream.float, NEW p, IsBlock(stream, p),
         NEW e, DOMAIN e = Fields, e.block = Cell(stream, p),
         e.budget = -1, e.pos = PayloadEnd(stream, p)
  PROVE  LET d == FloatsReconstructed(e)
         IN /\ d.budget = -1 /\ d.pos = BlockEnd(stream, p) /\ d.errors = e.errors
            /\ \A j \in 1 .. Size(stream, e.block) : d.ready[j] = e.ready[j]
  <1> DEFINE q == PayloadEnd(stream, p) + 1
             deta == Cell(stream, q)
             size == BlockSize(e.block)
             n == FramesIn(stream, p)
             a == Advance(e, 1)
             at == [a EXCEPT !.budget = deta.payload, !.fed = <<>>]
             f == Feed(at, CostTo(deta, size))
             k == PayloadSkipped(f, at.pos, deta.payload)
             r == [j \in 1 .. size |->
                     IF FedRight(f.fed, deta, CostTo(deta, j)) THEN e.ready[j] ELSE Noise]
             d == FloatsReconstructed(e)
  <1>1. /\ n \in Nat /\ size = n /\ size = Size(stream, e.block)
        /\ PayloadEnd(stream, p) \in 0 .. Len(stream.cells)
        /\ q \in DOMAIN stream.cells /\ deta.kind = "DETA" /\ PayloadFollows(stream, q, n)
        /\ BlockEnd(stream, p) = PayloadEnd(stream, q)
    <2>1. p \in Nat
      BY BlockLaid
    <2>2. \A x \in p .. Len(stream.cells) : x \in 0 .. Len(stream.cells)
      BY <2>1, StreamFacts
    <2>3. QED BY <2>2, BlockFacts, BlockLaid DEF BlockSize, Size, BlockEnd
  <1>2. q \in Nat /\ q <= Len(stream.cells) /\ q = e.pos + 1
    <2>1. q = e.pos + 1
      OBVIOUS
    <2> HIDE DEF q
    <2>2. QED BY <1>1, <2>1, StreamFacts
  <1>3. a.pos = q /\ Apart(a, e, {"pos", "budget"})
    BY <1>1, <1>2, AdvanceFree, AdvanceApart
  <1>4. d = [k EXCEPT !.ready = r]
    BY <1>1, <1>2 DEF FloatsReconstructed, CellAt
  <1> HIDE DEF a, q, n, size
  <1>5. /\ DOMAIN at = Fields /\ \A x \in Fields \ {"pos", "budget", "fed"} : at[x] = e[x]
        /\ at.pos = q /\ at.budget = deta.payload /\ at.fed = <<>>
    BY <1>3 DEF Apart, Fields
  <1>6. /\ \A i \in 1 .. n + 1 : deta.cost[i] \in Nat
        /\ deta.payload \in Nat
        /\ CostTo(deta, n) \in Nat
        /\ \A j \in 0 .. n : CostTo(deta, j) \in Nat /\ CostTo(deta, j) <= CostTo(deta, n)
    <2>1. deta.payload \in Nat /\ \A i \in 1 .. n + 1 : deta.cost[i] \in Nat
      BY <1>1, PayloadFacts
    <2> HIDE DEF deta
    <2>2. n \in 0 .. n
      BY <1>1
    <2>3. /\ \A j \in 0 .. n : CostTo(deta, j) \in Nat
          /\ \A j \in 0 .. n : \A i \in 0 .. j : CostTo(deta, i) <= CostTo(deta, j)
      BY <1>1, <2>1, Costs
    <2>4. QED BY <2>1, <2>2, <2>3
  <1> HIDE DEF at
  <1>7. Feeding(stream, at, q, 0)
    BY <1>2, <1>5, <1>6, FeedStart
  <1>8. Feeding(stream, f, q, CostTo(deta, n)) /\ DOMAIN f = Fields
        /\ \A x \in Fields \ {"pos", "budget", "fed"} : f[x] = at[x]
    <2> DEFINE t == CostTo(deta, n)
    <2>1. t \in Nat /\ 0 + t = t /\ 0 \in Nat
      <3>1. t \in Nat
        BY <1>6
      <3> HIDE DEF t
      <3>2. QED BY <3>1
    <2>2. f = Feed(at, t)
      BY <1>1
    <2> HIDE DEF t
    <2>3. Feeding(stream, Feed(at, t), q, 0 + t)
      BY <1>1, <1>2, <1>5, <1>7, <2>1, FeedInPayload
    <2>4. Apart(f, at, {"pos", "budget", "fed"})
      BY <1>5, <2>2, FeedApart
    <2>5. QED BY <2>1, <2>2, <2>3, <2>4 DEF Apart, t
  <1> HIDE DEF f
  <1>9. /\ k.budget = -1 /\ k.pos = PayloadEnd(stream, q) /\ DOMAIN k = Fields
        /\ k.errors = e.errors
    <2>1. k = PayloadSkipped(f, q, deta.payload)
      BY <1>5
    <2>2. k.budget = -1 /\ k.pos = PayloadEnd(stream, q)
      BY <1>1, <1>2, <1>6, <1>8, <2>1, FeedingSkipped
    <2>3. Apart(k, f, {"pos", "budget"})
      BY <1>8, SkipApart
    <2>4. QED BY <1>5, <1>8, <2>2, <2>3 DEF Apart, Fields
  <1>10. ASSUME NEW j \in 1 .. size PROVE r[j] = e.ready[j]
    <2> DEFINE m == CostTo(deta, j) t == CostTo(deta, n)
    <2>1. j \in 0 .. n
      BY <1>1
    <2>2. m \in Nat /\ t \in Nat /\ m <= t
      BY <1>6, <2>1
    <2>3. m \in 0 .. t
      <3> HIDE DEF m, t
      <3>1. QED BY <2>2
    <2> HIDE DEF m, t
    <2>4. f.fed = Payload(deta, t)
      BY <1>8 DEF Feeding, t
    <2>5. FedRight(f.fed, deta, m)
      BY <2>2, <2>3, <2>4, FedBefore
    <2>6. QED BY <2>5 DEF m
  <1> HIDE DEF k, r, deta
  <1>11. d.ready = r /\ d.budget = k.budget /\ d.pos = k.pos /\ d.errors = k.errors
    BY <1>4, <1>9 DEF Fields
  <1> HIDE DEF d
  <1>12. QED BY <1>1, <1>9, <1>10, <1>11 DEF d

(* Every block comes with the same stages; what is alive is theirs.        *)
LEMMA NewBlockPlaced ==
  ASSUME stream \in Streams, LaidOut(stream), NEW e, EngineTyped(stream, e), e.need_new_block,
         AtBoundary(stream, e), IsBlock(stream, e.pos + 1), NEW d \in NewBlock(e)
  PROVE  /\ Within(stream, d, e.pos + 1) /\ d.errors = e.errors
         /\ OneConfiguration(stream) /\ Faithful(stream, e) => Faithful(stream, d)
  <1> DEFINE p == e.pos + 1 b == BlockOpened(e) cell == Cell(stream, p)
  <1>1. /\ p \in DOMAIN stream.cells /\ b.block = cell /\ b.block.first = e.samples_read
        /\ cell = stream.cells[p] /\ IsBlock(stream, p)
        /\ Feeding(stream, b, p, CostTo(b.block, 0))
    BY OpenedPlaced, BlockFacts
  <1>2. /\ Apart(b, e, {"block", "block_pos", "payload_start", "budget", "pos", "fed", "live",
                        "need_new_block"})
        /\ b.block_pos = 0 /\ b.need_new_block = FALSE /\ b.payload_start = p
        /\ b.live = e.live \cup b.block.stages /\ Size(stream, b.block) \in Nat
        /\ b.block.first \in Nat /\ e.samples_read \in Nat
    <2>1. CellAt(e.pos + 1).kind = "COMP"
      BY DEF CellAt, IsBlock
    <2>2. QED BY <2>1, OpenedTyped DEF EngineTyped
  <1> HIDE DEF p, b, cell
  <1>3. /\ DOMAIN b = Fields /\ b.errors = e.errors /\ b.samples_read = e.samples_read
    BY <1>2 DEF Apart, Fields
  <1>4. OneConfiguration(stream) /\ Faithful(stream, e) =>
          /\ b.live = b.block.stages
          /\ \A q \in DOMAIN stream.cells : IsBlock(stream, q) => b.live \subseteq stream.cells[q].stages
    <2>1. ASSUME OneConfiguration(stream), Faithful(stream, e)
          PROVE  /\ b.live = b.block.stages
                 /\ \A q \in DOMAIN stream.cells :
                      IsBlock(stream, q) => b.live \subseteq stream.cells[q].stages
      <3>1. \A q \in DOMAIN stream.cells :
              IsBlock(stream, q) => stream.cells[q].stages = b.block.stages
        BY <1>1, <2>1 DEF OneConfiguration
      <3>2. e.live \subseteq b.block.stages
        BY <1>1, <2>1 DEF Faithful
      <3>3. b.live = b.block.stages
        BY <1>2, <3>2
      <3>4. QED BY <3>1, <3>3
    <2>2. QED BY <2>1
  <1>5. b.samples_read = b.block.first + b.block_pos
    BY <1>1, <1>2, <1>3
  <1>6. CASE ~stream.float
    <2>1. d = b
      BY <1>6 DEF NewBlock, b
    <2>2. Within(stream, d, p)
      BY <1>1, <1>2, <1>5, <1>6, <2>1 DEF Within
    <2>3. QED BY <1>3, <1>4, <1>6, <2>1, <2>2 DEF Faithful, p
  <1>7. CASE stream.float
    <2> DEFINE k == BlockDecoded(b) size == Size(stream, b.block)
    <2>1. d = FloatsReconstructed(k)
      BY <1>7 DEF NewBlock, b
    <2>2. /\ Apart(k, b, {"pos", "budget", "fed", "ready"})
          /\ k.ready \in [1 .. size -> Int]
      BY <1>2, <1>3, DecodedTyped
    <2>3. /\ k.budget = -1 /\ k.pos = PayloadEnd(stream, p)
          /\ b.live = b.block.stages => \A j \in 1 .. size : k.ready[j] = b.block.first + j
      BY <1>1, <1>2, <1>3, DecodedPlaced DEF cell
    <2> HIDE DEF k, size
    <2>4. /\ DOMAIN k = Fields /\ k.errors = e.errors /\ k.block = b.block
          /\ k.live = b.live /\ k.samples_read = b.samples_read /\ k.block_pos = b.block_pos
          /\ k.need_new_block = FALSE
      BY <1>2, <1>3, <2>2 DEF Apart, Fields
    <2>5. /\ Apart(d, k, {"pos", "budget", "fed", "ready", "errors"})
      <3>1. k.errors \in BOOLEAN /\ Size(stream, k.block) \in Nat
            /\ k.ready \in [1 .. Size(stream, k.block) -> Int]
        BY <1>2, <2>2, <2>4 DEF EngineTyped, size
      <3>2. Apart(FloatsReconstructed(k), k, {"pos", "budget", "fed", "ready", "errors"})
        BY <2>4, <3>1, ReconstructedTyped
      <3>3. QED BY <2>1, <3>2
    <2>6. /\ d.budget = -1 /\ d.pos = BlockEnd(stream, p) /\ d.errors = k.errors
          /\ \A j \in 1 .. Size(stream, k.block) : d.ready[j] = k.ready[j]
      <3>1. k.block = Cell(stream, p)
        BY <1>1, <2>4 DEF cell
      <3>2. QED BY <1>1, <1>7, <2>1, <2>3, <2>4, <3>1, ReconstructedPlaced
    <2>7. /\ d.block = b.block /\ d.live = b.live /\ d.samples_read = b.samples_read
          /\ d.block_pos = b.block_pos /\ d.need_new_block = FALSE
      BY <2>4, <2>5 DEF Apart, Fields
    <2>8. Within(stream, d, p)
      BY <1>1, <1>5, <1>7, <2>6, <2>7 DEF Within
    <2>9. OneConfiguration(stream) /\ Faithful(stream, e) => Faithful(stream, d)
      BY <1>4, <2>3, <2>4, <2>6, <2>7 DEF Faithful, size
    <2>10. QED BY <2>4, <2>6, <2>8, <2>9 DEF p
  <1>8. QED BY <1>6, <1>7

(* An iteration goes on in a block of the file, or there is none any more. *)
EnteredRight(s, e, at) ==
  IF at.missing
  THEN AtBoundary(s, at.eng) /\ e.samples_read = Points(s) /\ ~IsBlock(s, at.eng.pos + 1)
  ELSE /\ \E p \in DOMAIN s.cells : Within(s, at.eng, p)
       /\ at.eng.errors = e.errors

LEMMA EnteredPlaced ==
  ASSUME stream \in Streams, LaidOut(stream), NEW e, EngineTyped(stream, e), Placed(stream, e),
         NEW at \in Entered(e)
  PROVE  /\ EnteredRight(stream, e, at)
         /\ OneConfiguration(stream) /\ Faithful(stream, e) => Faithful(stream, at.eng)
  <1>1. CASE ~e.need_new_block
    <2>1. at.missing = FALSE /\ at.eng = e
      BY <1>1 DEF Entered
    <2>2. QED BY <1>1, <2>1 DEF Placed, EnteredRight
  <1>2. CASE e.need_new_block /\ CellAt(e.pos + 1).kind # "COMP"
    <2> DEFINE d == MissingBlock(e)
    <2>1. at.missing = TRUE /\ at.eng = d
      BY <1>2 DEF Entered
    <2>2. /\ AtBoundary(stream, e) /\ ~IsBlock(stream, e.pos + 1)
      BY <1>2 DEF Placed, IsBlock, CellAt
    <2>3. /\ Apart(d, e, {"pos", "budget", "errors"})
          /\ d.pos = Advance(e, 1).pos /\ d.budget = Advance(e, 1).budget
      BY <1>2, MissingTyped
    <2>4. /\ e.budget = -1 /\ e.pos \in 0 .. Len(stream.cells)
          /\ e.samples_read = Points(stream)
          /\ \A q \in DOMAIN stream.cells : q > e.pos => ~IsBlock(stream, q)
      BY <2>2 DEF AtBoundary
    <2>5. Advance(e, 1).budget = -1 /\ Advance(e, 1).pos \in e.pos .. Len(stream.cells)
      BY <2>4, AdvanceFree DEF EngineTyped
    <2> HIDE DEF d
    <2>6. d.budget = -1 /\ d.pos \in e.pos .. Len(stream.cells) /\ d.samples_read = e.samples_read
          /\ d.live = e.live /\ d.need_new_block = e.need_new_block
      BY <2>3, <2>5 DEF Apart, Fields
    <2>7. d.pos \in 0 .. Len(stream.cells) /\ d.pos >= e.pos /\ d.pos + 1 > e.pos
      BY <2>4, <2>6, StreamFacts
    <2>8. \A q \in DOMAIN stream.cells : q > d.pos => ~IsBlock(stream, q)
      BY <2>4, <2>7, StreamFacts
    <2>9. ~IsBlock(stream, d.pos + 1)
      <3>1. ASSUME IsBlock(stream, d.pos + 1) PROVE FALSE
        <4>1. d.pos + 1 \in DOMAIN stream.cells
          BY <3>1, BlockFacts
        <4>2. QED BY <2>4, <2>7, <3>1, <4>1
      <3>2. QED BY <3>1
    <2>10. AtBoundary(stream, d)
      BY <2>4, <2>6, <2>7, <2>8, <2>9 DEF AtBoundary
    <2>11. Faithful(stream, e) => Faithful(stream, d)
      BY <1>2, <2>6 DEF Faithful
    <2>12. QED BY <2>1, <2>4, <2>9, <2>10, <2>11 DEF EnteredRight
  <1>3. CASE e.need_new_block /\ CellAt(e.pos + 1).kind = "COMP"
    <2>1. PICK d \in NewBlock(e) : at = [eng |-> d, missing |-> FALSE]
      BY <1>3 DEF Entered
    <2>2. at.missing = FALSE /\ at.eng = d
      BY <2>1
    <2>3. AtBoundary(stream, e) /\ IsBlock(stream, e.pos + 1)
      BY <1>3 DEF Placed, IsBlock, CellAt
    <2>4. /\ Within(stream, d, e.pos + 1) /\ d.errors = e.errors
          /\ OneConfiguration(stream) /\ Faithful(stream, e) => Faithful(stream, d)
      BY <1>3, <2>3, NewBlockPlaced
    <2>5. e.pos + 1 \in DOMAIN stream.cells
      BY <2>4 DEF Within
    <2>6. QED BY <2>2, <2>4, <2>5 DEF EnteredRight
  <1>4. QED BY <1>1, <1>2, <1>3

(* Within a block of n frames, from its j-th to its k-th.                  *)
LEMMA DeliveredPlaced ==
  ASSUME stream \in Streams, LaidOut(stream), NEW e, DOMAIN e = Fields, InBlock(stream, e),
         e.samples_read \in Nat, e.errors \in BOOLEAN, e.need_new_block = FALSE,
         NEW p, Within(stream, e, p), NEW want \in Nat
  PROVE  LET r == Delivered(e, want)
         IN /\ Placed(stream, r.eng) /\ TailNext(stream, r.eng)
            /\ Faithful(stream, e) =>
                 /\ Faithful(stream, r.eng)
                 /\ \A i \in 1 .. Len(r.frames) : r.frames[i] = e.samples_read + i
  <1> DEFINE n == FramesIn(stream, p)
             cell == Cell(stream, p)
             at == e.block_pos
             last == e.block_pos + ToRead(e, want)
             d == Fetched(e, want)
             c == Passing(d, e, want)
             g == Delivered(e, want).eng
             frames == Delivered(e, want).frames
  <1>1. /\ p \in DOMAIN stream.cells /\ p \in Nat /\ IsBlock(stream, p)
        /\ e.block = cell /\ cell = stream.cells[p]
        /\ n \in Nat /\ n = Size(stream, e.block) /\ PayloadFollows(stream, p, n)
        /\ GoesOn(stream, BlockEnd(stream, p), cell.first + n)
        /\ BlockEnd(stream, p) \in Nat /\ BlockEnd(stream, p) <= Len(stream.cells)
        /\ cell.first \in Nat /\ e.samples_read = cell.first + at
    <2>1. p \in DOMAIN stream.cells /\ IsBlock(stream, p) /\ e.block = stream.cells[p]
          /\ e.samples_read = e.block.first + e.block_pos
      BY DEF Within
    <2>2. QED BY <2>1, BlockFacts, BlockLaid
  <1>2. /\ BlockSize(e.block) = n /\ at \in 0 .. n /\ last \in 0 .. n
        /\ ToRead(e, want) \in Nat /\ at \in 0 .. last
    <2> DEFINE x == ToRead(e, want)
    <2>1. /\ BlockSize(e.block) = Size(stream, e.block) /\ at \in 0 .. BlockSize(e.block)
          /\ x \in 0 .. want /\ at + x \in 0 .. BlockSize(e.block)
      BY ToReadFacts
    <2>2. BlockSize(e.block) = n
      BY <1>1, <2>1
    <2> HIDE DEF x, n, at
    <2>3. at \in 0 .. n /\ at + x \in 0 .. n /\ x \in Nat /\ at \in 0 .. at + x
      BY <1>1, <2>1, <2>2
    <2>4. QED BY <2>2, <2>3 DEF x, at
  <1>3. /\ frames = [i \in 1 .. ToRead(e, want) |-> FrameGiven(d, e, i)]
        /\ g = IF last = n /\ ~stream.float THEN PayloadSkipped(c, e.payload_start, e.block.payload)
               ELSE c
    BY <1>2, DeliveredIs
  <1>4. /\ frames \in Seq(Int) /\ Len(frames) = ToRead(e, want)
        /\ EngineTyped(stream, g)
        /\ g.samples_read = e.samples_read + Len(frames)
        /\ Apart(g, e, {"pos", "budget", "fed", "block_pos", "samples_read", "need_new_block"})
        /\ g.block_pos = last /\ g.need_new_block = (last = n)
    BY <1>1, <1>2, DeliveredTyped, SMTT(30)
  <1>5. /\ Apart(d, e, {"pos", "budget", "fed"})
        /\ Apart(c, d, {"block_pos", "samples_read", "need_new_block"})
    BY PassingFacts
  <1>6. ~stream.float => Feeding(stream, d, p, CostTo(cell, last)) /\ e.payload_start = p
    <2>1. ASSUME ~stream.float
          PROVE  Feeding(stream, d, p, CostTo(cell, last)) /\ e.payload_start = p
      <3>1. Feeding(stream, e, p, CostTo(cell, at)) /\ e.payload_start = p
        BY <1>1, <2>1 DEF Within
      <3>2. d = Feed(e, CostTo(cell, last) - CostTo(cell, at))
        BY <1>1, <2>1 DEF Fetched
      <3> HIDE DEF n, at, last, cell, d
      <3>3. QED BY <1>1, <1>2, <3>1, <3>2, FeedFrames DEF cell
    <2>2. QED BY <2>1
  <1> HIDE DEF d, c, g, frames, n, last, at
  <1>7. /\ DOMAIN d = Fields /\ d.block = e.block /\ d.live = e.live
        /\ DOMAIN c = Fields /\ c.pos = d.pos /\ c.budget = d.budget /\ c.fed = d.fed
        /\ g.block = e.block /\ g.live = e.live /\ g.ready = e.ready
        /\ g.payload_start = e.payload_start
        /\ stream.float => d.pos = e.pos /\ d.budget = e.budget
    BY <1>4, <1>5 DEF Apart, Fields, Fetched, d
  <1>8. g.samples_read = cell.first + last
    <2>1. g.samples_read = cell.first + at + ToRead(e, want) /\ last = at + ToRead(e, want)
      BY <1>1, <1>4 DEF last, at
    <2> HIDE DEF cell
    <2>2. QED BY <1>1, <1>2, <2>1, SMTT(30)
  <1>9. ASSUME last # n PROVE Placed(stream, g) /\ TailNext(stream, g)
    <2>1. g = c /\ g.need_new_block = FALSE
      BY <1>3, <1>4, <1>9
    <2>2. Within(stream, g, p)
      <3>1. stream.float => g.budget = -1 /\ g.pos = BlockEnd(stream, p)
        BY <1>7, <2>1 DEF Within
      <3>2. ~stream.float => Feeding(stream, g, p, CostTo(cell, last))
        BY <1>6, <1>7, <2>1 DEF Feeding
      <3> HIDE DEF cell
      <3>3. QED BY <1>1, <1>4, <1>6, <1>7, <1>8, <3>1, <3>2 DEF Within
    <2>3. QED BY <1>1, <2>1, <2>2 DEF Placed, TailNext
  <1>10. ASSUME last = n PROVE Placed(stream, g) /\ TailNext(stream, g)
    <2>1. g.need_new_block = TRUE
      BY <1>4, <1>10
    <2>2. g.budget = -1 /\ g.pos = BlockEnd(stream, p)
      <3>1. CASE stream.float
        BY <1>3, <1>7, <3>1 DEF Within
      <3>2. CASE ~stream.float
        <4>1. g = PayloadSkipped(c, p, cell.payload)
          BY <1>1, <1>3, <1>6, <1>10, <3>2
        <4>2. Feeding(stream, c, p, CostTo(cell, last))
          BY <1>6, <1>7, <3>2 DEF Feeding
        <4>3. CostTo(cell, last) \in Nat
          BY <1>1, <1>2, PayloadFacts, Costs
        <4>4. g.budget = -1 /\ g.pos = PayloadEnd(stream, p)
          BY <1>1, <1>7, <4>1, <4>2, <4>3, FeedingSkipped
        <4>5. QED BY <3>2, <4>4 DEF BlockEnd
      <3>3. QED BY <3>1, <3>2
    <2>3. g.samples_read = cell.first + n /\ cell.first + n \in Nat
      <3> HIDE DEF cell
      <3>1. QED BY <1>1, <1>8, <1>10
    <2> DEFINE m == cell.first + n b == BlockEnd(stream, p)
    <2> HIDE DEF m, b
    <2>4. m \in Nat /\ b \in Nat /\ GoesOn(stream, b, m) /\ g.samples_read = m /\ g.pos = b
          /\ b <= Len(stream.cells)
      BY <1>1, <2>2, <2>3 DEF m, b
    <2>5. /\ IsBlock(stream, b + 1) => Cell(stream, b + 1).first = m /\ m < Points(stream)
          /\ ~IsBlock(stream, b + 1) =>
               /\ m = Points(stream)
               /\ \A q \in DOMAIN stream.cells : q > b => ~IsBlock(stream, q)
               /\ \A q \in DOMAIN stream.cells : stream.cells[q].kind = "TAIL" => q = b + 1
      BY <2>4, GoesOnFacts
    <2>6. g.pos \in 0 .. Len(stream.cells)
      BY <2>4, StreamFacts
    <2>7. AtBoundary(stream, g)
      BY <2>2, <2>4, <2>5, <2>6 DEF AtBoundary
    <2>8. QED BY <2>1, <2>4, <2>5, <2>7 DEF Placed, TailNext
  <1>11. Placed(stream, g) /\ TailNext(stream, g)
    BY <1>9, <1>10
  <1>12. ASSUME Faithful(stream, e), NEW i \in 1 .. Len(frames)
         PROVE  frames[i] = e.samples_read + i
    <2> DEFINE j == at + i
    <2>1. i \in 1 .. ToRead(e, want) /\ frames[i] = FrameGiven(d, e, i)
      BY <1>3, <1>4, <1>12
    <2>2. j \in 0 .. last /\ j \in 1 .. n
      <3> DEFINE x == ToRead(e, want)
      <3>1. n \in Nat /\ at \in 0 .. n /\ last \in 0 .. n /\ last = at + x /\ x \in Nat /\ i \in 1 .. x
        BY <1>1, <1>2, <2>1 DEF last, at
      <3> HIDE DEF x
      <3>2. QED BY <3>1
    <2>3. e.live = e.block.stages /\ (stream.float => e.ready[j] = e.block.first + j)
      <3> HIDE DEF j
      <3>1. QED BY <1>1, <1>12, <2>2 DEF Faithful
    <2>4. FrameGiven(d, e, i) = cell.first + j
      <3>1. CASE stream.float
        BY <1>1, <2>3, <3>1 DEF FrameGiven, at
      <3>2. CASE ~stream.float
        <4>1. \A x \in 1 .. last + 1 : d.block.cost[x] \in Nat
          <5>1. \A x \in 1 .. n + 1 : cell.cost[x] \in Nat
            BY <1>1, PayloadFacts
          <5>2. \A x \in 1 .. last + 1 : x \in 1 .. n + 1
            BY <1>1, <1>2
          <5>3. QED BY <1>1, <1>7, <5>1, <5>2
        <4>2. last \in Nat
          BY <1>1, <1>2
        <4>3. d.live = d.block.stages /\ d.block = Cell(stream, p)
              /\ Feeding(stream, d, p, CostTo(d.block, last))
          BY <1>1, <1>6, <1>7, <2>3, <3>2
        <4> HIDE DEF j
        <4>4. FrameOf(d, j) = d.block.first + j
          BY <2>2, <4>1, <4>2, <4>3, FrameRight
        <4>5. FrameGiven(d, e, i) = FrameOf(d, j)
          BY <3>2 DEF FrameGiven, at, j
        <4>6. QED BY <1>1, <1>7, <4>4, <4>5
      <3>3. QED BY <3>1, <3>2
    <2>5. cell.first + (at + i) = e.samples_read + i
      <3> HIDE DEF cell
      <3>1. QED BY <1>1, <1>2, <2>1, SMTT(30)
    <2>6. QED BY <2>1, <2>4, <2>5
  <1>13. Faithful(stream, e) => Faithful(stream, g)
    BY <1>7 DEF Faithful
  <1>14. QED BY <1>11, <1>12, <1>13 DEF g, frames

-----------------------------------------------------------------------------
(* Iterations as a read and a seek see them *)

Handed(e, at, it, want) ==
  /\ EngineTyped(stream, it.eng)
  /\ it.frames \in Seq(Int) /\ Len(it.frames) \in 0 .. want
  /\ it.eng.samples_read = e.samples_read + Len(it.frames)
  /\ it.eng.comp_start = e.comp_start /\ it.eng.tail = e.tail
  /\ at.missing \in BOOLEAN
  /\ at.missing => Len(it.frames) = 0 /\ it.eng.errors = TRUE

LEMMA IterationTyped ==
  ASSUME stream \in Streams, NEW e, EngineTyped(stream, e), NEW at \in Entered(e), NEW want \in Nat
  PROVE  Handed(e, at, Iteration(at, want), want)
  <1> DEFINE it == Iteration(at, want)
  <1>1. Begun(e, at) /\ e.samples_read \in Nat /\ DOMAIN e = Fields
    BY EnteredTyped DEF EngineTyped
  <1>2. CASE at.missing
    <2>1. it.frames = <<>> /\ it.eng = at.eng /\ at.eng = MissingBlock(e) /\ e.need_new_block
      BY <1>1, <1>2 DEF Iteration, Begun
    <2> DEFINE d == MissingBlock(e)
    <2>2. /\ EngineTyped(stream, d) /\ d.errors = TRUE
          /\ Apart(d, e, {"pos", "budget", "errors"})
      BY <2>1, MissingTyped
    <2> HIDE DEF d
    <2>3. d.samples_read = e.samples_read /\ d.comp_start = e.comp_start /\ d.tail = e.tail
      BY <2>2 DEF Apart, Fields
    <2>4. it.eng = d /\ it.frames = <<>>
      BY <2>1 DEF d
    <2> HIDE DEF it
    <2>5. it.frames \in Seq(Int) /\ Len(it.frames) = 0
      BY <2>4
    <2>6. Len(it.frames) \in 0 .. want /\ e.samples_read = e.samples_read + Len(it.frames)
      BY <1>1, <2>5
    <2>7. QED BY <1>1, <2>2, <2>3, <2>4, <2>5, <2>6 DEF Handed, Begun, it
  <1>3. CASE ~at.missing
    <2> DEFINE d == at.eng
    <2>1. it = Delivered(d, want)
      BY <1>3 DEF Iteration
    <2>2. /\ DOMAIN d = Fields /\ InBlock(stream, d) /\ d.errors \in BOOLEAN
          /\ d.samples_read = e.samples_read /\ d.comp_start = e.comp_start /\ d.tail = e.tail
      BY <1>1, <1>3 DEF Begun
    <2> HIDE DEF it, d
    <2>3. /\ it.frames \in Seq(Int) /\ Len(it.frames) = ToRead(d, want)
          /\ EngineTyped(stream, it.eng)
          /\ it.eng.samples_read = d.samples_read + Len(it.frames)
          /\ Apart(it.eng, d, {"pos", "budget", "fed", "block_pos", "samples_read",
                               "need_new_block"})
      BY <1>1, <2>1, <2>2, DeliveredTyped
    <2>4. ToRead(d, want) \in 0 .. want
      BY <2>2, ToReadFacts
    <2>5. it.eng.comp_start = d.comp_start /\ it.eng.tail = d.tail
      BY <2>3 DEF Apart, Fields
    <2>6. QED BY <1>1, <1>3, <2>2, <2>3, <2>4, <2>5 DEF Handed, Begun, it
  <1>4. QED BY <1>2, <1>3

HandedRight(e, at, it) ==
  /\ Placed(stream, it.eng) /\ TailNext(stream, it.eng)
  /\ IF at.missing THEN e.samples_read = Points(stream) ELSE it.eng.errors = e.errors
  /\ OneConfiguration(stream) /\ Faithful(stream, e) =>
       /\ Faithful(stream, it.eng)
       /\ \A i \in 1 .. Len(it.frames) : it.frames[i] = e.samples_read + i

LEMMA IterationPlaced ==
  ASSUME stream \in Streams, LaidOut(stream), NEW e, EngineTyped(stream, e), Placed(stream, e),
         NEW at \in Entered(e), NEW want \in Nat
  PROVE  HandedRight(e, at, Iteration(at, want))
  <1> DEFINE it == Iteration(at, want)
  <1>1. /\ Begun(e, at) /\ e.samples_read \in Nat /\ EnteredRight(stream, e, at)
        /\ OneConfiguration(stream) /\ Faithful(stream, e) => Faithful(stream, at.eng)
    BY EnteredTyped, EnteredPlaced DEF EngineTyped
  <1>2. CASE at.missing
    <2> DEFINE d == at.eng
    <2>1. it.frames = <<>> /\ it.eng = d /\ d = MissingBlock(e) /\ e.need_new_block
      BY <1>1, <1>2 DEF Iteration, Begun
    <2>2. d.errors = TRUE /\ Apart(d, e, {"pos", "budget", "errors"})
      BY <2>1, MissingTyped
    <2>3. d.need_new_block = e.need_new_block
      BY <2>2 DEF Apart, Fields
    <2>4. AtBoundary(stream, d) /\ e.samples_read = Points(stream)
      BY <1>1, <1>2 DEF EnteredRight
    <2> HIDE DEF d, it
    <2>5. Placed(stream, d) /\ TailNext(stream, d)
      BY <2>1, <2>2, <2>3, <2>4 DEF Placed, TailNext
    <2>6. \A i \in 1 .. Len(it.frames) : FALSE
      <3>1. Len(it.frames) = 0
        BY <2>1
      <3>2. QED BY <3>1
    <2>7. QED BY <1>1, <1>2, <2>1, <2>4, <2>5, <2>6 DEF HandedRight, it, d
  <1>3. CASE ~at.missing
    <2> DEFINE d == at.eng
    <2>1. it = Delivered(d, want)
      BY <1>3 DEF Iteration
    <2>2. /\ DOMAIN d = Fields /\ InBlock(stream, d) /\ d.errors \in BOOLEAN
          /\ d.samples_read = e.samples_read /\ d.need_new_block = FALSE
      BY <1>1, <1>3 DEF Begun
    <2>3. d.errors = e.errors /\ \E p \in DOMAIN stream.cells : Within(stream, d, p)
      BY <1>1, <1>3 DEF EnteredRight
    <2> HIDE DEF it, d
    <2>4. PICK p : Within(stream, d, p)
      BY <2>3
    <2>5. /\ Placed(stream, it.eng) /\ TailNext(stream, it.eng)
          /\ Faithful(stream, d) =>
               /\ Faithful(stream, it.eng)
               /\ \A i \in 1 .. Len(it.frames) : it.frames[i] = d.samples_read + i
      BY <1>1, <2>1, <2>2, <2>4, DeliveredPlaced
    <2>6. it.eng.errors = d.errors
      <3>1. Apart(it.eng, d, {"pos", "budget", "fed", "block_pos", "samples_read",
                              "need_new_block"})
        BY <1>1, <2>1, <2>2, DeliveredTyped
      <3>2. QED BY <3>1 DEF Apart, Fields
    <2>7. QED BY <1>1, <1>3, <2>2, <2>3, <2>5, <2>6 DEF HandedRight, it, d
  <1>4. QED BY <1>2, <1>3

(* No place is behind the last frame.                                      *)
LEMMA PlacedFacts ==
  ASSUME stream \in Streams, LaidOut(stream), NEW e, EngineTyped(stream, e), Placed(stream, e)
  PROVE  /\ e.samples_read <= Points(stream)
         /\ ~e.need_new_block => e.samples_read < Points(stream)
  <1>1. Points(stream) \in Nat /\ e.samples_read \in Nat
    BY PointsType DEF EngineTyped
  <1>2. CASE e.need_new_block
    <2>1. AtBoundary(stream, e)
      BY <1>2 DEF Placed
    <2>2. CASE IsBlock(stream, e.pos + 1)
      <3>1. Cell(stream, e.pos + 1).first = e.samples_read
        BY <2>1, <2>2 DEF AtBoundary
      <3> DEFINE p == e.pos + 1 n == Cell(stream, p).first + FramesIn(stream, p)
      <3>2. BlockEnd(stream, p) \in Nat /\ GoesOn(stream, BlockEnd(stream, p), n)
        BY <2>2, BlockLaid
      <3>3. FramesIn(stream, p) \in Nat
        BY <2>2, BlockFacts
      <3>4. n \in Nat /\ e.samples_read <= n
        <4> DEFINE x == FramesIn(stream, p) y == Cell(stream, p).first
        <4>1. x \in Nat /\ y \in Nat /\ y = e.samples_read
          BY <1>1, <3>1, <3>3
        <4> HIDE DEF x, y
        <4>2. y + x \in Nat /\ y <= y + x
          BY <4>1
        <4>3. QED BY <4>1, <4>2 DEF x, y
      <3> HIDE DEF n
      <3>5. n <= Points(stream)
        BY <3>2, <3>4, GoesOnFacts
      <3>6. QED BY <1>1, <1>2, <3>4, <3>5
    <2>3. CASE ~IsBlock(stream, e.pos + 1)
      BY <1>1, <1>2, <2>1, <2>3 DEF AtBoundary
    <2>4. QED BY <2>2, <2>3
  <1>3. CASE ~e.need_new_block
    <2>1. PICK p : Within(stream, e, p)
      BY <1>3 DEF Placed
    <2> DEFINE n == FramesIn(stream, p) first == Cell(stream, p).first
    <2>2. /\ IsBlock(stream, p) /\ e.block = Cell(stream, p)
          /\ e.samples_read = first + e.block_pos /\ first \in Nat /\ n \in Nat
          /\ n = Size(stream, e.block)
      <3>1. p \in DOMAIN stream.cells /\ IsBlock(stream, p) /\ e.block = stream.cells[p]
            /\ e.samples_read = e.block.first + e.block_pos
        BY <2>1 DEF Within
      <3>2. QED BY <3>1, BlockFacts
    <2>3. BlockEnd(stream, p) \in Nat /\ GoesOn(stream, BlockEnd(stream, p), first + n)
      BY <2>2, BlockLaid
    <2>4. e.block_pos \in 0 .. n /\ e.block_pos < n
      BY <1>3, <2>2 DEF EngineTyped, InBlock
    <2> HIDE DEF n, first
    <2>5. first + n \in Nat /\ e.samples_read < first + n
      BY <2>2, <2>4
    <2>6. first + n <= Points(stream)
      BY <2>3, <2>5, GoesOnFacts
    <2>7. QED BY <1>1, <2>2, <2>4, <2>5, <2>6
  <1>4. QED BY <1>2, <1>3

(* A file that begins with its main header has that one found.             *)
LEMMA StartsAtOnce ==
  ASSUME stream.cells[1].kind = "OFR", 1 \in 1 .. Min({ScanLimit, Len(stream.cells)})
  PROVE  MainHeader(stream) = 1 /\ HeadAt(stream) = 2
  <1> DEFINE w == Min({ScanLimit, Len(stream.cells)})
  <1>1. FirstMagic(stream) =
          {p \in 1 .. w : /\ stream.cells[p].kind = "OFR"
                          /\ \A q \in 1 .. p - 1 : stream.cells[q].kind # "OFR"}
    BY DEF FirstMagic
  <1>2. 1 \in 1 .. w
    OBVIOUS
  <1> HIDE DEF w
  <1>3. 1 \in FirstMagic(stream)
    BY <1>1, <1>2
  <1>4. ASSUME NEW p \in FirstMagic(stream) PROVE p = 1
    <2>1. p \in 1 .. w /\ 1 \notin 1 .. p - 1
      BY <1>1, <1>4
    <2>2. QED BY <2>1
  <1>5. MainHeader(stream) = 1
    BY <1>3, <1>4 DEF MainHeader
  <1>6. QED BY <1>5 DEF HeadAt

(* The beginning of the blocks, after open and when a seek starts.         *)
LEMMA StartPlaced ==
  ASSUME stream \in Streams, LaidOut(stream)
  PROVE  /\ Opens /\ BodyStart(stream) \in 0 .. Len(stream.cells)
         /\ \A e : /\ e.pos = BodyStart(stream) /\ e.budget = -1 /\ e.samples_read = 0
                   /\ e.need_new_block = TRUE
                   => Placed(stream, e) /\ TailNext(stream, e)
  <1> DEFINE h == HeadAt(stream) start == BodyStart(stream)
  <1>1. LaidOut(stream) /\ Len(stream.cells) \in Nat /\ Points(stream) \in Nat
    BY StreamFacts, PointsType
  <1>2. /\ Cell(stream, h).kind = "HEAD" /\ start <= Len(stream.cells)
        /\ IF IsBlock(stream, start + 1) THEN Cell(stream, start + 1).first = 0
           ELSE GoesOn(stream, start, 0)
    BY <1>1 DEF LaidOut, BodyStart
  <1>3. Opens
    BY <1>2 DEF Opens, CellAt
  <1> HIDE DEF h, start
  <1>4. h \in DOMAIN stream.cells
    <2>1. Zero.kind # "HEAD"
      BY DEF Zero
    <2>2. QED BY <1>2, <2>1, CellFacts
  <1>5. Cell(stream, h).size \in Nat /\ h \in Nat
    <2>1. Cell(stream, h) = stream.cells[h]
      BY <1>4, CellFacts
    <2>2. QED BY <1>2, <1>4, <2>1, StreamsAssumption
  <1>6. start \in 0 .. Len(stream.cells)
    BY <1>1, <1>2, <1>5 DEF start, BodyStart, h
  <1>7. ASSUME NEW e, e.pos = start, e.budget = -1, e.samples_read = 0, e.need_new_block = TRUE
        PROVE  Placed(stream, e) /\ TailNext(stream, e)
    <2>1. CASE IsBlock(stream, start + 1)
      BY <1>1, <1>2, <1>6, <1>7, <2>1 DEF Placed, AtBoundary, TailNext
    <2>2. CASE ~IsBlock(stream, start + 1)
      <3>1. GoesOn(stream, start, 0) /\ start \in Nat
        BY <1>2, <1>6, <2>2
      <3>2. /\ 0 = Points(stream)
            /\ \A q \in DOMAIN stream.cells : q > start => ~IsBlock(stream, q)
            /\ \A q \in DOMAIN stream.cells : stream.cells[q].kind = "TAIL" => q = start + 1
        BY <2>2, <3>1, GoesOnFacts
      <3>3. QED BY <1>6, <1>7, <2>2, <3>2 DEF Placed, AtBoundary, TailNext
    <2>3. QED BY <2>1, <2>2
  <1>8. QED BY <1>3, <1>6, <1>7 DEF start

-----------------------------------------------------------------------------
(* The calls of the interface *)

LEMMA InstanceFacts ==
  ASSUME IInv
  PROVE  /\ stream \in Streams /\ noPoints \in Nat /\ noPoints <= stream.total
         /\ is_opened \in BOOLEAN /\ failedSeek \in BOOLEAN /\ tail_read \in BOOLEAN
         /\ points_read_so_far \in Int /\ slip \in Int /\ slip <= 0
         /\ points_read_so_far <= noPoints
  BY PointsType DEF IInv, Typed, noPoints

LEMMA OpenKeeps ==
  ASSUME IInv, OpenCall
  PROVE  IInv'
  <1> USE DEF OpenCall
  <1>1. /\ stream \in Streams /\ noPoints \in Nat /\ noPoints' = noPoints /\ stream' = stream
        /\ call = Idle /\ call' = Idle
    BY InstanceFacts DEF noPoints
  <1>2. result'.op # "read"
    OBVIOUS
  <1>3. call' \notin ReadCalls /\ call' \notin SeekCalls
    BY <1>1 DEF Idle, ReadCalls, SeekCalls
  <1>4. ShortReadTold' /\ InOrder'
    BY <1>2, <1>3 DEF ShortReadTold, InOrder
  <1>5. CASE Opens
    <2> DEFINE e == Opened
    <2>1. /\ EngineTyped(stream, e) /\ e.samples_read = 0 /\ e.errors = FALSE /\ e.tail = Zero
          /\ e.need_new_block = TRUE /\ e.budget = -1 /\ e.live = {}
          /\ e.pos = e.comp_start
          /\ e.pos = Min({BodyStart(stream), Len(stream.cells)})
      BY DEF Opened, EngineTyped, Fields, BodyStart, CellAt
    <2> HIDE DEF e
    <2>2. /\ is_opened' = TRUE /\ eng' = e /\ points_read_so_far' = 0 /\ tail_read' = FALSE
          /\ failedSeek' = FALSE /\ slip' = 0
      BY <1>5 DEF e
    <2>3. Typed'
      BY <1>1, <2>1, <2>2, InstanceFacts DEF Typed, IInv
    <2>4. Counted'
      BY <1>3, <2>1, <2>2 DEF Counted
    <2>5. TailKept'
      BY <2>1, <2>2 DEF TailKept
    <2>6. ASSUME LaidOut(stream)
          PROVE  e.pos = BodyStart(stream) /\ Placed(stream, e) /\ TailNext(stream, e)
      <3> DEFINE b == BodyStart(stream) len == Len(stream.cells)
      <3>1. b \in 0 .. len /\ len \in Nat
        BY <1>1, <2>6, StartPlaced, StreamFacts
      <3> HIDE DEF b, len
      <3>2. Min({b, len}) = b
        <4>1. Min({b, len}) = IF b < len THEN b ELSE len
          BY <3>1, MinOfTwo
        <4>2. QED BY <3>1, <4>1
      <3>3. e.pos = b
        BY <2>1, <3>2 DEF b, len
      <3>4. QED BY <1>1, <2>1, <2>6, <3>3, StartPlaced DEF b
    <2>7. OnTrack'
      BY <1>1, <2>2, <2>6 DEF OnTrack
    <2>8. Restorable'
      BY <1>1, <2>1, <2>2, <2>6 DEF Restorable, Faithful
    <2>9. QED BY <1>4, <2>3, <2>4, <2>5, <2>7, <2>8 DEF IInv
  <1>6. CASE ~Opens
    <2>1. is_opened' = FALSE /\ UNCHANGED <<points_read_so_far, tail_read, failedSeek, slip>>
      BY <1>6
    <2>2. QED BY <1>1, <1>3, <1>4, <2>1
              DEF IInv, Typed, Counted, Restorable, OnTrack, TailKept
  <1>7. QED BY <1>5, <1>6

LEMMA CloseKeeps ==
  ASSUME IInv, CloseCall
  PROVE  IInv'
  <1> USE DEF CloseCall
  <1>1. call' \notin ReadCalls /\ call' \notin SeekCalls /\ result'.op # "read"
    BY DEF Idle, ReadCalls, SeekCalls
  <1>2. noPoints' = noPoints
    BY DEF noPoints
  <1>3. QED BY <1>1, <1>2 DEF IInv, Typed, Counted, Restorable, OnTrack, TailKept, ShortReadTold, InOrder

LEMMA RefusedKeeps ==
  ASSUME IInv, RefusedCall
  PROVE  IInv'
  <1> USE DEF RefusedCall
  <1>1. call' \notin ReadCalls /\ call' \notin SeekCalls /\ result'.op # "read"
    BY DEF Idle, ReadCalls, SeekCalls
  <1>2. noPoints' = noPoints
    BY DEF noPoints
  <1>3. QED BY <1>1, <1>2 DEF IInv, Typed, Counted, Restorable, OnTrack, TailKept, ShortReadTold, InOrder

(* Between calls and not lost, the engine is where the instance says.      *)
LEMMA AtRest ==
  ASSUME IInv, call = Idle, is_opened, points_read_so_far < noPoints
  PROVE  /\ EngineTyped(stream, eng) /\ eng.samples_read = points_read_so_far - slip
         /\ LaidOut(stream) => Placed(stream, eng) /\ (tail_read \/ TailNext(stream, eng))
  <1>1. ~Lost
    BY InstanceFacts DEF Lost
  <1>2. QED BY <1>1 DEF IInv, Typed, Counted, OnTrack

LEMMA ReadKeeps ==
  ASSUME IInv, NEW n \in Nat, ReadCall(n)
  PROVE  IInv'
  <1> DEFINE points == Min({n, noPoints - points_read_so_far})
  <1>1. /\ points \in Nat /\ points <= noPoints - points_read_so_far
    <2> DEFINE m == noPoints - points_read_so_far
    <2>1. m \in Nat
      BY InstanceFacts
    <2> HIDE DEF m
    <2>2. Min({n, m}) = IF n < m THEN n ELSE m
      BY <2>1, MinOfTwo
    <2>3. Min({n, m}) \in Nat /\ Min({n, m}) <= m
      BY <2>1, <2>2
    <2>4. QED BY <2>3 DEF m
  <1> HIDE DEF points
  <1>2. /\ call = Idle /\ is_opened
        /\ UNCHANGED <<stream, eng, is_opened, tail_read, failedSeek, slip>>
        /\ noPoints' = noPoints
    BY DEF ReadCall, noPoints
  <1>3. CASE points = 0 \/ AtEnd(eng)
    <2>1. /\ points_read_so_far' = points_read_so_far + Len(<<>>) /\ call' = Idle
          /\ result' = [op |-> "read", frames |-> <<>>, asked |-> points]
      BY <1>3 DEF ReadCall, ReadReturns, points
    <2>2. points_read_so_far' = points_read_so_far
      <3>1. Len(<<>>) = 0
        OBVIOUS
      <3>2. QED BY <2>1, <3>1, InstanceFacts
    <2>3. call' \notin ReadCalls /\ call' \notin SeekCalls
      BY <2>1 DEF Idle, ReadCalls, SeekCalls
    <2>4. ShortReadTold'
      <3>1. ASSUME Len(result'.frames) < result'.asked PROVE slip' < 0
        <4>1. result'.frames = <<>> /\ result'.asked = points
          BY <2>1
        <4>2. 0 < points
          BY <1>1, <3>1, <4>1
        <4>3. AtEnd(eng) /\ points_read_so_far < noPoints
          BY <1>1, <1>3, <4>2, InstanceFacts
        <4>4. eng.samples_read = points_read_so_far - slip
          BY <1>2, <4>3, AtRest
        <4>5. eng.samples_read >= stream.total /\ stream.total \in Nat
          BY <4>3, InstanceFacts, StreamFacts DEF AtEnd
        <4>6. QED BY <1>2, <4>3, <4>4, <4>5, InstanceFacts
      <3>2. QED BY <3>1 DEF ShortReadTold
    <2>5. QED BY <1>2, <2>1, <2>2, <2>3, <2>4
              DEF IInv, Typed, Counted, Restorable, OnTrack, TailKept, InOrder, Lost
  <1>4. CASE ~(points = 0 \/ AtEnd(eng))
    <2>1. /\ call' = [op |-> "read", want |-> points, frames |-> <<>>, turn |-> 0]
          /\ UNCHANGED <<points_read_so_far, result>>
      BY <1>4 DEF ReadCall, points
    <2>2. call' \in ReadCalls /\ call' \notin SeekCalls /\ call' # Idle
      <3>1. call' \in ReadCalls
        BY <1>1, <2>1 DEF ReadCalls
      <3>2. QED BY <2>1, <3>1 DEF SeekCalls, Idle
    <2>3. points_read_so_far < noPoints /\ 0 < points
      BY <1>1, <1>4, InstanceFacts
    <2>4. /\ EngineTyped(stream, eng) /\ eng.samples_read = points_read_so_far - slip
          /\ LaidOut(stream) => Placed(stream, eng) /\ (tail_read \/ TailNext(stream, eng))
      BY <1>2, <2>3, AtRest
    <2>5. call'.frames = <<>> /\ call'.want = points /\ Len(call'.frames) = 0
      BY <2>1
    <2>6. Typed'
      BY <1>2, <2>1, <2>2 DEF IInv, Typed
    <2>7. Counted'
      BY <1>1, <1>2, <2>1, <2>2, <2>3, <2>4, <2>5, InstanceFacts DEF Counted
    <2>8. Restorable' /\ OnTrack' /\ TailKept' /\ ShortReadTold'
      BY <1>2, <2>1, <2>2, <2>4 DEF IInv, Restorable, OnTrack, TailKept, ShortReadTold
    <2>9. InOrder'
      BY <2>5 DEF InOrder
    <2>10. QED BY <2>6, <2>7, <2>8, <2>9 DEF IInv
  <1>5. QED BY <1>3, <1>4

LEMMA ConcatFacts ==
  ASSUME NEW S, NEW a \in Seq(S), NEW b \in Seq(S)
  PROVE  /\ a \o b \in Seq(S) /\ Len(a \o b) = Len(a) + Len(b)
         /\ Len(a) \in Nat /\ Len(b) \in Nat
         /\ \A i \in 1 .. Len(a) : (a \o b)[i] = a[i]
         /\ \A i \in 1 .. Len(a) + Len(b) :
              i > Len(a) => i - Len(a) \in 1 .. Len(b) /\ (a \o b)[i] = b[i - Len(a)]
  OBVIOUS

(* Who reads is in order, and so is the engine.                            *)
LEMMA InRead ==
  ASSUME IInv, call.op = "read"
  PROVE  /\ call \in ReadCalls /\ is_opened /\ call # Idle /\ call \notin SeekCalls
         /\ call.want \in Nat /\ call.frames \in Seq(Int) /\ call.turn \in {0, 1}
         /\ Len(call.frames) \in Nat /\ Len(call.frames) < call.want
         /\ call.want <= noPoints - points_read_so_far
         /\ EngineTyped(stream, eng)
         /\ eng.samples_read = points_read_so_far - slip + Len(call.frames)
         /\ LaidOut(stream) => Placed(stream, eng)
  <1>1. call \in ReadCalls /\ call # Idle /\ call \notin SeekCalls
    BY DEF IInv, Typed, Idle, SeekCalls
  <1>2. call.want \in Nat /\ call.frames \in Seq(Int) /\ call.turn \in {0, 1}
        /\ Len(call.frames) \in Nat
    BY <1>1 DEF ReadCalls
  <1>3. is_opened /\ EngineTyped(stream, eng)
    BY <1>1 DEF IInv, Typed
  <1>4. QED BY <1>1, <1>2, <1>3 DEF IInv, Counted, OnTrack

LEMMA ReadStepKeeps ==
  ASSUME IInv, ReadStep
  PROVE  /\ IInv'
         /\ \/ call' # Idle /\ UNCHANGED <<points_read_so_far, result>>
            \/ \E frames \in Seq(Int) :
                 /\ ReadReturns(frames, call.want) /\ Len(frames) <= call.want
                 /\ LaidOut(stream) =>
                      /\ OneConfiguration(stream) =>
                           \A i \in 1 .. Len(frames) : frames[i] = points_read_so_far - slip + i
                      /\ Len(frames) <= noPoints - (points_read_so_far - slip)
                      /\ \/ Len(frames) = call.want
                         \/ points_read_so_far + Len(frames) - slip = noPoints
  <1> DEFINE want == call.want - Len(call.frames)
  <1>1. /\ call \in ReadCalls /\ is_opened /\ call # Idle /\ call \notin SeekCalls
        /\ call.want \in Nat /\ call.frames \in Seq(Int) /\ call.turn \in {0, 1}
        /\ Len(call.frames) \in Nat /\ Len(call.frames) < call.want
        /\ call.want <= noPoints - points_read_so_far
        /\ EngineTyped(stream, eng)
        /\ eng.samples_read = points_read_so_far - slip + Len(call.frames)
        /\ LaidOut(stream) => Placed(stream, eng)
    BY InRead DEF ReadStep
  <1>2. want \in Nat /\ want > 0
    BY <1>1
  <1>3. PICK at \in Entered(eng) :
          LET it == Iteration(at, want) frames == call.frames \o it.frames
          IN /\ eng' = it.eng
             /\ IF at.missing \/ Len(frames) = call.want \/ AtEnd(it.eng)
                THEN ReadReturns(frames, call.want)
                ELSE /\ call' = [call EXCEPT !.frames = frames, !.turn = 1 - @]
                     /\ UNCHANGED <<points_read_so_far, result>>
    BY DEF ReadStep
  <1> DEFINE it == Iteration(at, want) frames == call.frames \o it.frames
  <1>4. UNCHANGED <<stream, is_opened, tail_read, failedSeek, slip>> /\ noPoints' = noPoints
    BY DEF ReadStep, noPoints
  <1>5. Handed(eng, at, it, want)
    BY <1>1, <1>2, IterationTyped, InstanceFacts
  <1>6. LaidOut(stream) => HandedRight(eng, at, it)
    BY <1>1, <1>2, IterationPlaced, InstanceFacts
  <1>7. /\ eng' = it.eng
        /\ IF at.missing \/ Len(frames) = call.want \/ AtEnd(it.eng)
           THEN ReadReturns(frames, call.want)
           ELSE /\ call' = [call EXCEPT !.frames = frames, !.turn = 1 - @]
                /\ UNCHANGED <<points_read_so_far, result>>
    BY <1>3
  <1> HIDE DEF it, want
  <1>8. /\ frames \in Seq(Int) /\ Len(frames) = Len(call.frames) + Len(it.frames)
        /\ Len(frames) \in Nat /\ Len(it.frames) \in Nat /\ Len(frames) <= call.want
        /\ \A i \in 1 .. Len(call.frames) : frames[i] = call.frames[i]
        /\ \A i \in 1 .. Len(frames) :
             i > Len(call.frames) => /\ i - Len(call.frames) \in 1 .. Len(it.frames)
                                     /\ frames[i] = it.frames[i - Len(call.frames)]
    <2>1. it.frames \in Seq(Int) /\ Len(it.frames) \in 0 .. want
      BY <1>5 DEF Handed
    <2>2. /\ frames \in Seq(Int) /\ Len(frames) = Len(call.frames) + Len(it.frames)
          /\ \A i \in 1 .. Len(call.frames) : frames[i] = call.frames[i]
          /\ \A i \in 1 .. Len(frames) :
               i > Len(call.frames) => /\ i - Len(call.frames) \in 1 .. Len(it.frames)
                                       /\ frames[i] = it.frames[i - Len(call.frames)]
      <3> DEFINE a == call.frames b == it.frames
      <3>1. a \in Seq(Int) /\ b \in Seq(Int) /\ frames = a \o b
        BY <1>1, <2>1
      <3> HIDE DEF a, b, frames
      <3>2. /\ frames \in Seq(Int) /\ Len(frames) = Len(a) + Len(b)
            /\ \A i \in 1 .. Len(a) : frames[i] = a[i]
            /\ \A i \in 1 .. Len(a) + Len(b) :
                 i > Len(a) => i - Len(a) \in 1 .. Len(b) /\ frames[i] = b[i - Len(a)]
        BY <3>1, ConcatFacts
      <3>3. QED BY <3>2 DEF a, b
    <2>3. Len(it.frames) \in Nat /\ Len(it.frames) <= want
      BY <1>2, <2>1
    <2> DEFINE x == Len(it.frames) y == Len(call.frames) z == Len(frames)
    <2>4. x \in Nat /\ y \in Nat /\ z = y + x /\ x <= want /\ want = call.want - y /\ call.want \in Nat
      BY <1>1, <2>2, <2>3 DEF want
    <2> HIDE DEF x, y, z
    <2>5. z \in Nat /\ z <= call.want
      BY <2>4
    <2>6. QED BY <2>2, <2>3, <2>5 DEF z
  <1> HIDE DEF frames
  <1>9. /\ eng'.samples_read = points_read_so_far - slip + Len(frames)
        /\ EngineTyped(stream, eng') /\ eng'.comp_start = eng.comp_start /\ eng'.tail = eng.tail
        /\ at.missing => eng'.errors = TRUE /\ Len(frames) = Len(call.frames)
    <2>1. /\ eng'.samples_read = eng.samples_read + Len(it.frames) /\ EngineTyped(stream, eng')
          /\ eng'.comp_start = eng.comp_start /\ eng'.tail = eng.tail
          /\ at.missing => eng'.errors = TRUE /\ Len(it.frames) = 0
      BY <1>5, <1>7 DEF Handed
    <2> DEFINE x == Len(it.frames) y == Len(call.frames) z == Len(frames)
    <2>2. x \in Nat /\ y \in Nat /\ z = y + x /\ points_read_so_far \in Int /\ slip \in Int
          /\ eng.samples_read = points_read_so_far - slip + y
          /\ eng'.samples_read = eng.samples_read + x
      BY <1>1, <1>8, <2>1, InstanceFacts
    <2> HIDE DEF x, y, z
    <2>3. eng'.samples_read = points_read_so_far - slip + z /\ (x = 0 => z = y)
      BY <2>2
    <2>4. QED BY <2>1, <2>3 DEF x, y, z
  <1>10. LaidOut(stream) =>
           /\ Placed(stream, eng') /\ TailNext(stream, eng')
           /\ OneConfiguration(stream) => Faithful(stream, eng')
           /\ eng'.errors => slip < 0
    <2>1. ASSUME LaidOut(stream)
          PROVE  /\ Placed(stream, eng') /\ TailNext(stream, eng')
                 /\ OneConfiguration(stream) => Faithful(stream, eng')
                 /\ eng'.errors => slip < 0
      <3>1. /\ Placed(stream, eng') /\ TailNext(stream, eng')
            /\ IF at.missing THEN eng.samples_read = Points(stream) ELSE eng'.errors = eng.errors
            /\ OneConfiguration(stream) /\ Faithful(stream, eng) => Faithful(stream, eng')
        BY <1>6, <1>7, <2>1 DEF HandedRight
      <3>2. /\ OneConfiguration(stream) => Faithful(stream, eng)
            /\ eng.errors => slip < 0
        BY <1>1, <2>1 DEF IInv, Restorable
      <3>3. at.missing => slip < 0
        <4>1. ASSUME at.missing PROVE slip < 0
          <5>1. eng.samples_read = noPoints
            BY <3>1, <4>1 DEF noPoints
          <5> DEFINE y == Len(call.frames)
          <5>2. /\ y \in Nat /\ y < call.want /\ call.want \in Nat
                /\ call.want <= noPoints - points_read_so_far
                /\ noPoints = points_read_so_far - slip + y
                /\ noPoints \in Nat /\ points_read_so_far \in Int /\ slip \in Int
            BY <1>1, <5>1, InstanceFacts
          <5> HIDE DEF y
          <5>3. QED BY <5>2
        <4>2. QED BY <4>1
      <3>4. QED BY <3>1, <3>2, <3>3
    <2>2. QED BY <2>1
  <1>11. OnTrack'
    BY <1>4, <1>10 DEF OnTrack
  <1>12. TailKept'
    BY <1>1, <1>4, <1>9 DEF IInv, TailKept
  <1>13. LaidOut(stream) => eng'.comp_start = BodyStart(stream)
    BY <1>1, <1>9 DEF IInv, Restorable
  <1>14. ASSUME LaidOut(stream), OneConfiguration(stream), NEW i \in 1 .. Len(frames)
         PROVE  frames[i] = points_read_so_far - slip + i
    <2>1. CASE i <= Len(call.frames)
      <3> DEFINE y == Len(call.frames)
      <3>1. y \in Nat /\ i \in Nat /\ i >= 1 /\ i <= y
        BY <1>1, <1>8, <2>1
      <3> HIDE DEF y
      <3>2. i \in 1 .. y
        BY <3>1
      <3> USE DEF y
      <3>3. frames[i] = call.frames[i]
        BY <1>8, <3>2
      <3>4. QED BY <1>1, <1>14, <3>2, <3>3 DEF IInv, InOrder
    <2>2. CASE i > Len(call.frames)
      <3> DEFINE y == Len(call.frames) j == i - y
      <3>1. j \in 1 .. Len(it.frames) /\ frames[i] = it.frames[j]
        BY <1>8, <2>2
      <3>2. Faithful(stream, eng)
        BY <1>1, <1>14 DEF IInv, Restorable
      <3>3. \A k \in 1 .. Len(it.frames) : it.frames[k] = eng.samples_read + k
        BY <1>6, <1>14, <3>2 DEF HandedRight
      <3>4. it.frames[j] = eng.samples_read + j
        <4> HIDE DEF j
        <4>1. QED BY <3>1, <3>3
      <3>5. eng.samples_read = points_read_so_far - slip + y /\ y \in Nat /\ i \in Int
        BY <1>1
      <3> HIDE DEF y
      <3>6. eng.samples_read + (i - y) = points_read_so_far - slip + i
        BY <3>5, InstanceFacts
      <3>7. QED BY <3>1, <3>4, <3>6
    <2>3. QED BY <1>1, <2>1, <2>2
  <1>15. CASE at.missing \/ Len(frames) = call.want \/ AtEnd(it.eng)
    <2>1. /\ points_read_so_far' = points_read_so_far + Len(frames) /\ call' = Idle
          /\ result' = [op |-> "read", frames |-> frames, asked |-> call.want]
      BY <1>7, <1>15 DEF ReadReturns, frames
    <2>2. call' \notin ReadCalls /\ call' \notin SeekCalls
      BY <2>1 DEF Idle, ReadCalls, SeekCalls
    <2>3. points_read_so_far' \in Int /\ points_read_so_far' <= noPoints
          /\ eng'.samples_read = points_read_so_far' - slip
      <3> DEFINE z == Len(frames)
      <3>1. /\ z \in Nat /\ z <= call.want /\ points_read_so_far' = points_read_so_far + z
            /\ eng'.samples_read = points_read_so_far - slip + z
        BY <1>8, <1>9, <2>1
      <3> HIDE DEF z
      <3>2. QED BY <1>1, <3>1, InstanceFacts
    <2>4. ShortReadTold'
      <3>1. result'.frames = frames /\ result'.asked = call.want
        BY <2>1
      <3>2. ASSUME Len(frames) < call.want PROVE eng'.errors \/ slip < 0
        <4>1. CASE at.missing
          BY <1>9, <4>1
        <4>2. CASE AtEnd(it.eng)
          <5>1. eng'.samples_read >= stream.total /\ stream.total \in Nat
            BY <1>7, <4>2, InstanceFacts, StreamFacts DEF AtEnd
          <5> DEFINE z == Len(frames)
          <5>2. z \in Nat /\ z < call.want /\ eng'.samples_read = points_read_so_far - slip + z
            BY <1>8, <1>9, <3>2
          <5> HIDE DEF z
          <5>3. slip < 0
            BY <1>1, <5>1, <5>2, InstanceFacts
          <5>4. QED BY <5>3
        <4>3. CASE Len(frames) = call.want
          <5> DEFINE z == Len(frames)
          <5>1. z \in Nat /\ z < call.want /\ z = call.want
            BY <1>8, <3>2, <4>3
          <5> HIDE DEF z
          <5>2. QED BY <5>1
        <4>4. QED BY <1>15, <4>1, <4>2, <4>3
      <3>3. QED BY <1>4, <3>1, <3>2 DEF ShortReadTold
    <2>5. Typed'
      BY <1>1, <1>4, <1>9, <2>1, <2>3 DEF IInv, Typed
    <2>6. Counted' /\ InOrder'
      BY <1>4, <2>1, <2>2, <2>3 DEF Counted, InOrder
    <2>7. Restorable'
      BY <1>4, <1>10, <1>13, <2>2 DEF Restorable
    <2>8. IInv'
      BY <1>11, <1>12, <2>4, <2>5, <2>6, <2>7 DEF IInv
    <2>9. ReadReturns(frames, call.want)
      BY <1>7, <1>15 DEF frames
    <2>10. ASSUME LaidOut(stream)
           PROVE  /\ Len(frames) <= noPoints - (points_read_so_far - slip)
                  /\ \/ Len(frames) = call.want
                     \/ points_read_so_far + Len(frames) - slip = noPoints
      <3> DEFINE z == Len(frames) y == Len(call.frames)
      <3>1. eng'.samples_read <= noPoints
        BY <1>9, <1>10, <2>10, PlacedFacts, InstanceFacts DEF noPoints
      <3>2. /\ z \in Nat /\ y \in Nat /\ eng'.samples_read = points_read_so_far - slip + z
            /\ eng.samples_read = points_read_so_far - slip + y
        BY <1>1, <1>8, <1>9
      <3>3. at.missing => eng.samples_read = noPoints /\ z = y
        BY <1>6, <1>9, <2>10 DEF HandedRight, noPoints
      <3>4. AtEnd(it.eng) => eng'.samples_read >= stream.total
        BY <1>7 DEF AtEnd
      <3> HIDE DEF z, y
      <3>5. at.missing \/ AtEnd(it.eng) => points_read_so_far + z - slip = noPoints
        BY <3>1, <3>2, <3>3, <3>4, InstanceFacts, StreamFacts, SMTT(30)
      <3>6. z <= noPoints - (points_read_so_far - slip)
        BY <3>1, <3>2, InstanceFacts
      <3>7. QED BY <1>15, <3>5, <3>6 DEF z
    <2>11. QED BY <1>8, <1>14, <2>8, <2>9, <2>10
  <1>16. CASE ~(at.missing \/ Len(frames) = call.want \/ AtEnd(it.eng))
    <2>1. /\ call' = [call EXCEPT !.frames = frames, !.turn = 1 - @]
          /\ UNCHANGED <<points_read_so_far, result>>
      BY <1>7, <1>16 DEF frames
    <2>2. /\ call' \in ReadCalls /\ call'.frames = frames /\ call'.want = call.want
      <3>1. 1 - call.turn \in {0, 1}
        BY <1>1
      <3>2. QED BY <1>1, <1>8, <2>1, <3>1 DEF ReadCalls
    <2>3. call' \notin SeekCalls /\ call' # Idle
      BY <2>2 DEF ReadCalls, SeekCalls, Idle
    <2>4. Typed'
      BY <1>1, <1>4, <1>9, <2>1, <2>2 DEF IInv, Typed
    <2>5. Counted'
      <3>1. Len(call'.frames) < call'.want
        <4> DEFINE z == Len(frames)
        <4>1. z \in Nat /\ z <= call.want /\ call.want \in Nat /\ z # call.want
          BY <1>1, <1>8, <1>16
        <4> HIDE DEF z
        <4>2. z < call.want
          BY <4>1
        <4>3. QED BY <2>2, <4>2 DEF z
      <3>2. QED BY <1>1, <1>4, <1>9, <2>1, <2>2, <2>3, <3>1 DEF Counted
    <2>6. Restorable' /\ ShortReadTold'
      BY <1>4, <1>10, <1>13, <2>3 DEF Restorable, ShortReadTold
    <2>7. InOrder'
      BY <1>4, <1>14, <2>1, <2>2 DEF InOrder
    <2>8. IInv'
      BY <1>11, <1>12, <2>4, <2>5, <2>6, <2>7 DEF IInv
    <2>9. QED BY <2>1, <2>3, <2>8
  <1>17. QED BY <1>15, <1>16

LEMMA TargetFacts ==
  ASSUME stream \in Streams, NEW point \in Int
  PROVE  /\ SeekTarget(point) \in Nat /\ SeekTarget(point) <= noPoints
         /\ Min({point, 0}) = IF point < 0 THEN point ELSE 0
         /\ point <= noPoints => SeekTarget(point) = point - Min({point, 0})
         /\ noPoints <= point => SeekTarget(point) = noPoints
  <1> DEFINE n == noPoints m == Min({point, n}) t == SeekTarget(point) low == Min({point, 0})
  <1>1. n \in Nat /\ n = stream.total \div stream.channels
    BY PointsType DEF noPoints, Points
  <1>2. t = Max({0, m})
    BY <1>1 DEF SeekTarget
  <1> HIDE DEF n, t
  <1>3. m = IF point < n THEN point ELSE n
    BY <1>1, MinOfTwo
  <1>4. low = IF point < 0 THEN point ELSE 0
    BY MinOfTwo
  <1> HIDE DEF m, low
  <1>5. m \in Int
    BY <1>1, <1>3
  <1>6. Max({0, m}) = IF 0 < m THEN m ELSE 0
    BY <1>5, MaxOfTwo
  <1>7. /\ t \in Nat /\ t <= n
        /\ point <= n => t = point - low
        /\ n <= point => t = n
    BY <1>1, <1>2, <1>3, <1>4, <1>6
  <1>8. QED BY <1>4, <1>7 DEF n, t, low

(* What a seek leaves of the engine, and what it leaves when it succeeds.  *)
SeekLeaves(e) ==
  /\ EngineTyped(stream, e) /\ e.tail = eng.tail
  /\ LaidOut(stream) => /\ e.comp_start = BodyStart(stream)
                        /\ OneConfiguration(stream) => Faithful(stream, e)

SeekArrives(e) ==
  LaidOut(stream) => Placed(stream, e) /\ (tail_read \/ TailNext(stream, e)) /\ ~e.errors

LEMMA SeekReturnsKeeps ==
  ASSUME IInv, is_opened, NEW point \in Int, NEW ok \in BOOLEAN, NEW e, SeekLeaves(e),
         ok => SeekArrives(e) /\ e.samples_read = SeekTarget(point) /\ point <= noPoints,
         ~ok /\ LaidOut(stream) /\ e.errors => slip < 0,
         eng' = e, SeekReturns(point, ok), UNCHANGED <<stream, is_opened, tail_read>>
  PROVE  IInv'
  <1>1. /\ points_read_so_far' = IF ok THEN point ELSE noPoints
        /\ failedSeek' = (failedSeek \/ ~ok)
        /\ slip' = IF ok THEN Min({point, 0}) ELSE slip
        /\ result' = [op |-> "seek", point |-> point, ok |-> ok]
        /\ call' = Idle /\ noPoints' = noPoints
    BY DEF SeekReturns, noPoints
  <1>2. call' \notin ReadCalls /\ call' \notin SeekCalls /\ result'.op # "read"
    BY <1>1 DEF Idle, ReadCalls, SeekCalls
  <1>3. ShortReadTold' /\ InOrder'
    BY <1>2 DEF ShortReadTold, InOrder
  <1>4. /\ Min({point, 0}) = IF point < 0 THEN point ELSE 0
        /\ point <= noPoints => SeekTarget(point) = point - Min({point, 0})
    BY TargetFacts, InstanceFacts
  <1>5. slip' \in Int /\ slip' <= 0 /\ points_read_so_far' \in Int /\ points_read_so_far' <= noPoints
        /\ failedSeek' \in BOOLEAN
    BY <1>1, <1>4, InstanceFacts
  <1>6. Typed'
    BY <1>1, <1>5, InstanceFacts DEF Typed, SeekLeaves
  <1>7. ~ok => Lost'
    BY <1>1 DEF Lost
  <1>8. Counted'
    BY <1>1, <1>2, <1>4, <1>7 DEF Counted
  <1>9. Restorable'
    BY <1>1, <1>2 DEF Restorable, SeekLeaves, SeekArrives
  <1>10. OnTrack'
    BY <1>1, <1>7 DEF OnTrack, SeekArrives
  <1>11. TailKept'
    BY <1>1 DEF IInv, TailKept, SeekLeaves
  <1>12. QED BY <1>3, <1>6, <1>8, <1>9, <1>10, <1>11 DEF IInv

(* A seek that goes on reading, or has arrived: it never fails here.       *)
LEMMA SeekContinuesKeeps ==
  ASSUME IInv, is_opened, NEW point \in Int, stream.seekable,
         point * stream.channels < stream.total, NEW turn \in {0, 1},
         NEW e, SeekLeaves(e), SeekArrives(e), e.samples_read <= SeekTarget(point),
         eng' = e, SeekContinues(point, e, turn), UNCHANGED <<stream, is_opened, tail_read>>
  PROVE  /\ IInv'
         /\ \/ call' # Idle /\ UNCHANGED <<points_read_so_far, failedSeek, slip, result>>
            \/ SeekReturns(point, TRUE)
  <1> DEFINE t == SeekTarget(point) m == t - e.samples_read want == Min({Chunk, m})
  <1>1. /\ t \in Nat /\ t <= noPoints /\ noPoints <= stream.total /\ noPoints \in Nat
        /\ stream.total \in Nat /\ e.samples_read \in Nat /\ e.samples_read <= t
        /\ point <= noPoints
    BY TargetFacts, InstanceFacts, StreamFacts, PointsType DEF SeekLeaves, EngineTyped, noPoints
  <1>2. Chunk \in Nat \ {0}
    BY SessionAssumption
  <1> HIDE DEF t
  <1>3. m \in Nat /\ want = IF Chunk < m THEN Chunk ELSE m
    <2>1. m \in Nat
      BY <1>1
    <2> HIDE DEF m
    <2>2. QED BY <1>2, <2>1, MinOfTwo
  <1> HIDE DEF want
  <1>4. CASE want > 0 /\ ~AtEnd(e)
    <2>1. /\ call' = [op |-> "seek", point |-> point, want |-> want, got |-> 0, turn |-> turn]
          /\ UNCHANGED <<points_read_so_far, failedSeek, slip, result>>
      BY <1>4 DEF SeekContinues, want, t
    <2>2. want \in Nat /\ 0 < want /\ e.samples_read + (want - 0) <= t
      BY <1>1, <1>2, <1>3, <1>4
    <2>3. call' \in SeekCalls
      <3>1. 0 \in Nat
        OBVIOUS
      <3>2. QED BY <2>1, <2>2, <3>1 DEF SeekCalls
    <2>4. call' \notin ReadCalls /\ call' # Idle
      BY <2>3 DEF ReadCalls, SeekCalls, Idle
    <2>5. noPoints' = noPoints
      BY DEF noPoints
    <2>6. Typed'
      BY <2>1, <2>3, <2>5, InstanceFacts DEF Typed, SeekLeaves
    <2>7. Counted'
      <3>1. call'.point = point /\ call'.want = want /\ call'.got = 0
        BY <2>1
      <3>2. SeekTarget(point)' = t
        BY DEF SeekTarget, t
      <3>3. QED BY <2>2, <2>4, <3>1, <3>2 DEF Counted, SeekTarget, t
    <2>8. Restorable' /\ OnTrack'
      BY <2>1 DEF Restorable, OnTrack, SeekLeaves, SeekArrives
    <2>9. TailKept' /\ ShortReadTold' /\ InOrder'
      BY <2>1, <2>4, <2>5 DEF IInv, TailKept, SeekLeaves, ShortReadTold, InOrder
    <2>10. QED BY <2>1, <2>4, <2>6, <2>7, <2>8, <2>9 DEF IInv
  <1>5. CASE ~(want > 0 /\ ~AtEnd(e))
    <2>1. SeekReturns(point, e.samples_read = t)
      BY <1>5 DEF SeekContinues, want, t
    <2>2. e.samples_read = t
      <3>1. CASE ~(want > 0)
        BY <1>1, <1>2, <1>3, <3>1
      <3>2. CASE AtEnd(e)
        BY <1>1, <3>2 DEF AtEnd
      <3>3. QED BY <1>5, <3>1, <3>2
    <2>3. (e.samples_read = t) = TRUE
      BY <2>2
    <2>4. SeekReturns(point, TRUE)
      BY <2>1, <2>3
    <2>5. IInv'
      BY <1>1, <2>2, <2>4, SeekReturnsKeeps DEF t
    <2>6. QED BY <2>4, <2>5
  <1>6. QED BY <1>4, <1>5

LEMMA RewoundFacts ==
  ASSUME IInv, is_opened
  PROVE  LET e == Rewound(eng)
         IN SeekLeaves(e) /\ SeekArrives(e) /\ e.samples_read = 0
  <1> DEFINE e == Rewound(eng)
  <1>1. DOMAIN eng = Fields /\ EngineTyped(stream, eng) /\ stream \in Streams
    BY DEF IInv, Typed, EngineTyped
  <1>2. /\ DOMAIN e = Fields /\ e.pos = eng.comp_start /\ e.budget = -1 /\ e.need_new_block = TRUE
        /\ e.samples_read = 0 /\ e.errors = FALSE /\ e.tail = eng.tail /\ e.live = eng.live
        /\ e.comp_start = eng.comp_start
    BY <1>1 DEF Rewound, Fields
  <1> HIDE DEF e
  <1>3. EngineTyped(stream, e)
    <2>1. e.samples_read \in Nat /\ e.need_new_block \in BOOLEAN /\ e.errors \in BOOLEAN
      <3>1. 0 \in Nat /\ TRUE \in BOOLEAN /\ FALSE \in BOOLEAN
        OBVIOUS
      <3>2. e.samples_read = 0 /\ e.need_new_block = TRUE /\ e.errors = FALSE
        BY <1>2
      <3>3. QED BY <3>1, <3>2, Zenon
    <2>2. QED BY <1>2, <2>1 DEF EngineTyped
  <1>4. ASSUME LaidOut(stream)
        PROVE  /\ e.comp_start = BodyStart(stream) /\ e.pos = BodyStart(stream)
               /\ OneConfiguration(stream) => Faithful(stream, e)
    BY <1>2, <1>4 DEF IInv, Restorable, Faithful
  <1>5. LaidOut(stream) => Placed(stream, e) /\ TailNext(stream, e)
    BY <1>1, <1>2, <1>4, StartPlaced
  <1>6. QED BY <1>2, <1>3, <1>4, <1>5 DEF SeekLeaves, SeekArrives, e

LEMMA SeekKeeps ==
  ASSUME IInv, NEW point \in Int, SeekCall(point)
  PROVE  IInv'
  <1>1. call = Idle /\ is_opened /\ UNCHANGED <<stream, is_opened, tail_read>>
    BY DEF SeekCall
  <1>2. CASE /\ Reachable(point)
           /\ eng' = Rewound(eng) /\ SeekContinues(point, Rewound(eng), 0)
    <2> DEFINE e == Rewound(eng)
    <2>1. /\ eng' = e /\ SeekContinues(point, e, 0)
          /\ point * stream.channels < stream.total /\ stream.seekable
      BY <1>2 DEF Reachable
    <2>2. SeekLeaves(e) /\ SeekArrives(e) /\ e.samples_read = 0
      BY <1>1, RewoundFacts
    <2> HIDE DEF e
    <2>3. e.samples_read <= SeekTarget(point) /\ 0 \in {0, 1}
      <3> DEFINE t == SeekTarget(point)
      <3>1. t \in Nat
        BY TargetFacts, InstanceFacts
      <3> HIDE DEF t
      <3>2. 0 <= t
        BY <3>1
      <3>3. QED BY <2>2, <3>2 DEF t
    <2>4. QED BY <1>1, <1>2, <2>1, <2>2, <2>3, SeekContinuesKeeps
  <1>3. CASE SeekReturns(point, FALSE) /\ UNCHANGED eng
    <2>1. eng' = eng /\ SeekReturns(point, FALSE)
      BY <1>3
    <2>2. SeekLeaves(eng) /\ (LaidOut(stream) /\ eng.errors => slip < 0)
      BY <1>1 DEF IInv, Typed, Restorable, SeekLeaves
    <2>3. QED BY <1>1, <2>1, <2>2, SeekReturnsKeeps
  <1>4. QED BY <1>2, <1>3 DEF SeekCall

LEMMA InSeek ==
  ASSUME IInv, call.op = "seek"
  PROVE  /\ call \in SeekCalls /\ is_opened /\ call # Idle /\ call \notin ReadCalls
         /\ call.point \in Int /\ call.want \in Nat /\ call.got \in Nat /\ call.turn \in {0, 1}
         /\ stream.seekable /\ call.point * stream.channels < stream.total
         /\ call.got < call.want
         /\ EngineTyped(stream, eng)
         /\ eng.samples_read + (call.want - call.got) <= SeekTarget(call.point)
         /\ LaidOut(stream) => Placed(stream, eng) /\ ~eng.errors
  <1>1. call \in SeekCalls /\ call # Idle /\ call \notin ReadCalls
    BY DEF IInv, Typed, Idle, ReadCalls
  <1>2. call.point \in Int /\ call.want \in Nat /\ call.got \in Nat /\ call.turn \in {0, 1}
    BY <1>1 DEF SeekCalls
  <1>3. is_opened /\ EngineTyped(stream, eng)
    BY <1>1 DEF IInv, Typed
  <1>4. QED BY <1>1, <1>2, <1>3 DEF IInv, Counted, OnTrack, Restorable

(* A seek on such a file never fails on its way.                           *)
LEMMA SeekStepKeeps ==
  ASSUME IInv, SeekStep
  PROVE  /\ IInv'
         /\ \/ call' # Idle /\ UNCHANGED <<points_read_so_far, failedSeek, slip, result>>
            \/ \E ok \in BOOLEAN : SeekReturns(call.point, ok) /\ (ok \/ ~LaidOut(stream))
  <1> DEFINE want == call.want - call.got
             t == SeekTarget(call.point)
  <1>1. /\ call \in SeekCalls /\ is_opened /\ call # Idle /\ call \notin ReadCalls
        /\ call.point \in Int /\ call.want \in Nat /\ call.got \in Nat /\ call.turn \in {0, 1}
        /\ stream.seekable /\ call.point * stream.channels < stream.total
        /\ call.got < call.want
        /\ EngineTyped(stream, eng)
        /\ eng.samples_read + want <= t
        /\ LaidOut(stream) => Placed(stream, eng) /\ ~eng.errors
    BY InSeek DEF SeekStep
  <1>2. want \in Nat /\ want > 0
    BY <1>1
  <1>3. PICK at \in Entered(eng) :
          LET it == Iteration(at, want) got == call.got + Len(it.frames)
          IN /\ eng' = it.eng
             /\ IF ~at.missing /\ got < call.want /\ ~AtEnd(it.eng)
                THEN /\ call' = [call EXCEPT !.got = got, !.turn = 1 - @]
                     /\ UNCHANGED <<points_read_so_far, failedSeek, slip, result>>
                ELSE IF GivesUp(got)
                THEN SeekReturns(call.point, it.eng.samples_read = t)
                ELSE SeekContinues(call.point, it.eng, 1 - call.turn)
    BY DEF SeekStep
  <1> DEFINE it == Iteration(at, want) e == it.eng x == Len(it.frames) got == call.got + x
  <1>4. UNCHANGED <<stream, is_opened, tail_read>> /\ noPoints' = noPoints
    BY DEF SeekStep, noPoints
  <1>5. Handed(eng, at, it, want)
    BY <1>1, <1>2, IterationTyped, InstanceFacts
  <1>6. LaidOut(stream) => HandedRight(eng, at, it)
    BY <1>1, <1>2, IterationPlaced, InstanceFacts
  <1>7. /\ eng' = e
        /\ IF ~at.missing /\ got < call.want /\ ~AtEnd(e)
           THEN /\ call' = [call EXCEPT !.got = got, !.turn = 1 - @]
                /\ UNCHANGED <<points_read_so_far, failedSeek, slip, result>>
           ELSE IF GivesUp(got)
           THEN SeekReturns(call.point, e.samples_read = t)
           ELSE SeekContinues(call.point, e, 1 - call.turn)
    BY <1>3
  <1> HIDE DEF it
  <1>8. /\ x \in 0 .. want /\ EngineTyped(stream, e) /\ e.samples_read = eng.samples_read + x
        /\ e.comp_start = eng.comp_start /\ e.tail = eng.tail
    BY <1>5 DEF Handed
  <1> HIDE DEF e, x
  <1>9. t \in Nat /\ t <= noPoints /\ call.point <= noPoints
        /\ noPoints \in Nat /\ noPoints <= stream.total /\ stream.total \in Nat
    BY <1>1, TargetFacts, InstanceFacts, StreamFacts, PointsType DEF noPoints
  <1>10. eng.samples_read \in Nat
    BY <1>1 DEF EngineTyped
  <1> HIDE DEF t
  <1>11. /\ got \in Nat /\ got <= call.want /\ e.samples_read <= t
         /\ e.samples_read + (call.want - got) <= t
         /\ eng.samples_read < noPoints
    BY <1>1, <1>2, <1>8, <1>9, <1>10
  <1>12. ASSUME LaidOut(stream)
         PROVE  /\ Placed(stream, e) /\ TailNext(stream, e) /\ ~e.errors /\ ~at.missing
                /\ OneConfiguration(stream) => Faithful(stream, e)
    <2>1. /\ Placed(stream, e) /\ TailNext(stream, e)
          /\ IF at.missing THEN eng.samples_read = Points(stream) ELSE e.errors = eng.errors
          /\ OneConfiguration(stream) /\ Faithful(stream, eng) => Faithful(stream, e)
      BY <1>6, <1>12 DEF HandedRight, e
    <2>2. ~at.missing
      BY <1>9, <1>10, <1>11, <2>1 DEF noPoints
    <2>3. OneConfiguration(stream) => Faithful(stream, eng)
      BY <1>1, <1>12 DEF IInv, Restorable
    <2>4. QED BY <1>1, <1>12, <2>1, <2>2, <2>3
  <1>13. SeekLeaves(e) /\ SeekArrives(e)
    <2>1. LaidOut(stream) => e.comp_start = BodyStart(stream)
      BY <1>1, <1>8 DEF IInv, Restorable
    <2>2. QED BY <1>8, <1>12, <2>1 DEF SeekLeaves, SeekArrives
  <1>14. CASE ~at.missing /\ got < call.want /\ ~AtEnd(e)
    <2>1. /\ call' = [call EXCEPT !.got = got, !.turn = 1 - @]
          /\ UNCHANGED <<points_read_so_far, failedSeek, slip, result>>
      BY <1>7, <1>14
    <2> HIDE DEF got
    <2>2. /\ call' \in SeekCalls /\ call'.point = call.point /\ call'.want = call.want
          /\ call'.got = got
      <3>1. 1 - call.turn \in {0, 1}
        BY <1>1
      <3>2. QED BY <1>1, <1>11, <2>1, <3>1 DEF SeekCalls
    <2>3. call' \notin ReadCalls /\ call' # Idle
      BY <2>2 DEF ReadCalls, SeekCalls, Idle
    <2>4. Typed'
      BY <1>1, <1>4, <1>7, <1>8, <2>1, <2>2 DEF IInv, Typed
    <2>5. Counted'
      <3>1. SeekTarget(call.point)' = t
        BY <1>4, <2>2 DEF SeekTarget, t
      <3>2. QED BY <1>1, <1>4, <1>7, <1>11, <1>14, <2>2, <2>3, <3>1 DEF Counted
    <2>6. Restorable' /\ OnTrack'
      BY <1>4, <1>7, <1>13, <2>1 DEF Restorable, OnTrack, SeekLeaves, SeekArrives
    <2>7. TailKept' /\ ShortReadTold' /\ InOrder'
      BY <1>1, <1>4, <1>7, <1>8, <2>1, <2>3 DEF IInv, TailKept, ShortReadTold, InOrder
    <2>8. QED BY <2>1, <2>3, <2>4, <2>5, <2>6, <2>7 DEF IInv
  <1>15. CASE ~(~at.missing /\ got < call.want /\ ~AtEnd(e)) /\ GivesUp(got)
    <2> DEFINE ok == e.samples_read = t
    <2>1. ok \in BOOLEAN /\ SeekReturns(call.point, ok)
      BY <1>7, <1>15
    <2>2. LaidOut(stream) => ok
      <3>1. ASSUME LaidOut(stream) PROVE ok
        <4>1. got = 0
          BY <1>15 DEF GivesUp
        <4>2. AtEnd(e)
          BY <1>1, <1>12, <1>15, <3>1, <4>1
        <4>3. e.samples_read >= stream.total /\ e.samples_read \in Nat
          BY <1>8, <4>2 DEF AtEnd, EngineTyped
        <4>4. QED BY <1>9, <1>11, <4>3
      <3>2. QED BY <3>1
    <2>3. ok => e.samples_read = SeekTarget(call.point)
      BY DEF t
    <2> HIDE DEF ok
    <2>4. IInv'
      BY <1>1, <1>4, <1>7, <1>9, <1>13, <2>1, <2>2, <2>3, SeekReturnsKeeps
    <2>5. QED BY <2>1, <2>2, <2>4
  <1>16. CASE ~(~at.missing /\ got < call.want /\ ~AtEnd(e)) /\ ~GivesUp(got)
    <2>1. SeekContinues(call.point, e, 1 - call.turn) /\ 1 - call.turn \in {0, 1}
      BY <1>1, <1>7, <1>16
    <2>2. /\ IInv'
          /\ \/ call' # Idle /\ UNCHANGED <<points_read_so_far, failedSeek, slip, result>>
             \/ SeekReturns(call.point, TRUE)
      BY <1>1, <1>4, <1>7, <1>11, <1>13, <2>1, SeekContinuesKeeps DEF t
    <2>3. QED BY <2>2
  <1>17. QED BY <1>14, <1>15, <1>16

-----------------------------------------------------------------------------
(* readTail *)

LEMMA PayloadIsData ==
  ASSUME NEW s, NEW p, NEW n, PayloadFollows(s, p, n)
  PROVE  Cell(s, p).payload \in Nat /\ \A i \in 1 .. Cell(s, p).payload : s.cells[p + i].kind = "DATA"
  <1> DEFINE a == Cell(s, p).payload id == Cell(s, p).id
  <1>1. a \in Nat /\ \A i \in 1 .. a : s.cells[p + i] = [kind |-> "DATA", block |-> id, index |-> i]
    BY DEF PayloadFollows
  <1> HIDE DEF a, id
  <1>2. ASSUME NEW i \in 1 .. a PROVE s.cells[p + i].kind = "DATA"
    <2>1. [kind |-> "DATA", block |-> id, index |-> i].kind = "DATA"
      OBVIOUS
    <2>2. QED BY <1>1, <2>1
  <1>3. QED BY <1>1, <1>2 DEF a

(* No block begins within a block.                                         *)
LEMMA OneBlock ==
  ASSUME NEW s \in Streams, LaidOut(s), NEW p, IsBlock(s, p),
         NEW q \in DOMAIN s.cells, p < q, q <= BlockEnd(s, p)
  PROVE  ~IsBlock(s, q)
  <1> DEFINE d == PayloadEnd(s, p) + 1 a == Cell(s, p).payload b == Cell(s, d).payload
  <1>1. /\ p \in Nat /\ q \in Nat /\ a \in Nat /\ PayloadEnd(s, p) = p + a
        /\ \A i \in 1 .. a : s.cells[p + i].kind = "DATA"
        /\ s.float => /\ d \in Nat /\ b \in Nat /\ BlockEnd(s, p) = d + b
                      /\ Cell(s, d).kind = "DETA"
                      /\ \A i \in 1 .. b : s.cells[d + i].kind = "DATA"
        /\ ~s.float => BlockEnd(s, p) = p + a
    <2>1. /\ p \in Nat /\ PayloadFollows(s, p, FramesIn(s, p))
          /\ s.float => /\ d \in DOMAIN s.cells /\ Cell(s, d).kind = "DETA"
                        /\ PayloadFollows(s, d, FramesIn(s, p))
      BY BlockLaid
    <2>2. DOMAIN s.cells = 1 .. Len(s.cells) /\ Len(s.cells) \in Nat
      BY StreamFacts
    <2>3. a \in Nat /\ \A i \in 1 .. a : s.cells[p + i].kind = "DATA"
      BY <2>1, PayloadIsData
    <2>4. s.float => b \in Nat /\ \A i \in 1 .. b : s.cells[d + i].kind = "DATA"
      BY <2>1, PayloadIsData
    <2>5. /\ PayloadEnd(s, p) = p + a
          /\ s.float => BlockEnd(s, p) = d + b
          /\ ~s.float => BlockEnd(s, p) = p + a
      BY DEF PayloadEnd, BlockEnd
    <2>6. q \in Nat /\ (s.float => d \in Nat)
      <3> HIDE DEF d
      <3>1. QED BY <2>1, <2>2
    <2>7. QED BY <2>1, <2>3, <2>4, <2>5, <2>6
  <1>2. d = p + a + 1
    BY <1>1
  <1> HIDE DEF d, a, b
  <1>3. \/ \E i \in 1 .. a : q = p + i
        \/ s.float /\ q = d
        \/ s.float /\ \E i \in 1 .. b : q = d + i
    <2>1. CASE q <= p + a
      <3>1. q - p \in 1 .. a /\ q = p + (q - p)
        BY <1>1, <2>1
      <3>2. QED BY <3>1
    <2>2. CASE q > p + a
      <3>1. s.float /\ q >= d /\ q <= d + b
        BY <1>1, <1>2, <2>2, StreamFacts
      <3>2. CASE q # d
        <4>1. q - d \in 1 .. b /\ q = d + (q - d)
          BY <1>1, <3>1, <3>2
        <4>2. QED BY <3>1, <4>1
      <3>3. QED BY <3>1, <3>2
    <2>3. QED BY <1>1, <2>1, <2>2
  <1>4. Cell(s, q).kind \in {"DATA", "DETA"}
    <2>1. Cell(s, q) = s.cells[q]
      BY CellFacts
    <2>2. QED BY <1>1, <1>3, <2>1 DEF d
  <1>5. QED BY <1>4 DEF IsBlock

(* Whoever looks for the tail leaves the last block behind.                *)
LEMMA TailTriedFacts ==
  ASSUME stream \in Streams, NEW e, DOMAIN e = Fields
  PROVE  LET d == TailTried(e) n == IF Bytes(e, 1)[1].kind = "TAIL" THEN 1 + Bytes(e, 1)[1].size ELSE 1
         IN /\ Apart(d, e, {"pos", "budget", "tail"})
            /\ d.pos = Advance(e, n).pos /\ d.budget = Advance(e, n).budget
            /\ d.tail = IF Bytes(e, 1)[1].kind = "TAIL" THEN Bytes(e, 1)[1] ELSE e.tail
            /\ e.budget = -1 => Bytes(e, 1)[1] = CellAt(e.pos + 1)
  <1> DEFINE c == Bytes(e, 1)[1] n == IF c.kind = "TAIL" THEN 1 + c.size ELSE 1
             a == Advance(e, n) d == TailTried(e)
  <1>1. Apart(a, e, {"pos", "budget"})
    BY AdvanceApart
  <1>2. d = IF c.kind = "TAIL" THEN [a EXCEPT !.tail = c] ELSE a
    BY DEF TailTried
  <1>3. e.budget = -1 => c = CellAt(e.pos + 1)
    BY DEF Bytes
  <1> HIDE DEF a, d, c
  <1>4. Apart(d, e, {"pos", "budget", "tail"}) /\ d.pos = a.pos /\ d.budget = a.budget
        /\ d.tail = IF c.kind = "TAIL" THEN c ELSE e.tail
    BY <1>1, <1>2 DEF Apart, Fields
  <1>5. QED BY <1>3, <1>4 DEF a, d, c

LEMMA TailTriedPlaced ==
  ASSUME stream \in Streams, LaidOut(stream), NEW e, EngineTyped(stream, e),
         Placed(stream, e), e.samples_read >= Points(stream)
  PROVE  LET d == TailTried(e)
         IN /\ Placed(stream, d)
            /\ e.tail = Zero /\ TailNext(stream, e) /\ ~e.errors /\ Points(stream) > 0 =>
                 TailSize(d.tail) = TailOf(stream)
  <1> DEFINE c == Cell(stream, e.pos + 1) n == IF c.kind = "TAIL" THEN 1 + c.size ELSE 1
             d == TailTried(e)
  <1>1. /\ e.need_new_block /\ AtBoundary(stream, e) /\ e.samples_read = Points(stream)
        /\ DOMAIN e = Fields /\ Points(stream) \in Nat /\ e.samples_read \in Nat
    BY PlacedFacts, PointsType DEF Placed, EngineTyped
  <1>2. e.budget = -1 /\ e.pos \in 0 .. Len(stream.cells) /\ Len(stream.cells) \in Nat
    BY <1>1, StreamFacts DEF AtBoundary
  <1>3. /\ Apart(d, e, {"pos", "budget", "tail"})
        /\ d.pos = Advance(e, n).pos /\ d.budget = Advance(e, n).budget
        /\ d.tail = IF c.kind = "TAIL" THEN c ELSE e.tail
    BY <1>1, <1>2, TailTriedFacts DEF CellAt
  <1>4. c.kind = "TAIL" => e.pos + 1 \in DOMAIN stream.cells /\ c = stream.cells[e.pos + 1]
                           /\ c.size \in Nat
    <2>1. ASSUME c.kind = "TAIL"
          PROVE  e.pos + 1 \in DOMAIN stream.cells /\ c = stream.cells[e.pos + 1] /\ c.size \in Nat
      <3>1. Zero.kind # "TAIL"
        BY DEF Zero
      <3>2. e.pos + 1 \in DOMAIN stream.cells /\ c = stream.cells[e.pos + 1]
        BY <2>1, <3>1, CellFacts
      <3>3. QED BY <2>1, <3>2, StreamsAssumption
    <2>2. QED BY <2>1
  <1> HIDE DEF d, c
  <1>5. n \in Nat /\ n >= 1
    BY <1>4
  <1>6. Advance(e, n).budget = -1 /\ Advance(e, n).pos \in e.pos .. Len(stream.cells)
        /\ (e.pos + 1 <= Len(stream.cells) => Advance(e, n).pos >= e.pos + 1)
    <2>1. Advance(e, n).budget = -1 /\ Advance(e, n).pos \in e.pos .. Len(stream.cells)
          /\ (e.pos + n <= Len(stream.cells) => Advance(e, n).pos = e.pos + n)
      BY <1>1, <1>2, <1>5, AdvanceFree
    <2>2. Advance(e, n).pos = Min({e.pos + n, Len(stream.cells)})
      <3>1. "pos" \in Fields /\ "budget" \in Fields
        BY DEF Fields
      <3> HIDE DEF n
      <3>2. QED BY <1>1, <1>2, <3>1 DEF Advance
    <2> DEFINE x == Len(stream.cells) y == e.pos + n
    <2>3. x \in Int /\ y \in Int /\ e.pos \in Int
      BY <1>2, <1>5
    <2> HIDE DEF x, y, n
    <2>4. Min({y, x}) = IF y < x THEN y ELSE x
      BY <2>3, MinOfTwo
    <2>5. e.pos + 1 <= x => Min({y, x}) >= e.pos + 1
      BY <1>5, <2>3, <2>4 DEF y
    <2>6. QED BY <2>1, <2>2, <2>5 DEF x, y
  <1> HIDE DEF n
  <1>7. /\ d.budget = -1 /\ d.pos \in e.pos .. Len(stream.cells)
        /\ (e.pos + 1 <= Len(stream.cells) => d.pos >= e.pos + 1)
        /\ d.samples_read = e.samples_read /\ d.need_new_block = e.need_new_block
    BY <1>3, <1>6 DEF Apart, Fields
  <1>8. d.pos \in 0 .. Len(stream.cells)
    BY <1>2, <1>7
  <1>9. \A q \in DOMAIN stream.cells : q > d.pos => ~IsBlock(stream, q)
    <2>1. SUFFICES ASSUME NEW q \in DOMAIN stream.cells, q > d.pos, IsBlock(stream, q)
                   PROVE  FALSE
      OBVIOUS
    <2>2. q \in Nat /\ q > e.pos /\ q <= Len(stream.cells)
      BY <1>2, <1>7, <2>1, StreamFacts
    <2>3. CASE ~IsBlock(stream, e.pos + 1)
      BY <1>1, <2>1, <2>2, <2>3 DEF AtBoundary
    <2>4. CASE IsBlock(stream, e.pos + 1)
      <3> DEFINE p == e.pos + 1 b == BlockEnd(stream, p) m == Cell(stream, p).first + FramesIn(stream, p)
      <3>1. Points(stream) = 0
        BY <1>1, <2>4 DEF AtBoundary
      <3>2. p < q
        BY <1>2, <1>7, <2>1, <2>2
      <3>3. b \in Nat /\ GoesOn(stream, b, m) /\ Cell(stream, p).first \in Nat
            /\ FramesIn(stream, p) \in Nat
        BY <2>4, BlockLaid, BlockFacts
      <3>4. m \in Nat
        BY <3>3
      <3>5. \A x \in DOMAIN stream.cells : x > b => ~IsBlock(stream, x)
        <4> HIDE DEF m, b, p
        <4>1. ~(m < Points(stream))
          BY <3>1, <3>4
        <4>2. QED BY <3>3, <4>1 DEF GoesOn
      <3>6. q <= b => ~IsBlock(stream, q)
        <4> HIDE DEF p
        <4>1. QED BY <2>4, <3>2, OneBlock DEF p
      <3> HIDE DEF b
      <3>7. q > b \/ q <= b
        BY <2>2, <3>3
      <3>8. QED BY <2>1, <3>5, <3>6, <3>7
    <2>5. QED BY <2>3, <2>4
  <1>10. ~IsBlock(stream, d.pos + 1)
    <2>1. ASSUME IsBlock(stream, d.pos + 1) PROVE FALSE
      <3>1. d.pos + 1 \in DOMAIN stream.cells /\ d.pos + 1 > d.pos
        BY <1>8, <2>1, BlockFacts
      <3>2. QED BY <1>9, <2>1, <3>1
    <2>2. QED BY <2>1
  <1>11. Placed(stream, d)
    BY <1>1, <1>7, <1>8, <1>9, <1>10 DEF Placed, AtBoundary
  <1>12. ASSUME e.tail = Zero, TailNext(stream, e), ~e.errors, Points(stream) > 0
         PROVE  TailSize(d.tail) = TailOf(stream)
    <2>1. ~IsBlock(stream, e.pos + 1)
      BY <1>1, <1>12 DEF AtBoundary
    <2>2. \A q \in DOMAIN stream.cells : stream.cells[q].kind = "TAIL" => q = e.pos + 1
      BY <1>1, <1>12, <2>1 DEF TailNext
    <2>3. CASE c.kind = "TAIL"
      <3>1. e.pos + 1 \in DOMAIN stream.cells /\ stream.cells[e.pos + 1].kind = "TAIL"
        BY <1>4, <2>3
      <3> DEFINE q == CHOOSE q \in DOMAIN stream.cells : stream.cells[q].kind = "TAIL"
      <3>2. q \in DOMAIN stream.cells /\ stream.cells[q].kind = "TAIL"
        BY <3>1
      <3>3. q = e.pos + 1
        BY <2>2, <3>2
      <3>4. TailOf(stream) = stream.cells[q].size
        BY <3>1 DEF TailOf
      <3>5. d.tail = c /\ c # Zero
        BY <1>3, <2>3 DEF Zero
      <3>6. QED BY <1>4, <2>3, <3>3, <3>4, <3>5 DEF TailSize
    <2>4. CASE c.kind # "TAIL"
      <3>1. ~ \E q \in DOMAIN stream.cells : stream.cells[q].kind = "TAIL"
        <4>1. ASSUME NEW q \in DOMAIN stream.cells, stream.cells[q].kind = "TAIL" PROVE FALSE
          <5>1. q = e.pos + 1
            BY <2>2, <4>1
          <5>2. c = stream.cells[q]
            BY <1>1, <5>1, CellFacts DEF c
          <5>3. QED BY <2>4, <4>1, <5>2
        <4>2. QED BY <4>1
      <3>2. QED BY <1>3, <1>12, <2>4, <3>1 DEF TailOf, TailSize
    <2>5. QED BY <2>3, <2>4
  <1>13. QED BY <1>11, <1>12 DEF d

LEMMA TailKeeps ==
  ASSUME IInv, NEW maxSize, TailCall(maxSize)
  PROVE  IInv'
  <1> DEFINE atEnd == points_read_so_far = noPoints
             tries == atEnd /\ ~tail_read
  <1>1. /\ call = Idle /\ is_opened /\ eng' = (IF tries THEN TailTried(eng) ELSE eng)
        /\ tail_read' = (tail_read \/ atEnd) /\ result'.op = "tail" /\ noPoints' = noPoints
        /\ UNCHANGED <<stream, is_opened, points_read_so_far, failedSeek, slip, call>>
    BY DEF TailCall, noPoints
  <1>2. call' \notin ReadCalls /\ call' \notin SeekCalls
    BY <1>1 DEF Idle, ReadCalls, SeekCalls
  <1>3. EngineTyped(stream, eng) /\ stream \in Streams /\ DOMAIN eng = Fields
    BY <1>1 DEF IInv, Typed, EngineTyped
  <1>4. ShortReadTold' /\ InOrder'
    BY <1>1, <1>2 DEF ShortReadTold, InOrder
  <1>5. Apart(eng', eng, {"pos", "budget", "tail"})
    <2>1. Apart(TailTried(eng), eng, {"pos", "budget", "tail"})
      BY <1>3, TailTriedFacts
    <2>2. Apart(eng, eng, {"pos", "budget", "tail"})
      BY <1>3 DEF Apart
    <2>3. QED BY <1>1, <2>1, <2>2
  <1>6. /\ DOMAIN eng' = Fields /\ eng'.samples_read = eng.samples_read
        /\ eng'.need_new_block = eng.need_new_block /\ eng'.errors = eng.errors
        /\ eng'.block = eng.block /\ eng'.block_pos = eng.block_pos /\ eng'.ready = eng.ready
        /\ eng'.live = eng.live /\ eng'.comp_start = eng.comp_start
    BY <1>5 DEF Apart, Fields
  <1>7. EngineTyped(stream, eng')
    BY <1>3, <1>6 DEF EngineTyped, InBlock
  <1>8. Typed'
    BY <1>1, <1>7 DEF IInv, Typed
  <1>9. Counted'
    BY <1>1, <1>2, <1>6 DEF IInv, Counted, Lost
  <1>10. Restorable'
    BY <1>1, <1>2, <1>6 DEF IInv, Restorable, Faithful
  <1>11. CASE ~tries
    BY <1>1, <1>4, <1>8, <1>9, <1>10, <1>11 DEF IInv, OnTrack, TailKept, Lost
  <1>12. CASE tries
    <2>1. eng' = TailTried(eng) /\ tail_read' = TRUE
      BY <1>1, <1>12
    <2>2. ASSUME LaidOut(stream), ~Lost
          PROVE  /\ Placed(stream, eng')
                 /\ ~failedSeek /\ noPoints > 0 => TailSize(eng'.tail) = TailOf(stream)
      <3>1. Placed(stream, eng) /\ (tail_read \/ TailNext(stream, eng))
            /\ eng.samples_read = points_read_so_far - slip /\ eng.tail = Zero
        BY <1>1, <1>12, <2>2 DEF IInv, OnTrack, Counted, TailKept
      <3>2. eng.samples_read >= Points(stream)
        BY <1>12, <3>1, InstanceFacts DEF noPoints
      <3>3. slip = 0 /\ ~eng.errors
        <4>1. eng.samples_read <= Points(stream)
          BY <1>3, <2>2, <3>1, PlacedFacts
        <4>2. slip = 0
          BY <1>12, <3>1, <4>1, InstanceFacts DEF noPoints
        <4>3. QED BY <1>1, <2>2, <4>2 DEF IInv, Restorable
      <3>4. QED BY <1>3, <1>12, <2>1, <2>2, <3>1, <3>2, <3>3, TailTriedPlaced DEF noPoints
    <2>3. Lost' <=> Lost
      BY <1>1 DEF Lost
    <2>4. OnTrack'
      BY <1>1, <2>1, <2>2, <2>3 DEF OnTrack
    <2>5. TailKept'
      BY <1>1, <2>1, <2>2 DEF TailKept, Lost
    <2>6. QED BY <1>4, <1>8, <1>9, <1>10, <2>4, <2>5 DEF IInv
  <1>13. QED BY <1>11, <1>12

-----------------------------------------------------------------------------
(* The invariant of the specification *)

LEMMA InitKeeps == Init => IInv
  <1> SUFFICES ASSUME Init PROVE IInv
    OBVIOUS
  <1>1. /\ stream \in Streams /\ is_opened = FALSE /\ points_read_so_far = 0 /\ tail_read = FALSE
        /\ failedSeek = FALSE /\ slip = 0 /\ call = Idle /\ result = [op |-> "none"]
    BY DEF Init
  <1>2. noPoints \in Nat
    BY <1>1, PointsType DEF noPoints
  <1>3. call \notin ReadCalls /\ call \notin SeekCalls /\ result.op # "read"
    BY <1>1 DEF Idle, ReadCalls, SeekCalls
  <1>4. Typed
    <2>1. points_read_so_far \in Int /\ slip \in Int /\ points_read_so_far <= noPoints /\ slip <= 0
      <3>1. 0 \in Int /\ 0 <= noPoints /\ 0 <= 0
        BY <1>2
      <3>2. points_read_so_far = 0 /\ slip = 0
        BY <1>1
      <3>3. QED BY <3>1, <3>2
    <2>2. {is_opened, failedSeek, tail_read} \subseteq BOOLEAN
      BY <1>1
    <2>3. QED BY <1>1, <2>1, <2>2 DEF Typed
  <1>5. QED BY <1>1, <1>3, <1>4
            DEF IInv, Counted, Restorable, OnTrack, TailKept, ShortReadTold, InOrder

LEMMA StutterKeeps == IInv /\ UNCHANGED vars => IInv'
  BY DEF vars, IInv, Typed, Counted, Restorable, OnTrack, TailKept, ShortReadTold, InOrder,
         Lost, noPoints, SeekTarget

LEMMA NextKeeps == IInv /\ [Next]_vars => IInv'
  <1> SUFFICES ASSUME IInv, [Next]_vars PROVE IInv'
    OBVIOUS
  <1>1. CASE OpenCall
    BY <1>1, OpenKeeps
  <1>2. CASE CloseCall
    BY <1>2, CloseKeeps
  <1>3. CASE RefusedCall
    BY <1>3, RefusedKeeps
  <1>4. ASSUME NEW n \in Reads, ReadCall(n) PROVE IInv'
    BY <1>4, ReadKeeps, SessionAssumption
  <1>5. ASSUME NEW point \in Seeks, SeekCall(point) PROVE IInv'
    BY <1>5, SeekKeeps, SessionAssumption
  <1>6. ASSUME NEW maxSize \in TailRooms, TailCall(maxSize) PROVE IInv'
    BY <1>6, TailKeeps
  <1>7. CASE ReadStep
    BY <1>7, ReadStepKeeps
  <1>8. CASE SeekStep
    BY <1>8, SeekStepKeeps
  <1>9. CASE UNCHANGED vars
    BY <1>9, StutterKeeps
  <1>10. QED BY <1>1, <1>2, <1>3, <1>4, <1>5, <1>6, <1>7, <1>8, <1>9 DEF Next, Step

LEMMA Invariant == Spec => []IInv
  BY InitKeeps, NextKeeps, PTL DEF Spec

LEMMA InvariantTells == IInv => ShortReadsReported
  BY InstanceFacts, StreamFacts DEF IInv, ShortReadTold, Restorable, ShortReadsReported

(* Whoever gets less than is left of the file is told, and on an intact    *)
(* file there is nothing to tell: OptimFROG_read and the errors that       *)
(* read() records, on every file, for every order of the calls.            *)
THEOREM ShortReadsAreTold == Spec => []ShortReadsReported
  BY InvariantTells, Invariant, PTL

LEMMA InvariantAligns ==
  ASSUME IInv
  PROVE  BlockAligned
  <1>1. SUFFICES ASSUME is_opened, stream.intact, ~failedSeek, slip = 0
                 PROVE  IF eng.need_new_block
                        THEN \/ CellAt(eng.pos + 1).kind = "COMP"
                             \/ \A p \in eng.pos + 1 .. Len(stream.cells) :
                                  stream.cells[p].kind # "COMP"
                        ELSE \/ stream.float
                             \/ eng.pos \in eng.payload_start .. eng.payload_start + eng.block.payload
    BY DEF BlockAligned
  <1>2. Placed(stream, eng) /\ stream \in Streams /\ LaidOut(stream)
    BY <1>1, InstanceFacts, StreamFacts DEF IInv, OnTrack, Lost
  <1>3. CASE eng.need_new_block
    <2>1. AtBoundary(stream, eng)
      BY <1>2, <1>3 DEF Placed
    <2>2. eng.pos \in 0 .. Len(stream.cells) /\ Len(stream.cells) \in Nat
          /\ DOMAIN stream.cells = 1 .. Len(stream.cells)
      BY <1>2, <2>1, StreamFacts DEF AtBoundary
    <2>3. ASSUME ~IsBlock(stream, eng.pos + 1), NEW p \in eng.pos + 1 .. Len(stream.cells)
          PROVE  stream.cells[p].kind # "COMP"
      <3>1. p \in DOMAIN stream.cells /\ p > eng.pos
        BY <2>2
      <3>2. ~IsBlock(stream, p)
        BY <2>1, <2>3, <3>1 DEF AtBoundary
      <3>3. QED BY <1>2, <3>1, <3>2, CellFacts DEF IsBlock
    <2>4. QED BY <1>3, <2>3 DEF IsBlock, CellAt
  <1>4. CASE ~eng.need_new_block
    <2>1. PICK p : Within(stream, eng, p)
      BY <1>2, <1>4 DEF Placed
    <2>2. CASE stream.float
      BY <1>4, <2>2
    <2>3. CASE ~stream.float
      <3> DEFINE cell == Cell(stream, p) t == CostTo(eng.block, eng.block_pos)
                 g == Passed(cell, t) len == cell.payload
      <3>1. IsBlock(stream, p) /\ p \in DOMAIN stream.cells /\ eng.block = cell
            /\ eng.payload_start = p /\ eng.pos = p + g
        BY <1>2, <2>1, <2>3, CellFacts DEF Within, Feeding
      <3>2. p \in Nat /\ PayloadFollows(stream, p, FramesIn(stream, p))
            /\ FramesIn(stream, p) \in Nat /\ FramesIn(stream, p) = Size(stream, eng.block)
        BY <1>1, <1>2, <3>1, BlockLaid, BlockFacts
      <3>3. EngineTyped(stream, eng)
        BY <1>1 DEF IInv, Typed
      <3>4. eng.block_pos \in 0 .. FramesIn(stream, p)
        BY <1>4, <3>2, <3>3 DEF EngineTyped, InBlock
      <3>5. t \in Nat /\ len \in Nat
        BY <1>2, <3>1, <3>2, <3>4, PayloadFacts, Costs
      <3> HIDE DEF t
      <3>6. g = IF t < len THEN t ELSE len
        BY DEF Passed
      <3> HIDE DEF g, len
      <3>7. p + g \in p .. p + len
        BY <3>2, <3>5, <3>6
      <3>8. QED BY <1>4, <3>1, <3>7 DEF len
    <2>4. QED BY <2>2, <2>3
  <1>5. QED BY <1>3, <1>4

(* Between two blocks of an intact file the stream stands on a block       *)
(* header or behind the last block, and inside a block it never leaves the *)
(* payload: what read() restores after a block, for every layout of blocks *)
(* and every amount the coder takes.                                       *)
THEOREM StreamStaysAligned == Spec => []BlockAligned
  BY InvariantAligns, Invariant, PTL

-----------------------------------------------------------------------------
(* Every call implements one of FrameSource, every step within a call none *)

OneConfigurationEach == \A s \in Streams : s.intact => OneConfiguration(s)

SourceStep == Source!Next \/ UNCHANGED Source!vars

LEMMA SameSource ==
  ASSUME UNCHANGED stream
  PROVE  /\ noPoints' = noPoints /\ TailOf(stream)' = TailOf(stream)
         /\ UNCHANGED [length |-> noPoints, tail |-> TailOf(stream),
                       intact |-> stream.intact, seekable |-> stream.seekable]
  BY DEF noPoints, Points, TailOf

LEMMA OpenImplements ==
  ASSUME IInv, OpenCall
  PROVE  SourceStep
  <1>1. stream.intact => Opens
    BY StartPlaced, InstanceFacts, StreamFacts
  <1>2. UNCHANGED stream
    BY DEF OpenCall
  <1>3. Source!Open
    <2>1. CASE Opens
      BY <2>1 DEF OpenCall, Source!Open
    <2>2. CASE ~Opens
      <3>1. /\ is_opened' = FALSE /\ UNCHANGED <<points_read_so_far, failedSeek, slip>>
            /\ result' = [op |-> "open", ok |-> FALSE]
        <4>1. Opens = FALSE
          BY <2>2 DEF Opens
        <4> HIDE DEF Opens
        <4>2. QED BY <4>1 DEF OpenCall
      <3>2. stream.intact = FALSE
        BY <1>1, <2>2, InstanceFacts, StreamFacts
      <3>3. QED BY <3>1, <3>2 DEF Source!Open
    <2>3. QED BY <2>1, <2>2
  <1>4. QED BY <1>2, <1>3, SameSource DEF SourceStep, Source!Next

LEMMA CloseImplements ==
  ASSUME CloseCall
  PROVE  SourceStep
  <1>1. UNCHANGED stream /\ Source!Close
    BY DEF CloseCall, Source!Close
  <1>2. QED BY <1>1, SameSource DEF SourceStep, Source!Next

LEMMA RefusedImplements ==
  ASSUME RefusedCall
  PROVE  SourceStep
  <1>1. UNCHANGED stream /\ Source!Refuse
    BY DEF RefusedCall, Source!Refuse
  <1>2. QED BY <1>1, SameSource DEF SourceStep, Source!Next

(* What a read must have brought for the caller not to notice the blocks.  *)
LEMMA ReadImplements ==
  ASSUME IInv, is_opened, UNCHANGED <<stream, is_opened, failedSeek, slip>>,
         NEW frames \in Seq(Int), NEW asked \in Nat, ReadReturns(frames, asked),
         stream.intact => \A i \in 1 .. Len(frames) : frames[i] = points_read_so_far - slip + i,
         stream.intact => frames = <<>> \/ Len(frames) <= noPoints - (points_read_so_far - slip),
         frames = <<>> \/ Len(frames) <= noPoints - points_read_so_far,
         stream.intact => \/ Len(frames) = asked
                          \/ points_read_so_far + Len(frames) - slip = noPoints
  PROVE  SourceStep
  <1>1. /\ points_read_so_far' = points_read_so_far + Len(frames)
        /\ result' = [op |-> "read", frames |-> frames, asked |-> asked]
    BY DEF ReadReturns
  <1>2. result'.op = "read" /\ result'.frames = frames /\ result'.asked = asked
    BY <1>1
  <1>3. stream.intact => frames = [i \in 1 .. Len(frames) |-> points_read_so_far - slip + i]
    <2>1. frames = [i \in 1 .. Len(frames) |-> frames[i]]
      OBVIOUS
    <2>2. QED BY <2>1
  <1>4. slip = 0 => frames = <<>> \/ Len(frames) <= noPoints - (points_read_so_far - slip)
    <2>1. ASSUME slip = 0 PROVE points_read_so_far - slip = points_read_so_far
      BY <2>1, InstanceFacts
    <2>2. QED BY <2>1
  <1>5. Source!Read(frames)
    BY <1>1, <1>3, <1>4 DEF Source!Read
  <1>6. Source!ReadCompletely(frames, asked)
    <2>1. CASE stream.intact = TRUE
      <3>1. Len(frames) = asked \/ points_read_so_far' - slip = noPoints
        <4>1. Len(frames) = asked \/ points_read_so_far + Len(frames) - slip = noPoints
          BY <2>1
        <4> DEFINE x == Len(frames)
        <4>2. x \in Int /\ points_read_so_far \in Int /\ slip \in Int
          BY InstanceFacts
        <4> HIDE DEF x
        <4>3. points_read_so_far + x - slip = (points_read_so_far + x) - slip
          BY <4>2
        <4>4. QED BY <1>1, <4>1, <4>3 DEF x
      <3>2. [length |-> noPoints, tail |-> TailOf(stream),
             intact |-> stream.intact, seekable |-> stream.seekable].length = noPoints
        OBVIOUS
      <3>3. QED BY <3>1, <3>2, Zenon DEF Source!ReadCompletely
    <2>2. CASE stream.intact = FALSE
      BY <2>2 DEF Source!ReadCompletely
    <2>3. QED BY <2>1, <2>2, InstanceFacts, StreamFacts
  <1>7. Source!Read(result'.frames) /\ Source!ReadCompletely(result'.frames, result'.asked)
    BY <1>2, <1>5, <1>6
  <1>8. QED BY <1>2, <1>7, SameSource DEF SourceStep, Source!Next

LEMMA StutterImplements ==
  ASSUME UNCHANGED <<stream, is_opened, points_read_so_far, failedSeek, slip, result>>
  PROVE  SourceStep
  BY SameSource DEF SourceStep, Source!vars

LEMMA ReadCallImplements ==
  ASSUME IInv, NEW n \in Nat, ReadCall(n)
  PROVE  SourceStep
  <1> DEFINE points == Min({n, noPoints - points_read_so_far})
  <1>1. call = Idle /\ is_opened
        /\ UNCHANGED <<stream, eng, is_opened, tail_read, failedSeek, slip>>
    BY DEF ReadCall
  <1>2. points \in Nat /\ points <= noPoints - points_read_so_far
    <2> DEFINE m == noPoints - points_read_so_far
    <2>1. m \in Nat
      BY InstanceFacts
    <2> HIDE DEF m
    <2>2. Min({n, m}) = IF n < m THEN n ELSE m
      BY <2>1, MinOfTwo
    <2>3. Min({n, m}) \in Nat /\ Min({n, m}) <= m
      BY <2>1, <2>2
    <2>4. QED BY <2>3 DEF m
  <1> HIDE DEF points
  <1>3. CASE points = 0 \/ AtEnd(eng)
    <2> DEFINE frames == <<>>
    <2>1. ReadReturns(frames, points)
      BY <1>3 DEF ReadCall, points
    <2>2. frames \in Seq(Int) /\ Len(frames) = 0
      OBVIOUS
    <2>3. stream.intact => Len(frames) = points \/ points_read_so_far + Len(frames) - slip = noPoints
      <3>1. ASSUME stream.intact, points # 0
            PROVE  points_read_so_far + 0 - slip = noPoints
        <4>1. AtEnd(eng) /\ points_read_so_far < noPoints
          BY <1>2, <1>3, <3>1, InstanceFacts
        <4>2. /\ EngineTyped(stream, eng) /\ eng.samples_read = points_read_so_far - slip
              /\ Placed(stream, eng)
          BY <1>1, <3>1, <4>1, AtRest, InstanceFacts, StreamFacts
        <4>3. eng.samples_read <= noPoints
          BY <3>1, <4>2, PlacedFacts, InstanceFacts, StreamFacts DEF noPoints
        <4>4. eng.samples_read >= stream.total /\ stream.total \in Nat
          BY <4>1, InstanceFacts, StreamFacts DEF AtEnd
        <4>5. QED BY <4>2, <4>3, <4>4, InstanceFacts
      <3>2. QED BY <2>2, <3>1
    <2>4. frames = <<>> /\ \A i \in 1 .. Len(frames) : frames[i] = points_read_so_far - slip + i
      BY <2>2
    <2> HIDE DEF frames
    <2>5. QED BY <1>1, <1>2, <2>1, <2>2, <2>3, <2>4, ReadImplements
  <1>4. CASE ~(points = 0 \/ AtEnd(eng))
    <2>1. UNCHANGED <<points_read_so_far, result>>
      BY <1>4 DEF ReadCall, points
    <2>2. QED BY <1>1, <2>1, StutterImplements
  <1>5. QED BY <1>3, <1>4

LEMMA ReadStepImplements ==
  ASSUME IInv, OneConfigurationEach, ReadStep
  PROVE  SourceStep
  <1>1. UNCHANGED <<stream, is_opened, tail_read, failedSeek, slip>> /\ call.op = "read"
    BY DEF ReadStep
  <1>2. is_opened /\ call.want \in Nat /\ call.want <= noPoints - points_read_so_far
    BY <1>1, InRead
  <1>3. stream.intact => OneConfiguration(stream)
    BY InstanceFacts DEF OneConfigurationEach
  <1>4. CASE UNCHANGED <<points_read_so_far, result>>
    BY <1>1, <1>4, StutterImplements
  <1>5. ASSUME NEW frames \in Seq(Int), ReadReturns(frames, call.want), Len(frames) <= call.want,
               stream.intact =>
                 /\ OneConfiguration(stream) =>
                      \A i \in 1 .. Len(frames) : frames[i] = points_read_so_far - slip + i
                 /\ Len(frames) <= noPoints - (points_read_so_far - slip)
                 /\ \/ Len(frames) = call.want
                    \/ points_read_so_far + Len(frames) - slip = noPoints
        PROVE  SourceStep
    <2>1. Len(frames) <= noPoints - points_read_so_far
      <3> DEFINE z == Len(frames)
      <3>1. z \in Nat /\ z <= call.want
        BY <1>5
      <3> HIDE DEF z
      <3>2. z <= noPoints - points_read_so_far
        BY <1>2, <3>1, InstanceFacts
      <3>3. QED BY <3>2 DEF z
    <2>2. QED BY <1>1, <1>2, <1>3, <1>5, <2>1, ReadImplements
  <1>6. QED BY <1>4, <1>5, ReadStepKeeps, InstanceFacts, StreamFacts

(* A seek is over.                                                         *)
LEMMA SeekImplements ==
  ASSUME IInv, is_opened, UNCHANGED <<stream, is_opened>>,
         NEW point \in Int, NEW ok \in BOOLEAN, SeekReturns(point, ok),
         ok => point <= noPoints /\ stream.seekable,
         stream.intact /\ stream.seekable /\ point < noPoints => ok
  PROVE  SourceStep
  <1>1. /\ points_read_so_far' = IF ok THEN point ELSE noPoints
        /\ failedSeek' = (failedSeek \/ ~ok)
        /\ slip' = IF ok THEN Min({point, 0}) ELSE slip
        /\ result' = [op |-> "seek", point |-> point, ok |-> ok]
    BY DEF SeekReturns
  <1>2. Min({point, 0}) = IF point < 0 THEN point ELSE 0
    BY TargetFacts, InstanceFacts
  <1>3. result'.op = "seek" /\ result'.point = point /\ result'.ok = ok
    BY <1>1
  <1>4. Source!Seek(point, ok)
    BY <1>1, <1>2 DEF Source!Seek
  <1>5. Source!Seek(result'.point, result'.ok)
    BY <1>3, <1>4
  <1>6. QED BY <1>3, <1>5, SameSource DEF SourceStep, Source!Next

LEMMA SeekCallImplements ==
  ASSUME IInv, NEW point \in Int, SeekCall(point)
  PROVE  SourceStep
  <1>1. call = Idle /\ is_opened /\ UNCHANGED <<stream, is_opened, tail_read>>
    BY DEF SeekCall
  <1>2. stream \in Streams /\ /\ point * stream.channels < stream.total => point <= noPoints
                              /\ point < noPoints => point * stream.channels < stream.total
    BY InstanceFacts, PointsType DEF noPoints
  <1>3. CASE /\ Reachable(point)
           /\ eng' = Rewound(eng) /\ SeekContinues(point, Rewound(eng), 0)
    <2> DEFINE e == Rewound(eng) t == SeekTarget(point)
    <2>1. /\ eng' = e /\ SeekContinues(point, e, 0)
          /\ point * stream.channels < stream.total /\ stream.seekable
      BY <1>3 DEF Reachable
    <2>2. SeekLeaves(e) /\ SeekArrives(e) /\ e.samples_read = 0
      BY <1>1, RewoundFacts
    <2> HIDE DEF e
    <2>3. t \in Nat
      BY <1>2, TargetFacts
    <2> HIDE DEF t
    <2>4. e.samples_read <= t /\ 0 \in {0, 1}
      BY <2>2, <2>3
    <2>5. \/ UNCHANGED <<points_read_so_far, failedSeek, slip, result>>
          \/ SeekReturns(point, TRUE)
      BY <1>1, <2>1, <2>2, <2>4, SeekContinuesKeeps DEF t
    <2>6. SeekReturns(point, TRUE) => SourceStep
      BY <1>1, <1>2, <2>1, SeekImplements
    <2>7. QED BY <1>1, <2>5, <2>6, StutterImplements
  <1>4. CASE /\ stream.intact => ~Reachable(point)
           /\ SeekReturns(point, FALSE) /\ UNCHANGED eng
    <2>1. SeekReturns(point, FALSE)
      BY <1>4
    <2>2. ~(stream.intact /\ stream.seekable /\ point < noPoints)
      BY <1>2, <1>4 DEF Reachable
    <2>3. QED BY <1>1, <2>1, <2>2, SeekImplements
  <1>5. QED BY <1>3, <1>4 DEF SeekCall

LEMMA SeekStepImplements ==
  ASSUME IInv, SeekStep
  PROVE  SourceStep
  <1>1. UNCHANGED <<stream, is_opened, tail_read>> /\ call.op = "seek"
    BY DEF SeekStep
  <1>2. is_opened /\ call.point \in Int /\ stream.seekable /\ call.point <= noPoints
    <2>1. is_opened /\ call.point \in Int /\ stream.seekable
          /\ call.point * stream.channels < stream.total
      BY <1>1, InSeek
    <2>2. QED BY <2>1, InstanceFacts, PointsType DEF noPoints
  <1>3. CASE UNCHANGED <<points_read_so_far, failedSeek, slip, result>>
    BY <1>1, <1>3, StutterImplements
  <1>4. ASSUME NEW ok \in BOOLEAN, SeekReturns(call.point, ok), ok \/ ~stream.intact
        PROVE  SourceStep
    BY <1>1, <1>2, <1>4, SeekImplements
  <1>5. QED BY <1>3, <1>4, SeekStepKeeps, InstanceFacts, StreamFacts

LEMMA TailImplements ==
  ASSUME IInv, NEW maxSize, TailCall(maxSize)
  PROVE  SourceStep
  <1> DEFINE atEnd == points_read_so_far = noPoints
             size == TailSize(eng'.tail)
             given == IF atEnd /\ size <= maxSize THEN size ELSE -1
  <1>1. /\ is_opened /\ UNCHANGED <<stream, is_opened, points_read_so_far, failedSeek, slip>>
        /\ tail_read' = (tail_read \/ atEnd)
        /\ result' = [op |-> "tail", size |-> given]
    BY DEF TailCall, TailSize
  <1>2. IInv'
    BY TailKeeps
  <1>3. noPoints' = noPoints /\ TailOf(stream)' = TailOf(stream)
    BY <1>1, SameSource
  <1>4. stream.intact /\ ~failedSeek /\ atEnd /\ noPoints > 0 => size = TailOf(stream)
    BY <1>1, <1>2, <1>3, InstanceFacts, StreamFacts DEF IInv, TailKept
  <1>5. result'.op = "tail" /\ result'.size = given
    BY <1>1
  <1> HIDE DEF size
  <1>6. points_read_so_far # noPoints => given = -1
    OBVIOUS
  <1>7. points_read_so_far = noPoints /\ points_read_so_far > 0 /\ stream.intact /\ ~failedSeek =>
          given \in {-1, TailOf(stream)}
    BY <1>4
  <1> HIDE DEF given
  <1>8. Source!ReadTail(given)
    BY <1>1, <1>6, <1>7 DEF Source!ReadTail
  <1>9. Source!ReadTail(result'.size)
    BY <1>5, <1>8
  <1>10. QED BY <1>1, <1>5, <1>9, SameSource DEF SourceStep, Source!Next

LEMMA NextImplements ==
  ASSUME OneConfigurationEach, IInv, [Next]_vars
  PROVE  SourceStep
  <1>1. CASE OpenCall
    BY <1>1, OpenImplements
  <1>2. CASE CloseCall
    BY <1>2, CloseImplements
  <1>3. CASE RefusedCall
    BY <1>3, RefusedImplements
  <1>4. ASSUME NEW n \in Reads, ReadCall(n) PROVE SourceStep
    BY <1>4, ReadCallImplements, SessionAssumption
  <1>5. ASSUME NEW point \in Seeks, SeekCall(point) PROVE SourceStep
    BY <1>5, SeekCallImplements, SessionAssumption
  <1>6. ASSUME NEW maxSize \in TailRooms, TailCall(maxSize) PROVE SourceStep
    BY <1>6, TailImplements
  <1>7. CASE ReadStep
    BY <1>7, ReadStepImplements
  <1>8. CASE SeekStep
    BY <1>8, SeekStepImplements
  <1>9. CASE UNCHANGED vars
    BY <1>9, StutterImplements DEF vars
  <1>10. QED BY <1>1, <1>2, <1>3, <1>4, <1>5, <1>6, <1>7, <1>8, <1>9 DEF Next, Step

LEMMA InitImplements == Init => Source!Init
  <1> SUFFICES ASSUME Init PROVE Source!Init
    OBVIOUS
  <1>1. stream \in Streams
    BY DEF Init
  <1>2. noPoints \in {Points(s) : s \in Streams} /\ TailOf(stream) \in {TailOf(s) : s \in Streams}
    BY <1>1 DEF noPoints
  <1>3. QED BY <1>2 DEF Init, Source!Init

(* Where the whole blocks of a file have one set of stages, a caller of    *)
(* the C interface sees a plain source of frames: OptimFROG_open, _read,   *)
(* _seekPoint, _readTail and _close implement FrameSource, for every       *)
(* division of a file into blocks and payloads, every portion asked for    *)
(* and every point gone to.  On a damaged file what is left of that holds. *)
THEOREM CallerSeesFrames ==
  ASSUME OneConfigurationEach
  PROVE  Spec => ImplementsFrameSource
  <1>1. Init => Source!Init
    BY InitImplements
  <1>2. IInv /\ [Next]_vars => [Source!Next]_(Source!vars)
    BY NextImplements DEF SourceStep
  <1>3. QED BY <1>1, <1>2, Invariant, PTL DEF Spec, ImplementsFrameSource, Source!Spec

-----------------------------------------------------------------------------
(* The programs *)

Places == {"scan", "open", "seek", "gone", "read", "got", "tail", "close", "judge", "ended"}

AnyProgram ==
  [kind: {"caller", "readAll", "raw", "wav", "dump", "verify", "check"},
   at: Places, from: Nat, pcm: Seq(Int), tail: Int, code: Int]

(* Only readAll follows a seek, only --decode to raw takes the tail.       *)
ProgramTyped ==
  /\ program \in AnyProgram
  /\ program.kind = "caller" => program.at = "open"
  /\ program.at \in {"seek", "gone"} => program.kind = "readAll"
  /\ program.at = "tail" => program.kind = "raw"

(* A program goes to no negative point, and only readAll may be lost.      *)
Straight ==
  program.kind # "caller" => slip = 0 /\ (program.kind # "readAll" => ~failedSeek)

(* It is where it waits for its call, with the file open.                  *)
Waiting ==
  program.kind # "caller" =>
    /\ call.op = "seek" => program.at = "gone" /\ call.point \in Nat
    /\ call.op = "read" => program.at = "got"
    /\ program.at \in {"seek", "gone", "read", "got", "tail", "close"} => is_opened
    /\ program.at \in {"seek", "gone", "read", "got", "tail"} => ~tail_read

(* What it has is what lies between where it began and where it is.        *)
Collected ==
  /\ program.at \in {"scan", "open", "seek", "gone"} => program.pcm = <<>> /\ program.from = 0
  /\ program.at \in {"seek", "gone"} => points_read_so_far >= 0
  /\ program.at \in {"read", "tail", "close"} \/ (program.at = "got" /\ call # Idle) =>
       points_read_so_far = program.from + Len(program.pcm)
  /\ LaidOut(stream) /\ OneConfiguration(stream) =>
       \A i \in 1 .. Len(program.pcm) : program.pcm[i] = program.from + i

(* A chunk that it has not taken over yet; one of no frames is the last.   *)
ChunkWaits ==
  program.at = "got" /\ call = Idle =>
    /\ result.op = "read" /\ result.frames \in Seq(Int) /\ result.asked \in Nat
    /\ points_read_so_far = program.from + Len(program.pcm) + Len(result.frames)
    /\ result.asked = 0 => points_read_so_far = noPoints
    /\ LaidOut(stream) /\ OneConfiguration(stream) =>
         \A i \in 1 .. Len(result.frames) :
            result.frames[i] = program.from + Len(program.pcm) + i

Finished ==
  program.at \in {"tail", "close"} => points_read_so_far = noPoints \/ eng.errors

TailTaken ==
  program.at = "close" /\ program.kind = "raw" /\ LaidOut(stream) /\ noPoints > 0 =>
    program.tail = TailOf(stream) \/ TailOf(stream) > TailRoom

ProgramInv ==
  /\ ProgramTyped /\ Straight /\ Waiting /\ Collected /\ ChunkWaits /\ Finished /\ TailTaken

PInv == IInv /\ ProgramInv

-----------------------------------------------------------------------------
(* Lemmas: what a program's calls do *)

LEMMA ProgramFacts ==
  ASSUME ProgramTyped
  PROVE  /\ program.kind \in {"caller", "readAll", "raw", "wav", "dump", "verify", "check"}
         /\ program.at \in Places /\ program.from \in Nat /\ program.pcm \in Seq(Int)
         /\ program.tail \in Int /\ program.code \in Int /\ Len(program.pcm) \in Nat
  <1>1. program.pcm \in Seq(Int)
    BY DEF ProgramTyped, AnyProgram
  <1>2. Len(program.pcm) \in Nat
    BY <1>1
  <1>3. QED BY <1>2 DEF ProgramTyped, AnyProgram

(* A move to another place, with all else as it was.                       *)
LEMMA GotoTyped ==
  ASSUME ProgramTyped, NEW place \in Places, Goto(place)
  PROVE  /\ program' \in AnyProgram /\ program'.at = place
         /\ program'.kind = program.kind /\ program'.from = program.from
         /\ program'.pcm = program.pcm /\ program'.tail = program.tail
  BY DEF ProgramTyped, AnyProgram, Goto

LEMMA EndsTyped ==
  ASSUME ProgramTyped, NEW code \in Int, Ends(code)
  PROVE  /\ program' \in AnyProgram /\ program'.at = "ended"
         /\ program'.kind = program.kind /\ program'.from = program.from
         /\ program'.pcm = program.pcm /\ program'.tail = program.tail
  BY DEF ProgramTyped, AnyProgram, Ends, Places

(* A program that has ended, or is about to judge, waits for nothing.      *)
LEMMA LeftAlone ==
  ASSUME ProgramInv, call = Idle, program' \in AnyProgram, program'.at \in {"judge", "ended"},
         program'.kind = program.kind, program'.pcm = program.pcm, program'.from = program.from,
         program.kind # "caller", UNCHANGED <<stream, failedSeek, slip, call>>
  PROVE  ProgramInv'
  <1>1. call'.op = "none"
    BY DEF Idle
  <1>2. ProgramTyped' /\ Straight'
    BY DEF ProgramInv, ProgramTyped, Straight
  <1>3. Waiting' /\ ChunkWaits' /\ Finished' /\ TailTaken'
    BY <1>1 DEF Waiting, ChunkWaits, Finished, TailTaken
  <1>4. Collected'
    BY DEF ProgramInv, Collected
  <1>5. QED BY <1>2, <1>3, <1>4 DEF ProgramInv

LEMMA ReadStaysRead ==
  ASSUME IInv, ReadStep
  PROVE  call' = Idle \/ call'.op = "read"
  <1>1. call \in ReadCalls
    BY InRead DEF ReadStep
  <1>2. ASSUME NEW frames, call' = [call EXCEPT !.frames = frames, !.turn = 1 - @]
        PROVE  call'.op = "read"
    BY <1>1, <1>2 DEF ReadCalls
  <1>3. QED BY <1>2 DEF ReadStep, ReadReturns

LEMMA SeekStaysSeek ==
  ASSUME IInv, SeekStep
  PROVE  call' = Idle \/ (call'.op = "seek" /\ call'.point = call.point)
  <1>1. call \in SeekCalls
    BY InSeek DEF SeekStep
  <1>2. ASSUME NEW got, call' = [call EXCEPT !.got = got, !.turn = 1 - @]
        PROVE  call'.op = "seek" /\ call'.point = call.point
    BY <1>1, <1>2 DEF SeekCalls
  <1>3. ASSUME NEW e, NEW turn, SeekContinues(call.point, e, turn)
        PROVE  call' = Idle \/ (call'.op = "seek" /\ call'.point = call.point)
    BY <1>3 DEF SeekContinues, SeekReturns
  <1>4. ASSUME NEW ok, SeekReturns(call.point, ok)
        PROVE  call' = Idle
    BY <1>4 DEF SeekReturns
  <1>5. PICK at \in Entered(eng) :
          LET it == Iteration(at, call.want - call.got) got == call.got + Len(it.frames)
          IN IF ~at.missing /\ got < call.want /\ ~AtEnd(it.eng)
             THEN call' = [call EXCEPT !.got = got, !.turn = 1 - @]
             ELSE IF GivesUp(got)
             THEN SeekReturns(call.point, it.eng.samples_read = SeekTarget(call.point))
             ELSE SeekContinues(call.point, it.eng, 1 - call.turn)
    BY DEF SeekStep
  <1>6. QED BY <1>2, <1>3, <1>4, <1>5

(* A read that is over has its chunk waiting.                              *)
LEMMA ChunkArrives ==
  ASSUME IInv, ProgramInv, program.kind # "caller", program'.at = "got",
         program' \in AnyProgram, program'.kind = program.kind, program'.from = program.from,
         program'.pcm = program.pcm, points_read_so_far = program.from + Len(program.pcm),
         is_opened, ~tail_read, UNCHANGED <<stream, is_opened, tail_read, failedSeek, slip>>,
         NEW frames \in Seq(Int), NEW asked \in Nat, ReadReturns(frames, asked),
         asked = 0 => points_read_so_far = noPoints /\ frames = <<>>,
         LaidOut(stream) /\ OneConfiguration(stream) =>
           \A i \in 1 .. Len(frames) : frames[i] = points_read_so_far - slip + i
  PROVE  ProgramInv'
  <1>1. /\ points_read_so_far' = points_read_so_far + Len(frames)
        /\ result' = [op |-> "read", frames |-> frames, asked |-> asked]
        /\ call' = Idle
    BY DEF ReadReturns
  <1>2. slip = 0 /\ points_read_so_far \in Int /\ Len(frames) \in Nat
    BY InstanceFacts DEF ProgramInv, Straight
  <1>3. ProgramTyped' /\ Straight'
    BY DEF ProgramInv, ProgramTyped, Straight
  <1>4. Waiting'
    BY <1>1 DEF Waiting, Idle
  <1>5. Collected'
    BY <1>1 DEF ProgramInv, Collected
  <1>6. ChunkWaits'
    <2>1. result'.op = "read" /\ result'.frames = frames /\ result'.asked = asked
      BY <1>1
    <2>2. noPoints' = noPoints
      BY DEF noPoints
    <2>3. asked = 0 => points_read_so_far' = noPoints
      <3>1. frames = <<>> => Len(frames) = 0
        OBVIOUS
      <3>2. QED BY <1>1, <1>2, <3>1
    <2>4. LaidOut(stream) /\ OneConfiguration(stream) =>
            \A i \in 1 .. Len(frames) : frames[i] = program.from + Len(program.pcm) + i
      <3>1. points_read_so_far - slip = points_read_so_far
        BY <1>2
      <3>2. QED BY <3>1
    <2>5. QED BY <1>1, <2>1, <2>2, <2>3, <2>4 DEF ChunkWaits
  <1>7. Finished' /\ TailTaken'
    BY DEF Finished, TailTaken
  <1>8. QED BY <1>3, <1>4, <1>5, <1>6, <1>7 DEF ProgramInv

(* A read that goes on.                                                    *)
LEMMA ReadGoesOn ==
  ASSUME ProgramInv, program.kind # "caller", program'.at = "got",
         program' \in AnyProgram, program'.kind = program.kind, program'.from = program.from,
         program'.pcm = program.pcm, points_read_so_far = program.from + Len(program.pcm),
         is_opened, ~tail_read, UNCHANGED <<stream, is_opened, tail_read, points_read_so_far, failedSeek, slip>>,
         call'.op = "read"
  PROVE  ProgramInv'
  <1>1. ProgramTyped' /\ Straight'
    BY DEF ProgramInv, ProgramTyped, Straight
  <1>2. Waiting' /\ ChunkWaits'
    BY DEF Waiting, ChunkWaits, Idle
  <1>3. Collected'
    BY DEF ProgramInv, Collected
  <1>4. Finished' /\ TailTaken'
    BY DEF Finished, TailTaken
  <1>5. QED BY <1>1, <1>2, <1>3, <1>4 DEF ProgramInv

(* A seek that is over, or goes on.                                        *)
LEMMA SeekMoves ==
  ASSUME IInv, ProgramInv, program.kind = "readAll", program'.at = "gone",
         program' \in AnyProgram, program'.kind = program.kind, program'.from = 0,
         program'.pcm = <<>>, is_opened, ~tail_read, UNCHANGED <<stream, is_opened, tail_read>>,
         NEW point \in Nat,
         points_read_so_far >= 0,
         \/ call'.op = "seek" /\ call'.point = point /\ UNCHANGED <<slip, points_read_so_far>>
         \/ \E ok : SeekReturns(point, ok)
  PROVE  ProgramInv'
  <1>1. slip = 0
    BY DEF ProgramInv, Straight
  <1>2. /\ slip' = 0 /\ points_read_so_far' >= 0
        /\ call' = Idle \/ (call'.op = "seek" /\ call'.point = point)
    <2>1. Min({point, 0}) = 0 /\ point >= 0 /\ noPoints >= 0
      BY MinOfTwo, InstanceFacts
    <2>2. ASSUME NEW ok, SeekReturns(point, ok)
          PROVE  slip' = 0 /\ call' = Idle /\ points_read_so_far' >= 0
      BY <1>1, <2>1, <2>2 DEF SeekReturns
    <2>3. QED BY <1>1, <2>2
  <1>3. ProgramTyped' /\ Straight'
    BY <1>2 DEF ProgramTyped, Straight
  <1>4. Waiting' /\ ChunkWaits'
    BY <1>2 DEF Waiting, ChunkWaits, Idle
  <1>5. Collected'
    <2>1. 1 .. Len(<<>>) = {}
      OBVIOUS
    <2>2. QED BY <1>2, <2>1 DEF Collected
  <1>6. Finished' /\ TailTaken'
    BY DEF Finished, TailTaken
  <1>7. QED BY <1>3, <1>4, <1>5, <1>6 DEF ProgramInv

-----------------------------------------------------------------------------
(* The steps of the programs *)

LEMMA ScannedKeeps ==
  ASSUME IInv, ProgramInv, program.kind # "caller", Scanned
  PROVE  ProgramInv'
  <1>1. call = Idle /\ program.at = "scan" /\ UNCHANGED vars
    BY DEF Scanned, At
  <1>2. ASSUME NEW code \in Int, Ends(code) PROVE ProgramInv'
    BY <1>1, <1>2, EndsTyped, LeftAlone DEF ProgramInv, vars
  <1>3. ASSUME Goto("open") PROVE ProgramInv'
    <2>1. /\ program' \in AnyProgram /\ program'.at = "open"
          /\ program'.kind = program.kind /\ program'.from = program.from
          /\ program'.pcm = program.pcm /\ program'.tail = program.tail
      BY <1>3, GotoTyped DEF ProgramInv, Places
    <2>2. UNCHANGED <<stream, eng, is_opened, points_read_so_far, failedSeek, slip, call, result>>
      BY <1>1 DEF vars
    <2>3. call'.op = "none"
      BY <1>1, <2>2 DEF Idle
    <2>4. ProgramTyped' /\ Straight'
      BY <2>1, <2>2 DEF ProgramInv, ProgramTyped, Straight
    <2>5. Waiting' /\ ChunkWaits' /\ Finished' /\ TailTaken'
      BY <2>1, <2>3 DEF Waiting, ChunkWaits, Finished, TailTaken
    <2>6. Collected'
      BY <1>1, <2>1, <2>2 DEF ProgramInv, Collected
    <2>7. QED BY <2>4, <2>5, <2>6 DEF ProgramInv
  <1>4. Ends(1) \/ Ends(0) \/ Goto("open")
    BY DEF Scanned
  <1>5. QED BY <1>2, <1>3, <1>4

LEMMA DestinationKeeps ==
  ASSUME IInv, ProgramInv, program.kind # "caller", DestinationExists
  PROVE  ProgramInv'
  <1>1. call = Idle /\ Ends(1) /\ UNCHANGED vars
    BY DEF DestinationExists, At
  <1>2. QED BY <1>1, EndsTyped, LeftAlone DEF ProgramInv, vars

LEMMA OpensFileKeeps ==
  ASSUME IInv, ProgramInv, program.kind # "caller", OpensFile
  PROVE  ProgramInv'
  <1>1. call = Idle /\ call' = Idle /\ program.at = "open" /\ OpenCall /\ UNCHANGED stream
    BY DEF OpensFile, At, OpenCall
  <1>2. CASE Opens
    <2> DEFINE place == IF program.kind = "readAll" THEN "seek" ELSE "read"
    <2>1. /\ is_opened' = TRUE /\ points_read_so_far' = 0 /\ tail_read' = FALSE
          /\ failedSeek' = FALSE /\ slip' = 0
      BY <1>1, <1>2 DEF OpenCall
    <2>2. Goto(place) /\ place \in Places
      BY <1>2 DEF OpensFile, Places
    <2>3. /\ program' \in AnyProgram /\ program'.at = place
          /\ program'.kind = program.kind /\ program'.from = program.from
          /\ program'.pcm = program.pcm /\ program'.tail = program.tail
      BY <2>2, GotoTyped DEF ProgramInv
    <2>4. program'.pcm = <<>> /\ program'.from = 0 /\ Len(<<>>) = 0
      BY <1>1, <2>3 DEF ProgramInv, Collected
    <2>5. ProgramTyped' /\ Straight'
      BY <2>1, <2>3 DEF ProgramTyped, Straight
    <2>6. Waiting' /\ ChunkWaits' /\ Finished' /\ TailTaken'
      BY <1>1, <2>1, <2>3 DEF Waiting, ChunkWaits, Finished, TailTaken, Idle
    <2>7. Collected'
      <3>1. 1 .. Len(<<>>) = {} /\ 0 + 0 = 0 /\ 0 >= 0
        OBVIOUS
      <3>2. QED BY <1>1, <2>1, <2>3, <2>4, <3>1 DEF Collected
    <2>8. QED BY <2>5, <2>6, <2>7 DEF ProgramInv
  <1>3. CASE Opens = FALSE
    <2>1. Ends(1) /\ UNCHANGED <<failedSeek, slip>>
      BY <1>1, <1>3 DEF OpensFile, OpenCall
    <2>2. QED BY <1>1, <2>1, EndsTyped, LeftAlone DEF ProgramInv
  <1>4. QED BY <1>2, <1>3 DEF Opens

LEMMA GoesKeeps ==
  ASSUME IInv, ProgramInv, program.kind # "caller", Goes
  PROVE  ProgramInv'
  <1>1. PICK point \in Starts : SeekCall(point)
    BY DEF Goes
  <1>2. point \in Nat /\ call = Idle /\ program.at = "seek" /\ Goto("gone")
        /\ is_opened /\ UNCHANGED <<stream, is_opened, tail_read>>
    BY <1>1, ProgramsAssumption DEF Goes, At, SeekCall
  <1>3. /\ program' \in AnyProgram /\ program'.at = "gone"
        /\ program'.kind = program.kind /\ program'.from = program.from
        /\ program'.pcm = program.pcm
    BY <1>2, GotoTyped DEF ProgramInv, Places
  <1>4. program.kind = "readAll" /\ program.pcm = <<>> /\ program.from = 0
        /\ points_read_so_far >= 0 /\ ~tail_read
    BY <1>2 DEF ProgramInv, ProgramTyped, Collected, Waiting
  <1>5. \/ call'.op = "seek" /\ call'.point = point /\ UNCHANGED <<slip, points_read_so_far>>
        \/ \E ok : SeekReturns(point, ok)
    <2>1. SeekContinues(point, Rewound(eng), 0) \/ SeekReturns(point, FALSE)
      BY <1>1 DEF SeekCall
    <2>2. ASSUME SeekContinues(point, Rewound(eng), 0)
          PROVE  \/ call'.op = "seek" /\ call'.point = point /\ UNCHANGED <<slip, points_read_so_far>>
                 \/ SeekReturns(point, Rewound(eng).samples_read = SeekTarget(point))
      BY <2>2 DEF SeekContinues
    <2>3. QED BY <2>1, <2>2
  <1>6. QED BY <1>2, <1>3, <1>4, <1>5, SeekMoves

LEMMA GoneKeeps ==
  ASSUME IInv, ProgramInv, program.kind # "caller", Gone
  PROVE  ProgramInv'
  <1>1. /\ call = Idle /\ program.at \in {"gone", "seek"} /\ UNCHANGED vars
        /\ program' = [program EXCEPT !.at = "read", !.from = points_read_so_far]
    BY DEF Gone, At
  <1>2. /\ program' \in AnyProgram /\ program'.at = "read" /\ program'.kind = program.kind
        /\ program'.from = points_read_so_far /\ program'.pcm = program.pcm
    <2>1. points_read_so_far \in Nat
      BY <1>1, InstanceFacts DEF ProgramInv, Collected
    <2>2. QED BY <1>1, <2>1 DEF ProgramInv, ProgramTyped, AnyProgram, Places
  <1>3. program.pcm = <<>> /\ is_opened /\ ~tail_read
    BY <1>1 DEF ProgramInv, Collected, Waiting
  <1>4. UNCHANGED <<stream, is_opened, points_read_so_far, tail_read, failedSeek, slip, call>>
    BY <1>1 DEF vars
  <1>5. call'.op = "none"
    BY <1>1, <1>4 DEF Idle
  <1>6. ProgramTyped' /\ Straight'
    BY <1>2, <1>4 DEF ProgramInv, ProgramTyped, Straight
  <1>7. Waiting' /\ ChunkWaits' /\ Finished' /\ TailTaken'
    BY <1>2, <1>3, <1>4, <1>5 DEF Waiting, ChunkWaits, Finished, TailTaken
  <1>8. Collected'
    <2>1. Len(<<>>) = 0 /\ 1 .. Len(<<>>) = {} /\ points_read_so_far = points_read_so_far + 0
      BY InstanceFacts
    <2>2. QED BY <1>2, <1>3, <1>4, <2>1 DEF Collected
  <1>9. QED BY <1>6, <1>7, <1>8 DEF ProgramInv

LEMMA WantedFacts ==
  ASSUME IInv, ProgramInv
  PROVE  /\ Wanted > 0 => Wanted \in Nat
         /\ Wanted = 0 => noPoints = Len(program.pcm)
         /\ Wanted \in Int
  <1> DEFINE m == noPoints - Len(program.pcm)
  <1>1. ProgramChunk \in Nat \ {0} /\ m \in Int /\ noPoints \in Nat /\ Len(program.pcm) \in Nat
    BY ProgramsAssumption, InstanceFacts, ProgramFacts DEF ProgramInv
  <1>2. Wanted = IF program.kind = "dump" THEN ProgramChunk ELSE Min({ProgramChunk, m})
    BY DEF Wanted
  <1>3. m = 0 => noPoints = Len(program.pcm)
    BY <1>1
  <1> HIDE DEF m
  <1>4. Min({ProgramChunk, m}) = IF ProgramChunk < m THEN ProgramChunk ELSE m
    BY <1>1, MinOfTwo
  <1>5. QED BY <1>1, <1>2, <1>3, <1>4

LEMMA ReadsChunkKeeps ==
  ASSUME IInv, ProgramInv, program.kind # "caller", ReadsChunk
  PROVE  ProgramInv'
  <1> DEFINE points == Min({Wanted, noPoints - points_read_so_far})
  <1>1. /\ call = Idle /\ program.at = "read" /\ Wanted > 0 /\ ReadCall(Wanted) /\ Goto("got")
        /\ is_opened /\ UNCHANGED <<stream, is_opened, tail_read, failedSeek, slip>>
    BY DEF ReadsChunk, At, ReadCall
  <1>2. /\ program' \in AnyProgram /\ program'.at = "got"
        /\ program'.kind = program.kind /\ program'.from = program.from
        /\ program'.pcm = program.pcm
    BY <1>1, GotoTyped DEF ProgramInv, Places
  <1>3. points_read_so_far = program.from + Len(program.pcm) /\ ~tail_read
    BY <1>1 DEF ProgramInv, Collected, Waiting
  <1>4. points \in Nat /\ (points = 0 => points_read_so_far = noPoints)
    <2> DEFINE m == noPoints - points_read_so_far n == Wanted
    <2>1. n \in Nat /\ n > 0
      BY <1>1, WantedFacts
    <2>2. m \in Nat /\ (m = 0 => points_read_so_far = noPoints)
      BY InstanceFacts
    <2> HIDE DEF m, n
    <2>3. Min({n, m}) = IF n < m THEN n ELSE m
      BY <2>1, <2>2, MinOfTwo
    <2>4. Min({n, m}) \in Nat /\ (Min({n, m}) = 0 => m = 0)
      BY <2>1, <2>2, <2>3
    <2>5. QED BY <2>2, <2>4 DEF m, n
  <1> HIDE DEF points
  <1>5. CASE points = 0 \/ AtEnd(eng)
    <2>1. ReadReturns(<<>>, points)
      BY <1>1, <1>5 DEF ReadCall, points
    <2>2. <<>> \in Seq(Int) /\ 1 .. Len(<<>>) = {}
      OBVIOUS
    <2>3. QED BY <1>1, <1>2, <1>3, <1>4, <2>1, <2>2, ChunkArrives
  <1>6. CASE ~(points = 0 \/ AtEnd(eng))
    <2>1. /\ call' = [op |-> "read", want |-> points, frames |-> <<>>, turn |-> 0]
          /\ UNCHANGED points_read_so_far
      BY <1>1, <1>6 DEF ReadCall, points
    <2>2. call'.op = "read"
      BY <2>1
    <2>3. QED BY <1>1, <1>2, <1>3, <2>1, <2>2, ReadGoesOn
  <1>7. QED BY <1>5, <1>6

LEMMA ReadGoingKeeps ==
  ASSUME IInv, ProgramInv, program.kind # "caller", ReadStep, UNCHANGED program
  PROVE  ProgramInv'
  <1>1. call.op = "read" /\ UNCHANGED <<stream, is_opened, tail_read, failedSeek, slip>>
    BY DEF ReadStep
  <1>2. /\ is_opened /\ call # Idle /\ call.want \in Nat /\ Len(call.frames) \in Nat
        /\ Len(call.frames) < call.want
    BY <1>1, InRead
  <1>3. program.at = "got" /\ points_read_so_far = program.from + Len(program.pcm) /\ ~tail_read
    BY <1>1, <1>2 DEF ProgramInv, Waiting, Collected
  <1>4. /\ program' \in AnyProgram /\ program'.at = "got"
        /\ program'.kind = program.kind /\ program'.from = program.from
        /\ program'.pcm = program.pcm
    BY <1>3 DEF ProgramInv, ProgramTyped
  <1>5. CASE call' # Idle /\ UNCHANGED <<points_read_so_far, result>>
    <2>1. call'.op = "read"
      BY <1>5, ReadStaysRead
    <2>2. QED BY <1>1, <1>2, <1>3, <1>4, <1>5, <2>1, ReadGoesOn
  <1>6. ASSUME NEW frames \in Seq(Int), ReadReturns(frames, call.want),
               LaidOut(stream) /\ OneConfiguration(stream) =>
                 \A i \in 1 .. Len(frames) : frames[i] = points_read_so_far - slip + i
        PROVE  ProgramInv'
    <2>1. call.want # 0
      BY <1>2
    <2>2. QED BY <1>1, <1>2, <1>3, <1>4, <1>6, <2>1, ChunkArrives
  <1>7. QED BY <1>5, <1>6, ReadStepKeeps

LEMMA SeekGoingKeeps ==
  ASSUME IInv, ProgramInv, program.kind # "caller", SeekStep, UNCHANGED program
  PROVE  ProgramInv'
  <1>1. call.op = "seek" /\ UNCHANGED <<stream, is_opened, tail_read>>
    BY DEF SeekStep
  <1>2. is_opened
    BY <1>1, InSeek
  <1>3. program.at = "gone" /\ call.point \in Nat /\ ~tail_read
    BY <1>1 DEF ProgramInv, Waiting
  <1>4. /\ program' \in AnyProgram /\ program'.at = "gone" /\ program.kind = "readAll"
        /\ program'.kind = program.kind /\ program'.from = 0 /\ program'.pcm = <<>>
        /\ points_read_so_far >= 0
    BY <1>3 DEF ProgramInv, ProgramTyped, Collected
  <1>5. CASE call' # Idle /\ UNCHANGED <<points_read_so_far, failedSeek, slip, result>>
    <2>1. call'.op = "seek" /\ call'.point = call.point
      BY <1>5, SeekStaysSeek
    <2>2. QED BY <1>1, <1>2, <1>3, <1>4, <1>5, <2>1, SeekMoves
  <1>6. ASSUME NEW ok \in BOOLEAN, SeekReturns(call.point, ok) PROVE ProgramInv'
    BY <1>1, <1>2, <1>3, <1>4, <1>6, SeekMoves
  <1>7. QED BY <1>5, <1>6, SeekStepKeeps

(* The frames of a chunk go behind those that are there.                   *)
LEMMA GotChunkKeeps ==
  ASSUME IInv, ProgramInv, program.kind # "caller", GotChunk
  PROVE  ProgramInv'
  <1> DEFINE pcm == program.pcm frames == result.frames all == pcm \o frames
             place == IF NothingRead THEN AfterReading ELSE "read"
  <1>1. /\ call = Idle /\ program.at = "got" /\ UNCHANGED vars
        /\ program' = [program EXCEPT !.pcm = all, !.at = place]
    BY DEF GotChunk, At
  <1>2. pcm \in Seq(Int) /\ Len(pcm) \in Nat /\ program.from \in Int
    BY ProgramFacts DEF ProgramInv
  <1>3. /\ result.op = "read" /\ frames \in Seq(Int) /\ result.asked \in Nat
        /\ points_read_so_far = program.from + Len(pcm) + Len(frames)
        /\ result.asked = 0 => points_read_so_far = noPoints
        /\ LaidOut(stream) /\ OneConfiguration(stream) =>
             \A i \in 1 .. Len(frames) : frames[i] = program.from + Len(pcm) + i
    BY <1>1 DEF ProgramInv, ChunkWaits
  <1>4. /\ all \in Seq(Int) /\ Len(all) = Len(pcm) + Len(frames) /\ Len(frames) \in Nat
        /\ \A i \in 1 .. Len(pcm) : all[i] = pcm[i]
        /\ \A i \in 1 .. Len(pcm) + Len(frames) :
             i > Len(pcm) => i - Len(pcm) \in 1 .. Len(frames) /\ all[i] = frames[i - Len(pcm)]
    <2>1. pcm \in Seq(Int) /\ frames \in Seq(Int)
      BY <1>2, <1>3
    <2> HIDE DEF pcm, frames
    <2>2. QED BY <2>1, ConcatFacts
  <1>5. place \in {"read", "tail", "close"} /\ (place = "tail" => program.kind = "raw")
        /\ (place = "close" => program.kind # "raw") /\ (place # "read" => frames = <<>>)
    BY DEF AfterReading, NothingRead
  <1> HIDE DEF all, place
  <1>6. /\ program' \in AnyProgram /\ program'.at = place
        /\ program'.kind = program.kind /\ program'.from = program.from
        /\ program'.pcm = all
    BY <1>1, <1>4, <1>5 DEF ProgramInv, ProgramTyped, AnyProgram, Places
  <1>7. /\ UNCHANGED <<stream, eng, is_opened, points_read_so_far, tail_read, failedSeek, slip>>
        /\ UNCHANGED <<call, result>>
    BY <1>1 DEF vars
  <1>8. call'.op = "none" /\ is_opened /\ ~tail_read
    BY <1>1, <1>7 DEF Idle, ProgramInv, Waiting
  <1>9. ProgramTyped' /\ Straight'
    BY <1>5, <1>6, <1>7 DEF ProgramInv, ProgramTyped, Straight
  <1>10. Waiting' /\ ChunkWaits' /\ TailTaken'
    BY <1>5, <1>6, <1>7, <1>8 DEF Waiting, ChunkWaits, TailTaken
  <1>11. Collected'
    <2>1. points_read_so_far = program.from + Len(all)
      <3> DEFINE x == Len(pcm) y == Len(frames) z == Len(all)
      <3>1. x \in Nat /\ y \in Nat /\ z = x + y /\ points_read_so_far = program.from + x + y
        BY <1>2, <1>3, <1>4
      <3> HIDE DEF x, y, z
      <3>2. points_read_so_far = program.from + z
        BY <1>2, <3>1
      <3>3. QED BY <3>2 DEF z
    <2>2. ASSUME LaidOut(stream), OneConfiguration(stream), NEW i \in 1 .. Len(all)
          PROVE  all[i] = program.from + i
      <3>1. CASE i <= Len(pcm)
        <4>1. i \in 1 .. Len(pcm)
          BY <1>2, <3>1
        <4>2. QED BY <1>4, <2>2, <4>1 DEF ProgramInv, Collected
      <3>2. CASE i > Len(pcm)
        <4>1. i - Len(pcm) \in 1 .. Len(frames) /\ all[i] = frames[i - Len(pcm)]
          BY <1>4, <2>2, <3>2
        <4>2. all[i] = program.from + Len(pcm) + (i - Len(pcm))
          BY <1>3, <2>2, <4>1
        <4> DEFINE x == Len(pcm)
        <4>3. x \in Nat /\ i \in Int
          BY <1>2
        <4> HIDE DEF x
        <4>4. program.from + x + (i - x) = program.from + i
          BY <1>2, <4>3
        <4>5. QED BY <4>2, <4>4 DEF x
      <3>3. QED BY <1>2, <3>1, <3>2
    <2>3. ~(program'.at \in {"scan", "open", "seek", "gone"})
      BY <1>5, <1>6
    <2>4. QED BY <1>6, <1>7, <2>1, <2>2, <2>3 DEF Collected
  <1>12. Finished'
    <2>1. ASSUME place # "read" PROVE points_read_so_far = noPoints \/ eng.errors
      <3>1. Len(frames) = 0
        BY <1>5, <2>1
      <3>2. CASE result.asked = 0
        BY <1>3, <3>2
      <3>3. CASE result.asked # 0
        <4>1. Len(result.frames) < result.asked
          BY <1>3, <3>1, <3>3
        <4>2. slip = 0
          BY DEF ProgramInv, Straight
        <4>3. QED BY <1>1, <1>3, <4>1, <4>2 DEF IInv, ShortReadTold
      <3>4. QED BY <3>2, <3>3
    <2>2. noPoints' = noPoints
      BY <1>7 DEF noPoints
    <2>3. QED BY <1>6, <1>7, <2>1, <2>2 DEF Finished
  <1>13. QED BY <1>9, <1>10, <1>11, <1>12 DEF ProgramInv

LEMMA GotAllKeeps ==
  ASSUME IInv, ProgramInv, program.kind # "caller", GotAll
  PROVE  ProgramInv'
  <1>1. call = Idle /\ program.at = "read" /\ Wanted = 0 /\ Goto(AfterReading) /\ UNCHANGED vars
    BY DEF GotAll, At
  <1>2. /\ AfterReading \in {"tail", "close"} /\ AfterReading \in Places
        /\ AfterReading = "tail" => program.kind = "raw"
        /\ AfterReading = "close" => program.kind # "raw"
    BY DEF AfterReading, Places
  <1>3. /\ program' \in AnyProgram /\ program'.at = AfterReading
        /\ program'.kind = program.kind /\ program'.from = program.from
        /\ program'.pcm = program.pcm
    BY <1>1, <1>2, GotoTyped DEF ProgramInv
  <1>4. /\ UNCHANGED <<stream, eng, is_opened, points_read_so_far, tail_read, failedSeek, slip>>
        /\ UNCHANGED <<call, result>>
    BY <1>1 DEF vars
  <1>5. call'.op = "none" /\ is_opened /\ ~tail_read
    BY <1>1, <1>4 DEF Idle, ProgramInv, Waiting
  <1>6. ProgramTyped' /\ Straight'
    BY <1>2, <1>3, <1>4 DEF ProgramInv, ProgramTyped, Straight
  <1>7. Waiting' /\ ChunkWaits' /\ TailTaken'
    BY <1>2, <1>3, <1>4, <1>5 DEF Waiting, ChunkWaits, TailTaken
  <1>8. Collected'
    BY <1>1, <1>2, <1>3, <1>4 DEF ProgramInv, Collected
  <1>9. Finished'
    <2> DEFINE x == Len(program.pcm)
    <2>1. points_read_so_far = program.from + x /\ noPoints = x /\ program.from \in Nat
          /\ x \in Nat /\ points_read_so_far <= noPoints
      BY <1>1, WantedFacts, InstanceFacts, ProgramFacts DEF ProgramInv, Collected
    <2> HIDE DEF x
    <2>2. points_read_so_far = noPoints
      BY <2>1
    <2>3. noPoints' = noPoints
      BY <1>4 DEF noPoints
    <2>4. QED BY <1>4, <2>2, <2>3 DEF Finished
  <1>10. QED BY <1>6, <1>7, <1>8, <1>9 DEF ProgramInv

(* The tail of an intact file is there, or there is no room for it.        *)
LEMMA ReadsTailKeeps ==
  ASSUME IInv, ProgramInv, program.kind # "caller", ReadsTail
  PROVE  ProgramInv'
  <1> DEFINE size == TailSize(eng'.tail)
             given == IF points_read_so_far = noPoints /\ size <= TailRoom THEN size ELSE -1
             taken == Max({given, 0})
  <1>1. /\ call = Idle /\ program.at = "tail" /\ TailCall(TailRoom)
        /\ program' = [program EXCEPT !.at = "close", !.tail = Max({result'.size, 0})]
    BY DEF ReadsTail, At
  <1>2. /\ is_opened /\ UNCHANGED <<stream, is_opened, points_read_so_far, failedSeek, slip, call>>
        /\ tail_read' = (tail_read \/ points_read_so_far = noPoints)
        /\ result' = [op |-> "tail", size |-> given]
    BY <1>1 DEF TailCall, TailSize
  <1>3. program' = [program EXCEPT !.at = "close", !.tail = taken]
    BY <1>1, <1>2
  <1>4. program.kind = "raw" /\ slip = 0 /\ ~failedSeek /\ ~tail_read
    BY <1>1 DEF ProgramInv, ProgramTyped, Straight, Waiting
  <1>5. eng'.errors = eng.errors /\ size \in Nat
    <2> DEFINE c == Bytes(eng, 1)[1]
    <2>1. DOMAIN eng = Fields /\ stream \in Streams
      BY <1>2 DEF IInv, Typed, EngineTyped
    <2>2. eng' = TailTried(eng) \/ eng' = eng
      BY <1>1 DEF TailCall
    <2>3. /\ Apart(TailTried(eng), eng, {"pos", "budget", "tail"})
          /\ TailTried(eng).tail = IF c.kind = "TAIL" THEN c ELSE eng.tail
      BY <2>1, TailTriedFacts
    <2>4. eng.tail = Zero
      BY <1>2, <1>4 DEF IInv, TailKept
    <2>5. c.kind = "TAIL" => c.size \in Nat
      <3>1. c = CellAt(eng.pos + 1) \/ c = Zero
        BY DEF Bytes
      <3>2. c.kind = "TAIL" => c = stream.cells[eng.pos + 1] /\ eng.pos + 1 \in DOMAIN stream.cells
        BY <2>1, <3>1, StreamFacts DEF CellAt, Cell, Zero
      <3>3. QED BY <2>1, <3>2, StreamsAssumption
    <2> HIDE DEF c
    <2>6. eng'.tail = Zero \/ (eng'.tail = c /\ c.kind = "TAIL")
      BY <2>2, <2>3, <2>4
    <2>7. size \in Nat
      BY <2>5, <2>6 DEF TailSize
    <2>8. eng'.errors = eng.errors
      BY <2>2, <2>3 DEF Apart, Fields
    <2>9. QED BY <2>7, <2>8
  <1>6. noPoints' = noPoints /\ TailOf(stream)' = TailOf(stream)
    BY <1>2, SameSource
  <1>7. LaidOut(stream) /\ points_read_so_far = noPoints /\ noPoints > 0 => size = TailOf(stream)
    <2>1. IInv'
      BY <1>1, TailKeeps
    <2>2. QED BY <1>2, <1>4, <1>6, <2>1 DEF IInv, TailKept
  <1>8. LaidOut(stream) => points_read_so_far = noPoints
    <2>1. points_read_so_far = noPoints \/ eng.errors
      BY <1>1 DEF ProgramInv, Finished
    <2>2. LaidOut(stream) /\ eng.errors => slip < 0
      BY <1>2 DEF IInv, Restorable
    <2>3. QED BY <1>4, <2>1, <2>2
  <1> HIDE DEF size
  <1>9. taken \in Int /\ (given = -1 \/ taken = size)
    <2>1. given \in Int /\ (given = -1 \/ given = size)
      BY <1>5
    <2> HIDE DEF given
    <2>2. taken = IF given < 0 THEN 0 ELSE given
      BY <2>1, MaxOfTwo
    <2>3. QED BY <1>5, <2>1, <2>2
  <1>10. given = -1 => points_read_so_far # noPoints \/ size > TailRoom
    BY <1>5, ProgramsAssumption
  <1> HIDE DEF given, taken
  <1>11. /\ program' \in AnyProgram /\ program'.at = "close"
         /\ program'.kind = program.kind /\ program'.from = program.from
         /\ program'.pcm = program.pcm /\ program'.tail = taken
    BY <1>3, <1>9 DEF ProgramInv, ProgramTyped, AnyProgram, Places
  <1>12. call'.op = "none"
    BY <1>1, <1>2 DEF Idle
  <1>13. ProgramTyped' /\ Straight'
    BY <1>2, <1>4, <1>11 DEF ProgramTyped, Straight
  <1>14. Waiting' /\ ChunkWaits'
    BY <1>2, <1>11, <1>12 DEF Waiting, ChunkWaits
  <1>15. Collected' /\ Finished'
    BY <1>1, <1>2, <1>5, <1>6, <1>11 DEF ProgramInv, Collected, Finished
  <1>16. TailTaken'
    BY <1>2, <1>6, <1>7, <1>8, <1>9, <1>10, <1>11 DEF TailTaken
  <1>17. QED BY <1>13, <1>14, <1>15, <1>16 DEF ProgramInv

LEMMA ClosesFileKeeps ==
  ASSUME IInv, ProgramInv, program.kind # "caller", ClosesFile
  PROVE  ProgramInv'
  <1>1. call = Idle /\ Goto("judge") /\ UNCHANGED <<stream, failedSeek, slip, call>>
    BY DEF ClosesFile, At, CloseCall
  <1>2. QED BY <1>1, GotoTyped, LeftAlone DEF ProgramInv, Places

LEMMA JudgesKeeps ==
  ASSUME IInv, ProgramInv, program.kind # "caller", Judges
  PROVE  ProgramInv'
  <1>1. call = Idle /\ UNCHANGED <<stream, failedSeek, slip, call>>
    BY DEF Judges, At, vars
  <1>2. Ends(0) \/ Ends(1)
    BY DEF Judges
  <1>3. QED BY <1>1, <1>2, EndsTyped, LeftAlone DEF ProgramInv

(* Someone else may do anything.                                           *)
LEMMA CallerKeeps ==
  ASSUME ProgramInv, program.kind = "caller", UNCHANGED <<program, stream>>
  PROVE  ProgramInv'
  <1>1. program.at = "open" /\ program'.at = "open" /\ program'.kind = "caller"
    BY DEF ProgramInv, ProgramTyped
  <1>2. ProgramTyped' /\ Straight' /\ Waiting' /\ ChunkWaits' /\ Finished' /\ TailTaken'
    BY <1>1 DEF ProgramInv, ProgramTyped, Straight, Waiting, ChunkWaits, Finished, TailTaken
  <1>3. Collected'
    BY <1>1 DEF ProgramInv, Collected
  <1>4. QED BY <1>2, <1>3 DEF ProgramInv

LEMMA StandsStill ==
  ASSUME ProgramInv, UNCHANGED programVars
  PROVE  ProgramInv'
  BY DEF programVars, vars, ProgramInv, ProgramTyped, Straight, Waiting, Collected, ChunkWaits,
         Finished, TailTaken, noPoints

-----------------------------------------------------------------------------
(* The invariant of the programs *)

(* What a program does to the instance is a call, or an iteration of one.  *)
AnyCall ==
  \/ OpenCall \/ CloseCall
  \/ \E n \in Nat : ReadCall(n)
  \/ \E point \in Nat : SeekCall(point)
  \/ TailCall(TailRoom)
  \/ ReadStep \/ SeekStep

LEMMA ProgramCalls ==
  ASSUME IInv, ProgramInv, ProgramStep
  PROVE  AnyCall \/ UNCHANGED vars
  <1>1. CASE Scanned \/ DestinationExists \/ Gone \/ GotChunk \/ GotAll \/ Judges
    BY <1>1 DEF Scanned, DestinationExists, Gone, GotChunk, GotAll, Judges
  <1>2. CASE OpensFile \/ ReadsTail \/ ClosesFile
    BY <1>2 DEF OpensFile, ReadsTail, ClosesFile, AnyCall
  <1>3. CASE Goes
    <2>1. PICK point \in Starts : SeekCall(point)
      BY <1>3 DEF Goes
    <2>2. QED BY <2>1, ProgramsAssumption DEF AnyCall
  <1>4. CASE ReadsChunk
    <2>1. Wanted > 0 /\ ReadCall(Wanted)
      BY <1>4 DEF ReadsChunk
    <2>2. QED BY <2>1, WantedFacts DEF AnyCall
  <1>5. CASE Step
    BY <1>5 DEF Step, AnyCall
  <1>6. QED BY <1>1, <1>2, <1>3, <1>4, <1>5 DEF ProgramStep

LEMMA AnyCallKeeps ==
  ASSUME IInv, AnyCall
  PROVE  IInv'
  <1>1. ASSUME NEW point \in Nat, SeekCall(point) PROVE IInv'
    BY <1>1, SeekKeeps
  <1>2. QED BY <1>1, OpenKeeps, CloseKeeps, ReadKeeps, TailKeeps, ReadStepKeeps, SeekStepKeeps
            DEF AnyCall

LEMMA ProgramInitKeeps == ProgramInit => PInv
  <1> SUFFICES ASSUME ProgramInit PROVE PInv
    OBVIOUS
  <1>1. IInv /\ failedSeek = FALSE /\ slip = 0 /\ call = Idle
    BY InitKeeps DEF ProgramInit, Init
  <1>2. PICK kind \in Kinds :
          program = [kind |-> kind, at |-> IF kind \in {"verify", "check"} THEN "scan" ELSE "open",
                     from |-> 0, pcm |-> <<>>, tail |-> 0, code |-> -1]
    BY DEF ProgramInit
  <1>3. <<>> \in Seq(Int) /\ 1 .. Len(<<>>) = {} /\ 0 \in Nat /\ 0 \in Int /\ -1 \in Int
    OBVIOUS
  <1>4. /\ program \in AnyProgram /\ program.at \in {"scan", "open"}
        /\ program.pcm = <<>> /\ program.from = 0 /\ (program.kind = "caller" => program.at = "open")
    BY <1>2, <1>3, ProgramsAssumption DEF AnyProgram, Places
  <1>5. call.op = "none"
    BY <1>1 DEF Idle
  <1>6. QED BY <1>1, <1>3, <1>4, <1>5
            DEF PInv, ProgramInv, ProgramTyped, Straight, Waiting, Collected, ChunkWaits, Finished,
                TailTaken

LEMMA ProgramNextKeeps == PInv /\ [ProgramNext]_programVars => PInv'
  <1> SUFFICES ASSUME IInv, ProgramInv, [ProgramNext]_programVars PROVE PInv'
    BY DEF PInv
  <1>1. CASE program.kind = "caller" /\ Next /\ UNCHANGED program
    <2>1. UNCHANGED stream
      BY <1>1 DEF Next, Step, OpenCall, CloseCall, RefusedCall, ReadCall, SeekCall, TailCall,
                  ReadStep, SeekStep
    <2>2. QED BY <1>1, <2>1, NextKeeps, CallerKeeps DEF PInv
  <1>2. CASE ProgramStep
    <2>1. IInv'
      BY <1>2, ProgramCalls, AnyCallKeeps, StutterKeeps
    <2>2. program.kind # "caller"
      BY <1>2 DEF ProgramStep
    <2>3. ProgramInv'
      <3>1. CASE Scanned
        BY <2>2, <3>1, ScannedKeeps
      <3>2. CASE DestinationExists
        BY <2>2, <3>2, DestinationKeeps
      <3>3. CASE OpensFile
        BY <2>2, <3>3, OpensFileKeeps
      <3>4. CASE Goes
        BY <2>2, <3>4, GoesKeeps
      <3>5. CASE Gone
        BY <2>2, <3>5, GoneKeeps
      <3>6. CASE ReadsChunk
        BY <2>2, <3>6, ReadsChunkKeeps
      <3>7. CASE GotChunk
        BY <2>2, <3>7, GotChunkKeeps
      <3>8. CASE GotAll
        BY <2>2, <3>8, GotAllKeeps
      <3>9. CASE ReadsTail
        BY <2>2, <3>9, ReadsTailKeeps
      <3>10. CASE ClosesFile
        BY <2>2, <3>10, ClosesFileKeeps
      <3>11. CASE Judges
        BY <2>2, <3>11, JudgesKeeps
      <3>12. CASE ReadStep /\ UNCHANGED program
        BY <2>2, <3>12, ReadGoingKeeps
      <3>13. CASE SeekStep /\ UNCHANGED program
        BY <2>2, <3>13, SeekGoingKeeps
      <3>14. QED BY <1>2, <3>1, <3>2, <3>3, <3>4, <3>5, <3>6, <3>7, <3>8, <3>9, <3>10, <3>11, <3>12,
                    <3>13 DEF ProgramStep, Step
    <2>4. QED BY <2>1, <2>3 DEF PInv
  <1>3. CASE UNCHANGED programVars
    BY <1>3, StutterKeeps, StandsStill DEF programVars, PInv
  <1>4. QED BY <1>1, <1>2, <1>3 DEF ProgramNext

LEMMA ProgramInvariant == ProgramSpec => []PInv
  BY ProgramInitKeeps, ProgramNextKeeps, PTL DEF ProgramSpec

(* What readAll, --decode, --check and the loop of cli/main.cpp hand on: of *)
(* an intact file every frame from where they started, and the tail if     *)
(* there is room for it; and of any file, that something is missing only   *)
(* with recoverableErrors() set.                                           *)
THEOREM ProgramsGetFrames ==
  ASSUME OneConfigurationEach
  PROVE  ProgramSpec => []ProgramsDeliver
  <1>1. ASSUME PInv PROVE ProgramsDeliver
    <2> USE <1>1
    <2> DEFINE whole == Len(program.pcm) = noPoints - program.from
    <2>1. SUFFICES ASSUME program.at = "close"
                   PROVE  /\ stream.intact =>
                               /\ whole
                               /\ \A i \in DOMAIN program.pcm : program.pcm[i] = program.from + i
                               /\ program.kind = "raw" /\ noPoints > 0 =>
                                    program.tail = TailOf(stream) \/ TailOf(stream) > TailRoom
                          /\ whole \/ eng.errors
      BY DEF ProgramsDeliver
    <2>2. program.kind # "caller" /\ is_opened /\ slip = 0
      BY <2>1 DEF PInv, ProgramInv, ProgramTyped, Straight, Waiting
    <2>3. points_read_so_far = program.from + Len(program.pcm)
          /\ (points_read_so_far = noPoints \/ eng.errors)
      BY <2>1 DEF PInv, ProgramInv, Collected, Finished
    <2>4. program.pcm \in Seq(Int) /\ program.from \in Nat /\ noPoints \in Nat
          /\ Len(program.pcm) \in Nat /\ stream \in Streams /\ (stream.intact => LaidOut(stream))
      BY ProgramFacts, InstanceFacts, StreamFacts DEF PInv, ProgramInv
    <2>5. whole \/ eng.errors
      BY <2>3, <2>4
    <2>6. stream.intact => whole
      BY <2>2, <2>4, <2>5 DEF PInv, IInv, Restorable
    <2>7. stream.intact => \A i \in DOMAIN program.pcm : program.pcm[i] = program.from + i
      <3>1. DOMAIN program.pcm = 1 .. Len(program.pcm)
        BY <2>4
      <3>2. stream.intact => OneConfiguration(stream)
        BY <2>4 DEF OneConfigurationEach
      <3>3. QED BY <2>4, <3>1, <3>2 DEF PInv, ProgramInv, Collected
    <2>8. stream.intact /\ program.kind = "raw" /\ noPoints > 0 =>
            program.tail = TailOf(stream) \/ TailOf(stream) > TailRoom
      BY <2>1, <2>4 DEF PInv, ProgramInv, TailTaken
    <2>9. QED BY <2>5, <2>6, <2>7, <2>8
  <1>2. QED BY <1>1, ProgramInvariant, PTL

LEMMA AnyCallImplements ==
  ASSUME OneConfigurationEach, IInv, AnyCall
  PROVE  SourceStep
  <1>1. ASSUME NEW point \in Nat, SeekCall(point) PROVE SourceStep
    BY <1>1, SeekCallImplements
  <1>2. QED BY <1>1, OpenImplements, CloseImplements, ReadCallImplements, TailImplements,
               ReadStepImplements, SeekStepImplements DEF AnyCall

(* To the programs too the decoder is a plain source of frames, and with   *)
(* them running the stream stays aligned and short reads are told.         *)
THEOREM ProgramsSeeFrames ==
  ASSUME OneConfigurationEach
  PROVE  ProgramSpec => ImplementsFrameSource /\ []ShortReadsReported /\ []BlockAligned
  <1>1. ProgramInit => Source!Init
    BY InitImplements DEF ProgramInit
  <1>2. PInv /\ [ProgramNext]_programVars => [Source!Next]_(Source!vars)
    <2> SUFFICES ASSUME IInv, ProgramInv, [ProgramNext]_programVars PROVE SourceStep
      BY DEF PInv, SourceStep
    <2>1. CASE Next
      BY <2>1, NextImplements
    <2>2. CASE ProgramStep
      <3>1. CASE AnyCall
        BY <3>1, AnyCallImplements
      <3>2. CASE UNCHANGED vars
        BY <3>2, StutterImplements DEF vars
      <3>3. QED BY <2>2, <3>1, <3>2, ProgramCalls
    <2>3. CASE UNCHANGED programVars
      BY <2>3, StutterImplements DEF programVars, vars
    <2>4. QED BY <2>1, <2>2, <2>3 DEF ProgramNext
  <1>3. PInv => ShortReadsReported /\ BlockAligned
    BY InvariantTells, InvariantAligns DEF PInv
  <1>4. QED BY <1>1, <1>2, <1>3, ProgramInvariant, PTL
            DEF ProgramSpec, ImplementsFrameSource, Source!Spec

-----------------------------------------------------------------------------
(* Files of the encoder                                                    *)

(* What stands where in a file that do_encode has written.                 *)
OwnHead(s)  == s.input.headersize
OwnPlace(s) == OwnHead(s) + 3
OwnEnd(s)   == OwnPlace(s) + 1 + Cell(s, OwnPlace(s)).payload
OwnBlock(s) == [kind |-> "COMP", id |-> 1, first |-> 0,
                values |-> s.input.channels * Frames(s.input),
                payload |-> Cell(s, OwnPlace(s)).payload, cost |-> Cell(s, OwnPlace(s)).cost,
                stages |-> Cell(s, OwnPlace(s)).stages]
OwnTail(s)  == [kind |-> "TAIL", size |-> s.input.tailsize]
Signature(s) == [kind |-> "MD5", pcm |-> Pcm(s.input)]

Opaque == [kind |-> "OPAQUE"]

LEMMA Pieces ==
  ASSUME NEW S, NEW x \in S, NEW y \in S, NEW n \in Nat, NEW f, f \in [1 .. n -> S]
  PROVE  /\ f \in Seq(S) /\ Len(f) = n
         /\ <<x>> \in Seq(S) /\ Len(<<x>>) = 1 /\ <<x>>[1] = x
         /\ <<x>> \o f \in Seq(S) /\ Len(<<x>> \o f) = n + 1
         /\ (<<x>> \o f)[1] = x /\ \A i \in 1 .. n : (<<x>> \o f)[1 + i] = f[i]
  <1>1. f \in Seq(S) /\ Len(f) = n
    OBVIOUS
  <1>2. <<x>> \in Seq(S) /\ Len(<<x>>) = 1 /\ <<x>>[1] = x
    OBVIOUS
  <1>3. QED
    BY <1>1, <1>2

(* A sequence, with one behind it.                                         *)
LEMMA Behind ==
  ASSUME NEW S, NEW a \in Seq(S), NEW b \in Seq(S)
  PROVE  /\ a \o b \in Seq(S) /\ Len(a \o b) = Len(a) + Len(b)
         /\ \A i \in 1 .. Len(a) : (a \o b)[i] = a[i]
         /\ \A i \in 1 .. Len(b) : (a \o b)[Len(a) + i] = b[i]
  <1>1. Len(a) \in Nat /\ Len(b) \in Nat
    OBVIOUS
  <1>2. QED BY <1>1

LEMMA OwnCells ==
  ASSUME NEW s \in Streams, "input" \in DOMAIN s
  PROVE  /\ OwnHead(s) \in Nat /\ OwnPlace(s) \in Nat /\ OwnTail(s).size \in Nat
         /\ Cell(s, OwnPlace(s)).payload \in Nat
         /\ Cell(s, 1) = [kind |-> "OFR"]
         /\ Cell(s, 2) = [kind |-> "HEAD", size |-> OwnHead(s)]
         /\ \A p \in 3 .. OwnPlace(s) - 1 : Cell(s, p) = Opaque
         /\ Cell(s, OwnPlace(s)) = OwnBlock(s)
         /\ \A i \in 1 .. OwnBlock(s).payload :
              Cell(s, OwnPlace(s) + i) = [kind |-> "DATA", block |-> 1, index |-> i]
         /\ Cell(s, OwnEnd(s)) = OwnTail(s)
         /\ \A i \in 1 .. OwnTail(s).size : Cell(s, OwnEnd(s) + i) = Opaque
         /\ \/ Len(s.cells) = OwnEnd(s) + OwnTail(s).size
            \/ /\ Len(s.cells) = OwnEnd(s) + OwnTail(s).size + 1
               /\ Cell(s, OwnEnd(s) + OwnTail(s).size + 1) = Signature(s)
  <1> DEFINE c == Cell(s, OwnPlace(s))
             h == OwnHead(s)
             n == c.payload
             t == s.input.tailsize
             S == {s.cells[p] : p \in DOMAIN s.cells} \cup
                  {[kind |-> "OFR"], [kind |-> "HEAD", size |-> h], Opaque, OwnBlock(s), OwnTail(s),
                   Signature(s)} \cup {[kind |-> "DATA", block |-> 1, index |-> i] : i \in Nat}
             opaque(k) == [i \in 1 .. k |-> Opaque]
             data == [i \in 1 .. n |-> [kind |-> "DATA", block |-> 1, index |-> i]]
             head == <<[kind |-> "HEAD", size |-> h]>> \o opaque(h)
             comp == <<OwnBlock(s)>> \o data
             tail == <<OwnTail(s)>> \o opaque(t)
             A == <<[kind |-> "OFR"]>>
             B == A \o head
             C == B \o comp
             D == C \o tail
  <1>1. /\ h \in Nat /\ t \in Nat /\ n \in Nat /\ OwnPlace(s) = h + 3 /\ OwnTail(s).size = t
        /\ OwnBlock(s).payload = n /\ OwnEnd(s) = h + 4 + n
    <2>1. h \in Nat /\ t \in Nat /\ n \in Nat
      BY OwnFilesAssumption DEF WrittenOf, OwnPlace, OwnHead
    <2>2. OwnPlace(s) = h + 3 /\ OwnTail(s).size = t /\ OwnBlock(s).payload = n
      BY DEF OwnPlace, OwnTail, OwnBlock
    <2>3. OwnEnd(s) = OwnPlace(s) + 1 + n
      BY DEF OwnEnd
    <2>4. QED
      BY <2>1, <2>2, <2>3
  <1>2. PICK md5 \in BOOLEAN : s.cells = D \o IF md5 THEN <<Signature(s)>> ELSE <<>>
    <2>1. PICK md5 \in BOOLEAN : s.cells = Encoded(s.input, c, md5)
      BY OwnFilesAssumption DEF WrittenOf, OwnPlace, OwnHead
    <2>2. s.cells = Encoded(s.input, c, md5)
      BY <2>1
    <2>3. QED
      BY <2>2 DEF Encoded, Written, Main, Sized, Comp, Data, SignedBytes, OwnBlock, OwnTail,
                  Signature, Opaque, OwnHead, OwnPlace
  <1>3. /\ [kind |-> "OFR"] \in S /\ [kind |-> "HEAD", size |-> h] \in S /\ Opaque \in S
        /\ OwnBlock(s) \in S /\ OwnTail(s) \in S /\ Signature(s) \in S
        /\ \A i \in Nat : [kind |-> "DATA", block |-> 1, index |-> i] \in S
    OBVIOUS
  <1> HIDE DEF S
  <1>4. /\ opaque(h) \in [1 .. h -> S] /\ opaque(t) \in [1 .. t -> S] /\ data \in [1 .. n -> S]
        /\ \A i \in 1 .. h : opaque(h)[i] = Opaque
        /\ \A i \in 1 .. t : opaque(t)[i] = Opaque
        /\ \A i \in 1 .. n : data[i] = [kind |-> "DATA", block |-> 1, index |-> i]
    BY <1>1, <1>3
  <1>5. /\ A \in Seq(S) /\ Len(A) = 1 /\ A[1] = [kind |-> "OFR"]
    BY <1>3
  <1> HIDE DEF n, t, h, opaque, data, c
  <1>6. /\ head \in Seq(S) /\ Len(head) = h + 1 /\ head[1] = [kind |-> "HEAD", size |-> h]
        /\ \A i \in 1 .. h : head[1 + i] = Opaque
    BY <1>1, <1>3, <1>4, Pieces
  <1>7. /\ comp \in Seq(S) /\ Len(comp) = n + 1 /\ comp[1] = OwnBlock(s)
        /\ \A i \in 1 .. n : comp[1 + i] = [kind |-> "DATA", block |-> 1, index |-> i]
    BY <1>1, <1>3, <1>4, Pieces
  <1>8. /\ tail \in Seq(S) /\ Len(tail) = t + 1 /\ tail[1] = OwnTail(s)
        /\ \A i \in 1 .. t : tail[1 + i] = Opaque
    BY <1>1, <1>3, <1>4, Pieces
  <1> HIDE DEF A, head, comp, tail
  <1>20. B = A \o head /\ C = B \o comp /\ D = C \o tail
    OBVIOUS
  <1> HIDE DEF B, C, D
  <1>9. /\ B \in Seq(S) /\ Len(B) = h + 2 /\ B[1] = [kind |-> "OFR"]
        /\ \A i \in 1 .. h + 1 : B[1 + i] = head[i]
    <2>1. 1 \in Nat /\ h + 1 \in Nat /\ 1 + (h + 1) = h + 2 /\ 1 \in 1 .. 1
      BY <1>1
    <2>4. /\ B \in Seq(S) /\ Len(B) = Len(A) + Len(head)
          /\ \A i \in 1 .. Len(A) : B[i] = A[i]
          /\ \A i \in 1 .. Len(head) : B[Len(A) + i] = head[i]
      <3>1. A \in Seq(S) /\ head \in Seq(S)
        BY <1>5, <1>6
      <3>2. QED BY <1>20, <3>1, Behind
    <2>2. /\ B \in Seq(S) /\ Len(B) = 1 + (h + 1) /\ \A i \in 1 .. 1 : B[i] = A[i]
          /\ \A i \in 1 .. h + 1 : B[1 + i] = head[i]
      BY <1>5, <1>6, <2>1, <2>4
    <2>3. QED BY <1>5, <2>1, <2>2
  <1>10. /\ C \in Seq(S) /\ Len(C) = h + 3 + n
         /\ \A i \in 1 .. h + 2 : C[i] = B[i]
         /\ \A i \in 1 .. n + 1 : C[h + 2 + i] = comp[i]
    <2>1. h + 2 \in Nat /\ n + 1 \in Nat /\ (h + 2) + (n + 1) = h + 3 + n
      BY <1>1
    <2>4. /\ C \in Seq(S) /\ Len(C) = Len(B) + Len(comp)
          /\ \A i \in 1 .. Len(B) : C[i] = B[i]
          /\ \A i \in 1 .. Len(comp) : C[Len(B) + i] = comp[i]
      <3>1. B \in Seq(S) /\ comp \in Seq(S)
        BY <1>9, <1>7
      <3>2. QED BY <1>20, <3>1, Behind
    <2>2. /\ C \in Seq(S) /\ Len(C) = (h + 2) + (n + 1) /\ \A i \in 1 .. h + 2 : C[i] = B[i]
          /\ \A i \in 1 .. n + 1 : C[h + 2 + i] = comp[i]
      BY <1>9, <1>7, <2>1, <2>4
    <2>3. QED BY <2>1, <2>2
  <1>11. /\ D \in Seq(S) /\ Len(D) = h + 4 + n + t
         /\ \A i \in 1 .. h + 3 + n : D[i] = C[i]
         /\ \A i \in 1 .. t + 1 : D[h + 3 + n + i] = tail[i]
    <2>1. h + 3 + n \in Nat /\ t + 1 \in Nat /\ (h + 3 + n) + (t + 1) = h + 4 + n + t
      BY <1>1
    <2>4. /\ D \in Seq(S) /\ Len(D) = Len(C) + Len(tail)
          /\ \A i \in 1 .. Len(C) : D[i] = C[i]
          /\ \A i \in 1 .. Len(tail) : D[Len(C) + i] = tail[i]
      <3>1. C \in Seq(S) /\ tail \in Seq(S)
        BY <1>10, <1>8
      <3>2. QED BY <1>20, <3>1, Behind
    <2>2. /\ D \in Seq(S) /\ Len(D) = (h + 3 + n) + (t + 1)
          /\ \A i \in 1 .. h + 3 + n : D[i] = C[i]
          /\ \A i \in 1 .. t + 1 : D[h + 3 + n + i] = tail[i]
      BY <1>10, <1>8, <2>1, <2>4
    <2>3. QED BY <2>1, <2>2
  <1>12. /\ \A i \in 1 .. h + 4 + n + t : s.cells[i] = D[i]
         /\ \/ Len(s.cells) = h + 4 + n + t
            \/ /\ Len(s.cells) = h + 4 + n + t + 1
               /\ s.cells[h + 4 + n + t + 1] = Signature(s)
    <2>1. CASE md5
      <3>1. <<Signature(s)>> \in Seq(S) /\ Len(<<Signature(s)>>) = 1
            /\ <<Signature(s)>>[1] = Signature(s)
        BY <1>3
      <3>2. s.cells = D \o <<Signature(s)>>
        BY <1>2, <2>1
      <3>3. h + 4 + n + t \in Nat /\ 1 \in Nat /\ 1 \in 1 .. 1
        BY <1>1
      <3> DEFINE m == h + 4 + n + t
      <3> HIDE DEF m
      <3>4. Len(D) = m /\ m \in Nat
        BY <1>11, <3>3 DEF m
      <3>8. /\ Len(s.cells) = Len(D) + Len(<<Signature(s)>>)
            /\ \A i \in 1 .. Len(D) : s.cells[i] = D[i]
            /\ \A i \in 1 .. Len(<<Signature(s)>>) : s.cells[Len(D) + i] = <<Signature(s)>>[i]
        BY <1>11, <3>1, <3>2, Behind
      <3>5. /\ Len(s.cells) = m + 1 /\ \A i \in 1 .. m : s.cells[i] = D[i]
            /\ \A i \in 1 .. 1 : s.cells[m + i] = <<Signature(s)>>[i]
        BY <3>1, <3>4, <3>8
      <3>6. s.cells[m + 1] = Signature(s)
        BY <3>1, <3>3, <3>5
      <3>7. QED BY <3>5, <3>6 DEF m
    <2>2. CASE ~md5
      <3>1. s.cells = D \o <<>>
        BY <1>2, <2>2
      <3>2. s.cells = D
        BY <1>11, <3>1
      <3>3. QED BY <1>11, <3>2
    <2>3. QED BY <2>1, <2>2
  <1>13. \A p \in 1 .. h + 4 + n + t : Cell(s, p) = D[p]
    <2>1. \A p \in 1 .. h + 4 + n + t : p \in 1 .. Len(s.cells)
      BY <1>1, <1>12
    <2>2. QED BY <1>12, <2>1 DEF Cell
  <1>14. Len(s.cells) = h + 4 + n + t + 1 => Cell(s, h + 4 + n + t + 1) = Signature(s)
    <2>1. Len(s.cells) = h + 4 + n + t + 1 => h + 4 + n + t + 1 \in 1 .. Len(s.cells)
      BY <1>1
    <2>2. Len(s.cells) = h + 4 + n + t + 1 => s.cells[h + 4 + n + t + 1] = Signature(s)
      BY <1>1, <1>12
    <2>3. QED BY <2>1, <2>2 DEF Cell
  <1>15. Cell(s, 1) = [kind |-> "OFR"] /\ Cell(s, 2) = [kind |-> "HEAD", size |-> h]
         /\ \A p \in 3 .. h + 2 : Cell(s, p) = Opaque
    <2>1. \A p \in 1 .. h + 2 : Cell(s, p) = B[p]
      <3>1. \A p \in 1 .. h + 2 : p \in 1 .. h + 3 + n /\ p \in 1 .. h + 4 + n + t
        BY <1>1
      <3>2. QED BY <1>10, <1>11, <1>13, <3>1
    <2>2. 1 \in 1 .. h + 2 /\ 2 \in 1 .. h + 2 /\ 1 \in 1 .. h + 1 /\ 2 = 1 + 1
      BY <1>1
    <2>3. B[2] = head[1]
      BY <1>9, <2>2
    <2>4. ASSUME NEW p \in 3 .. h + 2 PROVE Cell(s, p) = Opaque
      <3>1. p - 1 \in 1 .. h + 1 /\ p - 2 \in 1 .. h /\ p \in 1 .. h + 2
            /\ p = 1 + (p - 1) /\ p - 1 = 1 + (p - 2)
        BY <1>1, <2>4
      <3>2. B[1 + (p - 1)] = head[p - 1] /\ head[1 + (p - 2)] = Opaque
        BY <1>6, <1>9, <3>1
      <3>3. QED BY <2>1, <3>1, <3>2
    <2>5. QED BY <1>6, <1>9, <2>1, <2>2, <2>3, <2>4
  <1>16. /\ Cell(s, h + 3) = OwnBlock(s)
         /\ \A i \in 1 .. n : Cell(s, h + 3 + i) = [kind |-> "DATA", block |-> 1, index |-> i]
    <2>1. ASSUME NEW i \in 1 .. n + 1 PROVE Cell(s, h + 2 + i) = comp[i]
      <3>1. h + 2 + i \in 1 .. h + 3 + n /\ h + 2 + i \in 1 .. h + 4 + n + t
        BY <1>1, <2>1
      <3>2. QED BY <1>10, <1>11, <1>13, <3>1
    <2>2. 1 \in 1 .. n + 1 /\ h + 2 + 1 = h + 3
      BY <1>1
    <2>3. ASSUME NEW i \in 1 .. n PROVE Cell(s, h + 3 + i) = comp[1 + i]
      <3>1. 1 + i \in 1 .. n + 1 /\ h + 2 + (1 + i) = h + 3 + i
        BY <1>1, <2>3
      <3>2. Cell(s, h + 2 + (1 + i)) = comp[1 + i]
        BY <2>1, <3>1
      <3>3. QED BY <3>1, <3>2
    <2>4. Cell(s, h + 3) = comp[1]
      <3>1. Cell(s, h + 2 + 1) = comp[1]
        BY <2>1, <2>2
      <3>2. QED BY <2>2, <3>1
    <2>5. QED BY <1>7, <2>3, <2>4
  <1>17. /\ Cell(s, h + 4 + n) = OwnTail(s)
         /\ \A i \in 1 .. t : Cell(s, h + 4 + n + i) = Opaque
    <2>1. ASSUME NEW i \in 1 .. t + 1 PROVE Cell(s, h + 3 + n + i) = tail[i]
      <3>1. h + 3 + n + i \in 1 .. h + 4 + n + t
        BY <1>1, <2>1
      <3>2. QED BY <1>11, <1>13, <3>1
    <2>2. 1 \in 1 .. t + 1 /\ h + 3 + n + 1 = h + 4 + n
      BY <1>1
    <2>3. ASSUME NEW i \in 1 .. t PROVE Cell(s, h + 4 + n + i) = tail[1 + i]
      <3>1. 1 + i \in 1 .. t + 1 /\ h + 3 + n + (1 + i) = h + 4 + n + i
        BY <1>1, <2>3
      <3>2. Cell(s, h + 3 + n + (1 + i)) = tail[1 + i]
        BY <2>1, <3>1
      <3>3. QED BY <3>1, <3>2
    <2>4. Cell(s, h + 4 + n) = tail[1]
      <3>1. Cell(s, h + 3 + n + 1) = tail[1]
        BY <2>1, <2>2
      <3>2. QED BY <2>2, <3>1
    <2>5. QED BY <1>8, <2>3, <2>4
  <1>18. OwnPlace(s) \in Nat /\ OwnPlace(s) - 1 = h + 2 /\ Cell(s, OwnPlace(s)).payload = n
    BY <1>1 DEF c, n
  <1>19. QED BY <1>1, <1>12, <1>14, <1>15, <1>16, <1>17, <1>18 DEF h

LEMMA OwnKinds ==
  ASSUME NEW s \in Streams, "input" \in DOMAIN s, NEW p \in Nat, p # OwnPlace(s)
  PROVE  Cell(s, p).kind # "COMP"
  <1> DEFINE c == OwnPlace(s) n == Cell(s, OwnPlace(s)).payload t == OwnTail(s).size
  <1>1. /\ c = OwnHead(s) + 3 /\ OwnHead(s) \in Nat /\ n \in Nat /\ t \in Nat
        /\ OwnEnd(s) = c + 1 + n /\ OwnBlock(s).payload = n
    BY OwnCells DEF OwnPlace, OwnEnd, OwnBlock
  <1>2. CASE p = 0
    BY <1>2 DEF Cell, Zero
  <1>3. CASE p = 1
    BY <1>3, OwnCells
  <1>4. CASE p = 2
    BY <1>4, OwnCells
  <1>5. CASE p \in 3 .. c - 1
    BY <1>5, OwnCells DEF Opaque
  <1>6. CASE p \in c + 1 .. c + n
    <2>1. p - c \in 1 .. OwnBlock(s).payload /\ p = c + (p - c)
      BY <1>1, <1>6
    <2>2. Cell(s, OwnPlace(s) + (p - c)) = [kind |-> "DATA", block |-> 1, index |-> p - c]
      BY <2>1, OwnCells
    <2>3. QED BY <2>1, <2>2
  <1>7. CASE p = OwnEnd(s)
    BY <1>7, OwnCells DEF OwnTail
  <1>8. CASE p \in OwnEnd(s) + 1 .. OwnEnd(s) + t
    <2>1. p - OwnEnd(s) \in 1 .. OwnTail(s).size /\ p = OwnEnd(s) + (p - OwnEnd(s))
      BY <1>1, <1>8
    <2>2. Cell(s, OwnEnd(s) + (p - OwnEnd(s))) = Opaque
      BY <2>1, OwnCells
    <2>3. QED BY <2>1, <2>2 DEF Opaque
  <1>9. CASE p > OwnEnd(s) + t
    <2>1. CASE p \in 1 .. Len(s.cells)
      <3>1. p = OwnEnd(s) + t + 1 /\ Len(s.cells) = OwnEnd(s) + t + 1
        BY <1>1, <1>9, <2>1, OwnCells, SMTT(30)
      <3>2. Cell(s, p) = Signature(s)
        BY <1>1, <3>1, OwnCells
      <3>3. QED BY <3>2 DEF Signature
    <2>2. CASE p \notin 1 .. Len(s.cells)
      BY <2>2 DEF Cell, Zero
    <2>3. QED BY <2>1, <2>2
  <1> HIDE DEF c, n, t
  <1>10. p # c
    BY DEF c
  <1>11. QED
    BY <1>1, <1>2, <1>3, <1>4, <1>5, <1>6, <1>7, <1>8, <1>9, <1>10

(* It opens, with one block.                                               *)
LEMMA OwnOpens ==
  ASSUME stream \in Streams, "input" \in DOMAIN stream
  PROVE  Opens /\ OneConfiguration(stream)
  <1>1. Opens
    <2>1. Len(stream.cells) \in Nat /\ ScanLimit \in Nat \ {0}
      BY StreamFacts, EngineAssumption
    <2>2. Cell(stream, 1) = [kind |-> "OFR"] /\ Cell(stream, 2).kind = "HEAD"
      BY OwnCells
    <2>3. 1 \in 1 .. Len(stream.cells) /\ stream.cells[1].kind = "OFR"
      BY <2>2 DEF Cell, Zero
    <2>4. 1 \in 1 .. Min({ScanLimit, Len(stream.cells)})
      BY <2>1, <2>3, MinOfTwo
    <2>5. HeadAt(stream) = 2
      BY <2>3, <2>4, StartsAtOnce
    <2>6. QED BY <2>2, <2>5 DEF Opens, CellAt
  <1>2. ASSUME NEW p \in DOMAIN stream.cells, IsBlock(stream, p) PROVE p = OwnPlace(stream)
    <2>1. p \in Nat
      BY StreamFacts
    <2>2. QED BY <1>2, <2>1, OwnKinds DEF IsBlock
  <1>3. OneConfiguration(stream)
    BY <1>2 DEF OneConfiguration
  <1>4. QED BY <1>1, <1>3

LEMMA PartIs ==
  ASSUME NEW s, NEW a \in Int, NEW b \in Int
  PROVE  SubSeq(s, a, b) = [i \in 1 .. b - a + 1 |-> s[a + i - 1]]
  OBVIOUS

(* The walk takes two steps.                                               *)
LEMMA OwnWalk ==
  ASSUME stream \in Streams, "input" \in DOMAIN stream
  PROVE  LET walk == Walk[OwnPlace(stream)] IN walk.ok = TRUE /\ walk.end = OwnEnd(stream)
  <1> DEFINE c == OwnPlace(stream)
             e == OwnEnd(stream)
             n == CellAt(c).payload
             stop(p) == [ok |-> TRUE, end |-> p, values |-> 0]
             through == [stop(e) EXCEPT !.values = @ + CellAt(c).values]
             step(f, p) ==
               IF CellAt(p).kind # "COMP" THEN stop(p)
               ELSE IF ~BlockSound(p) THEN [ok |-> FALSE, end |-> p, values |-> 0]
               ELSE LET rest == f[p + 1 + CellAt(p).payload] IN
                    [rest EXCEPT !.values = @ + CellAt(p).values]
             W == [p \in Nat |-> IF p = c THEN through ELSE stop(p)]
  <1>1. /\ c \in Nat /\ n \in Nat /\ e = c + 1 + n /\ e \in Nat /\ e # c
        /\ CellAt(c) = OwnBlock(stream) /\ OwnBlock(stream).payload = n
    BY OwnCells DEF OwnEnd, CellAt
  <1>2. CellAt(c).kind = "COMP" /\ CellAt(c).id = 1
    BY <1>1 DEF OwnBlock
  <1>3. \A p \in Nat : p # c => CellAt(p).kind # "COMP"
    BY OwnKinds DEF CellAt
  <1>4. BlockSound(c)
    <2>1. stream.cells[c] = OwnBlock(stream) /\ c \in 1 .. Len(stream.cells)
      BY <1>1, <1>2 DEF CellAt, Cell, Zero
    <2>2. Len(stream.cells) \in Nat /\ c + n <= Len(stream.cells)
      <3>1. Len(stream.cells) >= e + OwnTail(stream).size /\ OwnTail(stream).size \in Nat
        <4>1. OwnTail(stream).size \in Nat /\ e \in Nat
          BY <1>1, OwnCells
        <4>2. \/ Len(stream.cells) = e + OwnTail(stream).size
              \/ Len(stream.cells) = e + OwnTail(stream).size + 1
          BY OwnCells
        <4>3. QED BY <4>1, <4>2
      <3>2. QED BY <1>1, <3>1, StreamFacts
    <2>3. \A i \in 1 .. n : stream.cells[c + i] = [kind |-> "DATA", block |-> 1, index |-> i]
      <3>1. ASSUME NEW i \in 1 .. n
            PROVE  stream.cells[c + i] = [kind |-> "DATA", block |-> 1, index |-> i]
        <4>1. c + i \in 1 .. Len(stream.cells)
          BY <1>1, <2>2, <3>1
        <4>2. Cell(stream, c + i) = [kind |-> "DATA", block |-> 1, index |-> i]
          BY <1>1, <3>1, OwnCells
        <4>3. QED BY <4>1, <4>2 DEF Cell
      <3>2. QED BY <3>1
    <2>4. SubSeq(stream.cells, c + 1, c + n) = Data(1, n)
      <3>1. SubSeq(stream.cells, c + 1, c + n) =
              [i \in 1 .. (c + n) - (c + 1) + 1 |-> stream.cells[(c + 1) + i - 1]]
        <4>1. c + 1 \in Int /\ c + n \in Int
          BY <1>1
        <4> HIDE DEF c, n
        <4>2. QED BY <4>1, PartIs
      <3>2. (c + n) - (c + 1) + 1 = n
        BY <1>1
      <3>3. \A i \in 1 .. n : (c + 1) + i - 1 = c + i
        BY <1>1
      <3>4. QED BY <2>3, <3>1, <3>2, <3>3 DEF Data
    <2>5. stream.cells[c].payload = n /\ stream.cells[c].id = 1
      BY <1>1, <1>2, <2>1
    <2>6. QED BY <2>2, <2>4, <2>5 DEF BlockSound
  <1>5. W = [p \in Nat |-> step(W, p)]
    <2>1. ASSUME NEW p \in Nat PROVE W[p] = step(W, p)
      <3>1. CASE p = c
        <4>1. W[c] = through /\ W[e] = stop(e)
          BY <1>1
        <4>2. step(W, c) = [stop(e) EXCEPT !.values = @ + CellAt(c).values]
          BY <1>1, <1>2, <1>4, <4>1
        <4>3. QED BY <3>1, <4>1, <4>2
      <3>2. CASE p # c
        BY <1>3, <3>2
      <3>3. QED BY <3>1, <3>2
    <2> HIDE DEF step
    <2>2. W = [p \in Nat |-> W[p]]
      OBVIOUS
    <2> HIDE DEF W
    <2>3. QED BY <2>1, <2>2
  <1>6. Walk = [p \in Nat |-> step(Walk, p)]
    <2>1. \E f : f = [p \in Nat |-> step(f, p)]
      BY <1>5
    <2>2. QED BY <2>1 DEF Walk
  <1> HIDE DEF W
  <1>7. \A p \in Nat : Walk[p] = step(Walk, p)
    <2> HIDE DEF step
    <2>1. QED BY <1>6
  <1>8. Walk[e] = stop(e)
    BY <1>1, <1>3, <1>7
  <1>9. Walk[c] = [stop(e) EXCEPT !.values = @ + CellAt(c).values]
    <2>1. Walk[c] = [Walk[c + 1 + CellAt(c).payload] EXCEPT !.values = @ + CellAt(c).values]
      BY <1>1, <1>2, <1>4, <1>7
    <2>2. QED BY <1>1, <1>8, <2>1
  <1>10. Walk[c].ok = TRUE /\ Walk[c].end = e
    BY <1>9
  <1>11. QED BY <1>10

(* Head, tail and signature are where scan_ofr_file() takes them from.     *)
LEMMA OwnScan ==
  ASSUME stream \in Streams, "input" \in DOMAIN stream
  PROVE  Scan.ok /\ (Scan.md5 = Zero \/ Scan.md5 = Signature(stream))
  <1> DEFINE walk == Walk[3 + CellAt(2).size]
             tail == CellAt(walk.end)
             next == IF tail.kind = "TAIL" THEN walk.end + 1 + tail.size ELSE walk.end
  <1>1. /\ CellAt(1).kind = "OFR" /\ CellAt(2).kind = "HEAD" /\ 3 + CellAt(2).size = OwnPlace(stream)
        /\ ~stream.float
    <2>1. CellAt(1).kind = "OFR" /\ CellAt(2).kind = "HEAD" /\ CellAt(2).size = OwnHead(stream)
          /\ OwnHead(stream) \in Nat
      BY OwnCells DEF CellAt
    <2>2. ~stream.float
      BY OwnFilesAssumption DEF WrittenOf
    <2>3. QED BY <2>1, <2>2 DEF OwnPlace
  <1>2. walk.ok = TRUE /\ walk.end = OwnEnd(stream)
    BY <1>1, OwnWalk
  <1>3. tail = OwnTail(stream)
    BY <1>2, OwnCells DEF CellAt
  <1>4. next = OwnEnd(stream) + 1 + OwnTail(stream).size
    BY <1>2, <1>3 DEF OwnTail
  <1>5. /\ OwnEnd(stream) \in Nat /\ OwnTail(stream).size \in Nat
        /\ OwnEnd(stream) + 1 + OwnTail(stream).size = OwnEnd(stream) + OwnTail(stream).size + 1
    BY OwnCells DEF OwnEnd
  <1>6. CellAt(next) = Zero \/ CellAt(next) = Signature(stream)
    <2>1. CASE next \in 1 .. Len(stream.cells)
      BY <1>4, <1>5, <2>1, OwnCells DEF CellAt
    <2>2. CASE next \notin 1 .. Len(stream.cells)
      BY <2>2 DEF CellAt, Cell
    <2>3. QED BY <2>1, <2>2
  <1>7. Scan = [ok |-> walk.ok, values |-> walk.values,
                md5 |-> IF CellAt(next).kind = "MD5" THEN CellAt(next) ELSE Zero]
    BY <1>1 DEF Scan
  <1> HIDE DEF walk, next
  <1>8. QED BY <1>2, <1>6, <1>7

-----------------------------------------------------------------------------
(* What the programs make of the encoder's files                           *)

(* --verify only scans; --check comes to its verdict with every frame.     *)
Judged ==
  /\ program.kind = "verify" => program.at \in {"scan", "ended"}
  /\ program.kind # "readAll" => program.from = 0
  /\ program.at = "judge" /\ program.kind = "check" /\ stream.intact /\ OneConfiguration(stream) =>
       Len(program.pcm) = noPoints /\ \A i \in 1 .. Len(program.pcm) : program.pcm[i] = i
  /\ OwnFilesPass

(* The samples under the signature are those of the frames.                *)
LEMMA SignedSamples ==
  ASSUME stream \in Streams, "input" \in DOMAIN stream,
         Pcm(stream.input) % stream.channels = 0
  PROVE  Signature(stream).pcm = stream.channels * noPoints
  <1> DEFINE ch == stream.input.channels
             x == Pcm(stream.input)
             f == x \div ch
  <1>1. /\ ch \in Nat \ {0} /\ x \in Int /\ stream.channels = ch
        /\ stream.total = ch * f /\ Signature(stream).pcm = x
    BY OwnFilesAssumption DEF WrittenOf, Pcm, Frames, Signature
  <1>2. noPoints = (ch * f) \div ch /\ x % ch = 0
    BY <1>1 DEF noPoints, Points
  <1> HIDE DEF x, ch, f
  <1>3. f \in Int /\ x = ch * f
    <2>1. x \div ch \in Int /\ x = ch * (x \div ch) + (x % ch)
      BY <1>1, Division
    <2>2. QED BY <1>1, <1>2, <2>1 DEF f
  <1>4. (ch * f) \div ch = f
    <2>1. x \div ch = f
      BY DEF f
    <2>2. QED BY <1>3, <2>1
  <1>5. QED BY <1>1, <1>2, <1>3, <1>4

(* A move between the places where nothing is decided.                     *)
LEMMA UndecidedMove ==
  ASSUME Judged, program'.at \notin {"judge", "ended"}, program'.kind = program.kind,
         program'.from = program.from, program.kind # "verify"
  PROVE  Judged'
  BY DEF Judged, OwnFilesPass

LEMMA ScanStays ==
  ASSUME UNCHANGED stream
  PROVE  Scan' = Scan
  <1>1. Walk' = Walk
    BY DEF Walk, BlockSound, CellAt
  <1>2. QED BY <1>1 DEF Scan, CellAt

LEMMA EndJudged ==
  ASSUME PInv, Judged, UNCHANGED stream, NEW code \in Int, Ends(code),
         "input" \in DOMAIN stream =>
           /\ program.kind = "verify" => code = 0
           /\ program.kind = "check" /\ Scan.md5 # Zero
                /\ Pcm(stream.input) % stream.channels = 0 => code = 0
  PROVE  Judged'
  <1>1. /\ program'.at = "ended" /\ program'.kind = program.kind /\ program'.from = program.from
        /\ program'.code = code
    BY DEF PInv, ProgramInv, ProgramTyped, AnyProgram, Ends
  <1>2. Scan' = Scan
    BY ScanStays
  <1>3. OwnFilesPass'
    BY <1>1, <1>2 DEF OwnFilesPass
  <1>4. QED BY <1>1, <1>3 DEF Judged

LEMMA GotoJudged ==
  ASSUME PInv, Judged, NEW place \in Places \ {"judge", "ended"}, Goto(place),
         program.kind # "verify"
  PROVE  Judged'
  <1>1. program'.at = place /\ program'.kind = program.kind /\ program'.from = program.from
    BY GotoTyped DEF PInv, ProgramInv
  <1>2. QED BY <1>1, UndecidedMove

(* Of an intact file --check has every frame when it comes to its verdict. *)
LEMMA ClosesJudged ==
  ASSUME PInv, Judged, ClosesFile
  PROVE  Judged'
  <1>1. program.at = "close" /\ Goto("judge") /\ UNCHANGED stream
    BY DEF ClosesFile, At, CloseCall
  <1>2. /\ program'.at = "judge" /\ program'.kind = program.kind /\ program'.from = program.from
        /\ program'.pcm = program.pcm
    BY <1>1, GotoTyped DEF PInv, ProgramInv, Places
  <1>3. program.kind # "caller" /\ program.kind # "verify" /\ is_opened /\ slip = 0
    BY <1>1 DEF PInv, ProgramInv, ProgramTyped, Straight, Waiting, Judged
  <1>4. program.from \in Nat /\ Len(program.pcm) \in Nat /\ noPoints \in Nat
    BY ProgramFacts, InstanceFacts DEF PInv, ProgramInv
  <1>5. noPoints' = noPoints /\ OneConfiguration(stream)' = OneConfiguration(stream)
    BY <1>1 DEF noPoints
  <1>6. ASSUME program.kind = "check", stream.intact, OneConfiguration(stream)
        PROVE  Len(program.pcm) = noPoints /\ \A i \in 1 .. Len(program.pcm) : program.pcm[i] = i
    <2>1. program.from = 0 /\ LaidOut(stream)
      BY <1>6, InstanceFacts, StreamFacts DEF Judged, PInv
    <2>2. ~eng.errors
      BY <1>3, <2>1 DEF PInv, IInv, Restorable
    <2>3. points_read_so_far = program.from + Len(program.pcm) /\ points_read_so_far = noPoints
      BY <1>1, <2>2 DEF PInv, ProgramInv, Collected, Finished
    <2>4. \A i \in 1 .. Len(program.pcm) : program.pcm[i] = program.from + i
      BY <1>6, <2>1 DEF PInv, ProgramInv, Collected
    <2>5. QED BY <1>4, <2>1, <2>3, <2>4
  <1>7. QED BY <1>1, <1>2, <1>3, <1>5, <1>6 DEF Judged, OwnFilesPass

(* The verdict.                                                            *)
LEMMA JudgesJudged ==
  ASSUME PInv, Judged, Judges
  PROVE  Judged'
  <1>1. program.at = "judge" /\ UNCHANGED stream
    BY DEF Judges, At, vars
  <1>2. program.kind # "verify"
    BY <1>1 DEF Judged
  <1>3. CASE program.kind # "check"
    <2>1. Ends(0) \/ Ends(1)
      BY DEF Judges
    <2>2. QED BY <1>1, <1>2, <1>3, <2>1, EndJudged
  <1>4. CASE program.kind = "check"
    <2> DEFINE right == /\ Scan.md5.pcm = stream.channels * Len(program.pcm)
                        /\ \A i \in DOMAIN program.pcm : program.pcm[i] = i
               code == IF right THEN 0 ELSE 1
    <2>1. Ends(code)
      BY <1>4 DEF Judges
    <2>2. ASSUME "input" \in DOMAIN stream, Scan.md5 # Zero,
                 Pcm(stream.input) % stream.channels = 0
          PROVE  right
      <3>1. stream \in Streams /\ program.pcm \in Seq(Int)
        BY InstanceFacts, ProgramFacts DEF PInv, ProgramInv
      <3>2. stream.intact /\ OneConfiguration(stream)
        BY <2>2, <3>1, OwnOpens, OwnFilesAssumption DEF WrittenOf
      <3>3. Len(program.pcm) = noPoints /\ \A i \in 1 .. Len(program.pcm) : program.pcm[i] = i
        BY <1>1, <1>4, <3>2 DEF Judged
      <3>4. Scan.md5 = Signature(stream)
        BY <2>2, <3>1, OwnScan
      <3>5. Signature(stream).pcm = stream.channels * noPoints
        BY <2>2, <3>1, SignedSamples
      <3>6. DOMAIN program.pcm = 1 .. Len(program.pcm)
        BY <3>1
      <3>7. QED BY <3>3, <3>4, <3>5, <3>6
    <2>3. code \in Int /\ (right => code = 0)
      OBVIOUS
    <2> HIDE DEF code, right
    <2>4. QED BY <1>1, <1>2, <2>1, <2>2, <2>3, EndJudged
  <1>5. QED BY <1>3, <1>4

LEMMA ScannedJudged ==
  ASSUME PInv, Judged, Scanned
  PROVE  Judged'
  <1>1. program.at = "scan" /\ UNCHANGED stream
    BY DEF Scanned, At, vars
  <1>2. stream \in Streams
    BY InstanceFacts DEF PInv
  <1>3. CASE ~Scan.ok \/ (program.kind = "check" /\ Scan.md5 = Zero)
    <2>1. Ends(1)
      BY <1>3 DEF Scanned
    <2>2. "input" \in DOMAIN stream => Scan.ok
      BY <1>2, OwnScan
    <2>3. QED BY <1>1, <1>3, <2>1, <2>2, EndJudged
  <1>4. CASE ~(~Scan.ok \/ (program.kind = "check" /\ Scan.md5 = Zero))
    <2>1. CASE program.kind = "verify"
      <3>1. Ends(0)
        BY <1>4, <2>1 DEF Scanned
      <3>2. QED BY <1>1, <3>1, EndJudged
    <2>2. CASE program.kind # "verify"
      <3>1. Goto("open")
        BY <1>4, <2>2 DEF Scanned
      <3>2. "open" \in Places \ {"judge", "ended"}
        BY DEF Places
      <3>3. QED BY <2>2, <3>1, <3>2, GotoJudged
    <2>3. QED BY <2>1, <2>2
  <1>5. QED BY <1>3, <1>4

LEMMA OpensJudged ==
  ASSUME PInv, Judged, OpensFile
  PROVE  Judged'
  <1>1. program.at = "open" /\ UNCHANGED stream /\ stream \in Streams
    BY InstanceFacts DEF OpensFile, At, OpenCall, PInv
  <1>2. program.kind # "verify"
    BY <1>1 DEF Judged
  <1>3. CASE Opens
    <2> DEFINE place == IF program.kind = "readAll" THEN "seek" ELSE "read"
    <2>1. Goto(place) /\ place \in Places \ {"judge", "ended"}
      BY <1>3 DEF OpensFile, Places
    <2> HIDE DEF place
    <2>2. QED BY <1>2, <2>1, GotoJudged
  <1>4. CASE ~Opens
    <2>1. Ends(1)
      BY <1>4 DEF OpensFile
    <2>2. "input" \notin DOMAIN stream
      BY <1>1, <1>4, OwnOpens
    <2>3. QED BY <1>1, <2>1, <2>2, EndJudged
  <1>5. QED BY <1>3, <1>4

(* The steps in between.                                                   *)
LEMMA ReadingJudged ==
  ASSUME PInv, Judged, ReadsChunk \/ GotChunk \/ GotAll \/ ReadsTail
  PROVE  Judged'
  <1>1. program.at \in {"read", "got", "tail"} /\ program \in AnyProgram
    BY DEF ReadsChunk, GotChunk, GotAll, ReadsTail, At, PInv, ProgramInv, ProgramTyped
  <1>2. program.kind # "verify"
    BY <1>1 DEF Judged
  <1>3. /\ program'.at \notin {"judge", "ended"} /\ program'.kind = program.kind
        /\ program'.from = program.from
    <2>1. CASE ReadsChunk
      BY <1>1, <2>1 DEF ReadsChunk, Goto, AnyProgram
    <2>2. CASE GotChunk
      BY <1>1, <2>2 DEF GotChunk, AfterReading, AnyProgram
    <2>3. CASE GotAll
      BY <1>1, <2>3 DEF GotAll, Goto, AfterReading, AnyProgram
    <2>4. CASE ReadsTail
      BY <1>1, <2>4 DEF ReadsTail, AnyProgram
    <2>5. QED BY <2>1, <2>2, <2>3, <2>4
  <1>4. QED BY <1>2, <1>3, UndecidedMove

LEMMA GoingJudged ==
  ASSUME PInv, Judged, Goes \/ Gone
  PROVE  Judged'
  <1>1. program.kind = "readAll" /\ program \in AnyProgram
    BY DEF Goes, Gone, At, PInv, ProgramInv, ProgramTyped
  <1>2. program'.at \in {"gone", "read"} /\ program'.kind = program.kind
    BY <1>1 DEF Goes, Gone, Goto, AnyProgram
  <1>3. QED BY <1>1, <1>2 DEF Judged, OwnFilesPass

LEMMA DestinationJudged ==
  ASSUME PInv, Judged, DestinationExists
  PROVE  Judged'
  <1>1. program.kind \in {"raw", "wav"} /\ Ends(1) /\ UNCHANGED stream
    BY DEF DestinationExists, vars
  <1>2. QED BY <1>1, EndJudged

LEMMA UnjudgedStep ==
  ASSUME Judged, UNCHANGED <<program, stream>>
  PROVE  Judged'
  <1>1. Scan' = Scan
    BY ScanStays
  <1>2. noPoints' = noPoints
    BY DEF noPoints
  <1>3. OwnFilesPass'
    BY <1>1 DEF Judged, OwnFilesPass
  <1>4. QED BY <1>2, <1>3 DEF Judged

LEMMA JudgedInit == ProgramInit => Judged
  <1> SUFFICES ASSUME ProgramInit PROVE Judged
    OBVIOUS
  <1>1. PICK kind \in Kinds :
          program = [kind |-> kind, at |-> IF kind \in {"verify", "check"} THEN "scan" ELSE "open",
                     from |-> 0, pcm |-> <<>>, tail |-> 0, code |-> -1]
    BY DEF ProgramInit
  <1>2. QED BY <1>1 DEF Judged, OwnFilesPass

LEMMA JudgedNext == PInv /\ Judged /\ [ProgramNext]_programVars => Judged'
  <1> SUFFICES ASSUME PInv, Judged, [ProgramNext]_programVars PROVE Judged'
    OBVIOUS
  <1>1. CASE program.kind = "caller" /\ Next /\ UNCHANGED program
    <2>1. UNCHANGED stream
      BY <1>1 DEF Next, Step, OpenCall, CloseCall, RefusedCall, ReadCall, SeekCall, TailCall,
                  ReadStep, SeekStep
    <2>2. QED BY <1>1, <2>1, UnjudgedStep
  <1>2. CASE Step /\ UNCHANGED program
    <2>1. UNCHANGED stream
      BY <1>2 DEF Step, ReadStep, SeekStep
    <2>2. QED BY <1>2, <2>1, UnjudgedStep
  <1>3. CASE ReadsChunk \/ GotChunk \/ GotAll \/ ReadsTail
    BY <1>3, ReadingJudged
  <1>4. CASE Goes \/ Gone
    BY <1>4, GoingJudged
  <1>5. CASE UNCHANGED programVars
    BY <1>5, UnjudgedStep DEF programVars, vars
  <1>6. QED BY <1>1, <1>2, <1>3, <1>4, <1>5, ScannedJudged, DestinationJudged, OpensJudged,
               ClosesJudged, JudgesJudged DEF ProgramNext, ProgramStep

(* --verify and --check accept every file do_encode writes, unless the end *)
(* of its input cut off a frame, which only the signature knows of: it is  *)
(* where scan_ofr_file() looks for it, of the bytes --check decodes, and   *)
(* the exit code is 0.                                                     *)
THEOREM OwnFilesAccepted == ProgramSpec => []OwnFilesPass
  <1>1. Judged => OwnFilesPass
    BY DEF Judged
  <1>2. QED BY <1>1, JudgedInit, JudgedNext, ProgramInvariant, PTL DEF ProgramSpec

-----------------------------------------------------------------------------
(* What --verify finds in order                                            *)

(* The blocks of a file, and what follows one.                             *)
BlocksOf(s) == {p \in DOMAIN s.cells : IsBlock(s, p)}
NextTo(s, p) == p + 1 + Cell(s, p).payload

(* One step of the walk, with f for the rest.                              *)
WalkOn(f, p) ==
  IF CellAt(p).kind # "COMP" THEN [ok |-> TRUE, end |-> p, values |-> 0]
  ELSE IF ~BlockSound(p) THEN [ok |-> FALSE, end |-> p, values |-> 0]
  ELSE LET rest == f[p + 1 + CellAt(p).payload] IN
       [rest EXCEPT !.values = @ + CellAt(p).values]

WalkEnd == [ok : BOOLEAN, end : Nat, values : Nat]

(* What holds of a number and, with every number, of the one before it.    *)
LEMMA Downward ==
  ASSUME NEW T \in SUBSET Nat, NEW n \in T, \A k \in Nat : k + 1 \in T => k \in T
  PROVE  0 \in T
  <1>1. PICK k \in T : \A m \in T : k <= m
    BY LeastNumber
  <1>2. k \in Nat
    BY <1>1
  <1>3. SUFFICES ASSUME k # 0 PROVE FALSE
    BY <1>1
  <1>4. k - 1 \in Nat /\ (k - 1) + 1 = k /\ ~(k <= k - 1)
    BY <1>2, <1>3
  <1>5. QED BY <1>1, <1>4

(* The walk is what its definition says: it never comes back, and ends     *)
(* behind the file at the latest.                                          *)
LEMMA WalkIs ==
  ASSUME stream \in Streams, \A p \in BlocksOf(stream) : CellAt(p).payload \in Nat
  PROVE  \A p \in Nat : Walk[p] = WalkOn(Walk, p)
  <1> DEFINE From(f, k) == /\ f = [p \in Nat |-> f[p]]
                           /\ \A p \in Nat : p >= k => f[p] = WalkOn(f, p)
             T == {k \in Nat : \E f : From(f, k)}
             n == Len(stream.cells) + 1
  <1>1. n \in Nat /\ \A p \in Nat : p >= n => CellAt(p).kind # "COMP"
    BY StreamFacts DEF CellAt, Cell, Zero
  <1>2. \A p : CellAt(p).kind = "COMP" => CellAt(p).payload \in Nat
    BY BlockFacts DEF CellAt, IsBlock, BlocksOf
  <1>3. n \in T
    <2> DEFINE f == [p \in Nat |-> [ok |-> TRUE, end |-> p, values |-> 0]]
    <2>1. f = [p \in Nat |-> f[p]]
      OBVIOUS
    <2>2. ASSUME NEW p \in Nat, p >= n PROVE f[p] = WalkOn(f, p)
      BY <1>1, <2>2 DEF WalkOn
    <2> HIDE DEF f, n
    <2>3. From(f, n)
      BY <2>1, <2>2
    <2>4. QED BY <1>1, <2>3
  <1>4. ASSUME NEW k \in Nat, k + 1 \in T PROVE k \in T
    <2>1. PICK f : From(f, k + 1)
      BY <1>4
    <2> DEFINE g == [p \in Nat |-> IF p = k THEN WalkOn(f, k) ELSE f[p]]
    <2>2. g = [p \in Nat |-> g[p]]
      OBVIOUS
    <2>3. ASSUME NEW p \in Nat, p >= k PROVE WalkOn(g, p) = WalkOn(f, p)
      <3> DEFINE q == p + 1 + CellAt(p).payload
      <3>1. CASE CellAt(p).kind = "COMP"
        <4>1. q \in Nat /\ q # k
          BY <1>2, <2>3, <3>1
        <4>2. g[q] = f[q]
          BY <4>1
        <4> HIDE DEF g
        <4>3. QED BY <4>2 DEF WalkOn
      <3>2. CASE CellAt(p).kind # "COMP"
        BY <3>2 DEF WalkOn
      <3>3. QED BY <3>1, <3>2
    <2>4. ASSUME NEW p \in Nat, p >= k PROVE g[p] = WalkOn(f, p)
      <3>1. CASE p = k
        BY <3>1
      <3>2. CASE p # k
        <4>1. p >= k + 1
          BY <2>4, <3>2
        <4>2. g[p] = f[p]
          BY <3>2
        <4>3. QED BY <2>1, <4>1, <4>2
      <3>3. QED BY <3>1, <3>2
    <2> HIDE DEF g
    <2>5. From(g, k)
      BY <2>2, <2>3, <2>4
    <2>6. QED BY <2>5
  <1>5. 0 \in T
    <2> HIDE DEF From
    <2>1. T \in SUBSET Nat
      OBVIOUS
    <2> HIDE DEF T
    <2>2. QED BY <1>3, <1>4, <2>1, Downward
  <1>6. PICK f : From(f, 0)
    BY <1>5
  <1>7. f = [p \in Nat |-> WalkOn(f, p)]
    <2>1. \A p \in Nat : f[p] = WalkOn(f, p)
      BY <1>6
    <2>2. f = [p \in Nat |-> f[p]]
      BY <1>6
    <2>3. QED BY <2>1, <2>2
  <1>8. Walk = [p \in Nat |-> WalkOn(Walk, p)]
    <2>1. \E h : h = [p \in Nat |-> WalkOn(h, p)]
      BY <1>7
    <2>2. QED BY <2>1 DEF Walk, WalkOn
  <1>9. QED
    <2> HIDE DEF From
    <2>1. QED BY <1>8

(* What it returns has the fields of a walk.                               *)
LEMMA WalkCounts ==
  ASSUME stream \in Streams, \A p \in BlocksOf(stream) : CellAt(p).payload \in Nat
  PROVE  \A p \in Nat : Walk[p] \in WalkEnd
  <1> DEFINE T == {k \in Nat : \A p \in Nat : p >= k => Walk[p] \in WalkEnd}
             n == Len(stream.cells) + 1
  <1>1. n \in Nat /\ \A p \in Nat : p >= n => CellAt(p).kind # "COMP"
    BY StreamFacts DEF CellAt, Cell, Zero
  <1>2. \A p : CellAt(p).kind = "COMP" => CellAt(p).payload \in Nat /\ CellAt(p).values \in Nat
    BY BlockFacts DEF CellAt, IsBlock, BlocksOf
  <1>3. \A p \in Nat : Walk[p] = WalkOn(Walk, p)
    BY WalkIs
  <1>4. n \in T
    <2>1. ASSUME NEW p \in Nat, p >= n PROVE Walk[p] \in WalkEnd
      <3>1. WalkOn(Walk, p) = [ok |-> TRUE, end |-> p, values |-> 0]
        BY <1>1, <2>1 DEF WalkOn
      <3>2. [ok |-> TRUE, end |-> p, values |-> 0] \in WalkEnd
        BY DEF WalkEnd
      <3>3. Walk[p] = WalkOn(Walk, p)
        BY <1>3
      <3>4. QED BY <3>1, <3>2, <3>3
    <2> HIDE DEF n
    <2>2. QED BY <1>1, <2>1
  <1>5. ASSUME NEW k \in Nat, k + 1 \in T PROVE k \in T
    <2>1. \A p \in Nat : p >= k + 1 => Walk[p] \in WalkEnd
      BY <1>5
    <2>2. Walk[k] \in WalkEnd
      <3> DEFINE q == k + 1 + CellAt(k).payload
      <3>1. CASE CellAt(k).kind = "COMP" /\ BlockSound(k)
        <4>1. q \in Nat /\ q >= k + 1 /\ CellAt(k).values \in Nat
          BY <1>2, <3>1
        <4>2. Walk[q] \in WalkEnd
          BY <2>1, <4>1
        <4>3. Walk[k] = [Walk[q] EXCEPT !.values = @ + CellAt(k).values]
          BY <1>3, <3>1 DEF WalkOn
        <4>4. Walk[q].values + CellAt(k).values \in Nat
          BY <4>1, <4>2 DEF WalkEnd
        <4> HIDE DEF q
        <4>5. QED BY <4>2, <4>3, <4>4 DEF WalkEnd
      <3>2. CASE ~(CellAt(k).kind = "COMP" /\ BlockSound(k))
        <4>1. \E b \in BOOLEAN : WalkOn(Walk, k) = [ok |-> b, end |-> k, values |-> 0]
          BY <3>2 DEF WalkOn
        <4>2. QED BY <1>3, <4>1 DEF WalkEnd
      <3>3. QED BY <3>1, <3>2
    <2>3. ASSUME NEW p \in Nat, p >= k PROVE Walk[p] \in WalkEnd
      <3>1. p = k \/ p >= k + 1
        BY <2>3
      <3>2. QED BY <2>1, <2>2, <3>1
    <2>4. QED BY <2>3
  <1>6. 0 \in T
    <2>1. T \in SUBSET Nat
      OBVIOUS
    <2> HIDE DEF T
    <2>2. QED BY <1>4, <1>5, <2>1, Downward
  <1>7. QED BY <1>6

(* Where the walk finds the block at p in order, it goes on behind it.     *)
LEMMA WalkGoes ==
  ASSUME stream \in Streams, \A p \in BlocksOf(stream) : CellAt(p).payload \in Nat,
         NEW p \in BlocksOf(stream), Walk[p].ok
  PROVE  /\ BlockSound(p) /\ NextTo(stream, p) \in Nat /\ CellAt(p).values \in Nat
         /\ Walk[NextTo(stream, p)].ok
         /\ Walk[NextTo(stream, p)].values \in Nat
         /\ Walk[p].values = Walk[NextTo(stream, p)].values + CellAt(p).values
  <1> DEFINE q == p + 1 + CellAt(p).payload
  <1>1. p \in Nat /\ CellAt(p).kind = "COMP" /\ CellAt(p).payload \in Nat /\ CellAt(p).values \in Nat
    BY BlockFacts, StreamFacts DEF CellAt, IsBlock, BlocksOf
  <1>2. q \in Nat /\ q = NextTo(stream, p)
    BY <1>1 DEF NextTo, CellAt
  <1>3. Walk[p] = WalkOn(Walk, p) /\ Walk[q] \in WalkEnd
    BY <1>1, <1>2, WalkIs, WalkCounts
  <1> HIDE DEF q
  <1>4. BlockSound(p)
    BY <1>1, <1>3 DEF WalkOn
  <1>5. Walk[p] = [Walk[q] EXCEPT !.values = @ + CellAt(p).values]
    BY <1>1, <1>3, <1>4 DEF WalkOn, q
  <1>6. Walk[q].values \in Nat /\ Walk[p].ok = Walk[q].ok
        /\ Walk[p].values = Walk[q].values + CellAt(p).values
    BY <1>3, <1>5 DEF WalkEnd
  <1>7. QED BY <1>1, <1>2, <1>4, <1>6

(* The headers of a file in order, in parts.                               *)
LEMMA HeadersFacts ==
  ASSUME stream \in Streams, HeadersInOrder(stream)
  PROVE  LET start == 3 + Cell(stream, 2).size IN
         /\ start <= Len(stream.cells) + 1
         /\ \A p \in DOMAIN stream.cells : stream.cells[p].kind \in {"COMP", "TAIL"} =>
              p = start \/ \E q \in BlocksOf(stream) : p = NextTo(stream, q)
         /\ \A p \in BlocksOf(stream) :
              LET frames == FramesIn(stream, p) IN
              /\ p \in Nat /\ p \in 1 .. Len(stream.cells) /\ CellAt(p) = stream.cells[p]
              /\ CellAt(p).kind = "COMP" /\ CellAt(p).payload \in Nat
              /\ 1 .. frames + 1 \subseteq DOMAIN CellAt(p).cost
              /\ \A i \in 1 .. frames + 1 : CellAt(p).cost[i] \in Nat
              /\ p = start => CellAt(p).first = 0
              /\ IsBlock(stream, NextTo(stream, p)) =>
                   CellAt(NextTo(stream, p)).first = CellAt(p).first + frames
              /\ CellAt(p).values = 0 => stream.total = 0 /\ ~IsBlock(stream, NextTo(stream, p))
              /\ frames \in Nat /\ CellAt(p).first \in Nat /\ CellAt(p).values \in Nat
              /\ CellAt(p).values = frames * stream.channels
  <1> DEFINE start == 3 + Cell(stream, 2).size
             ends == {start} \cup {NextTo(stream, q) : q \in BlocksOf(stream)}
  <1>1. /\ start <= Len(stream.cells) + 1
        /\ \A p \in DOMAIN stream.cells : stream.cells[p].kind \in {"COMP", "TAIL"} => p \in ends
        /\ \A p \in BlocksOf(stream) :
              LET frames == FramesIn(stream, p) IN
              /\ CellAt(p).payload \in Nat
              /\ 1 .. frames + 1 \subseteq DOMAIN CellAt(p).cost
              /\ \A i \in 1 .. frames + 1 : CellAt(p).cost[i] \in Nat
              /\ p = start => CellAt(p).first = 0
              /\ IsBlock(stream, NextTo(stream, p)) =>
                   CellAt(NextTo(stream, p)).first = CellAt(p).first + frames
              /\ CellAt(p).values % stream.channels = 0
              /\ CellAt(p).values = 0 => stream.total = 0 /\ ~IsBlock(stream, NextTo(stream, p))
    BY DEF HeadersInOrder, BlocksOf, NextTo, CellAt
  <1>2. ASSUME NEW p \in BlocksOf(stream)
        PROVE  /\ p \in Nat /\ p \in 1 .. Len(stream.cells) /\ CellAt(p) = stream.cells[p]
               /\ CellAt(p).kind = "COMP" /\ FramesIn(stream, p) \in Nat
               /\ CellAt(p).first \in Nat /\ CellAt(p).values \in Nat
               /\ CellAt(p).values = FramesIn(stream, p) * stream.channels
    <2>1. /\ IsBlock(stream, p) /\ p \in Nat /\ p \in 1 .. Len(stream.cells)
          /\ CellAt(p) = stream.cells[p] /\ CellAt(p).kind = "COMP"
          /\ FramesIn(stream, p) \in Nat /\ CellAt(p).first \in Nat /\ CellAt(p).values \in Nat
      BY BlockFacts, StreamFacts DEF BlocksOf, CellAt, IsBlock
    <2> DEFINE v == CellAt(p).values c == stream.channels f == v \div c
    <2>2. v \in Nat /\ c \in Nat \ {0} /\ v % c = 0 /\ FramesIn(stream, p) = f /\ f \in Nat
      BY <1>1, <2>1, StreamFacts DEF FramesIn, CellAt
    <2>3. v = c * f + (v % c)
      <3> HIDE DEF v, c
      <3>1. QED BY <2>2, Division
    <2> HIDE DEF v, c, f
    <2>4. v = f * c
      BY <2>2, <2>3
    <2>5. QED BY <2>1, <2>2, <2>4 DEF v, c
  <1>3. \A p \in ends : p = start \/ \E q \in BlocksOf(stream) : p = NextTo(stream, q)
    OBVIOUS
  <1> HIDE DEF start, ends
  <1>4. start = 3 + Cell(stream, 2).size
    BY DEF start
  <1>5. QED BY <1>1, <1>2, <1>3, <1>4

(* A payload with the checksum it was written with holds nothing else.     *)
LEMMA SoundPayload ==
  ASSUME stream \in Streams, NEW p \in BlocksOf(stream), CellAt(p).payload \in Nat, BlockSound(p)
  PROVE  /\ p + CellAt(p).payload <= Len(stream.cells)
         /\ \A i \in 1 .. CellAt(p).payload :
              stream.cells[p + i] = [kind |-> "DATA", block |-> CellAt(p).id, index |-> i]
         /\ \A q \in p + 1 .. p + CellAt(p).payload :
              q \in DOMAIN stream.cells /\ stream.cells[q].kind = "DATA"
  <1> DEFINE n == CellAt(p).payload
             id == CellAt(p).id
  <1>1. /\ p \in Nat /\ p \in 1 .. Len(stream.cells) /\ CellAt(p) = stream.cells[p]
        /\ Len(stream.cells) \in Nat /\ DOMAIN stream.cells = 1 .. Len(stream.cells)
    BY BlockFacts, StreamFacts DEF BlocksOf, CellAt, IsBlock
  <1>2. p + n <= Len(stream.cells) /\ SubSeq(stream.cells, p + 1, p + n) = Data(id, n)
    BY <1>1 DEF BlockSound
  <1>3. n \in Nat
    OBVIOUS
  <1> HIDE DEF n, id
  <1>4. SubSeq(stream.cells, p + 1, p + n) =
          [i \in 1 .. (p + n) - (p + 1) + 1 |-> stream.cells[(p + 1) + i - 1]]
    BY <1>1, <1>3, PartIs
  <1>5. (p + n) - (p + 1) + 1 = n /\ \A i \in 1 .. n : (p + 1) + i - 1 = p + i
    BY <1>1, <1>3
  <1>6. \A i \in 1 .. n : stream.cells[p + i] = [kind |-> "DATA", block |-> id, index |-> i]
    <2> DEFINE part == SubSeq(stream.cells, p + 1, p + n)
    <2>1. ASSUME NEW i \in 1 .. n
          PROVE  stream.cells[p + i] = [kind |-> "DATA", block |-> id, index |-> i]
      <3>1. part[i] = stream.cells[(p + 1) + i - 1]
        BY <1>4, <1>5
      <3>2. Data(id, n)[i] = [kind |-> "DATA", block |-> id, index |-> i]
        BY DEF Data
      <3>3. part = Data(id, n)
        BY <1>2
      <3> HIDE DEF part
      <3>4. (p + 1) + i - 1 = p + i
        BY <1>5
      <3>5. QED BY <3>1, <3>2, <3>3, <3>4
    <2>2. QED BY <2>1
  <1>7. ASSUME NEW q \in p + 1 .. p + n
        PROVE  q \in DOMAIN stream.cells /\ stream.cells[q].kind = "DATA"
    <2>1. q - p \in 1 .. n /\ q = p + (q - p) /\ q \in 1 .. Len(stream.cells)
      BY <1>1, <1>2, <1>3
    <2>2. stream.cells[p + (q - p)] = [kind |-> "DATA", block |-> id, index |-> q - p]
      BY <1>6, <2>1
    <2>3. QED BY <1>1, <2>1, <2>2
  <1>8. QED BY <1>2, <1>6, <1>7 DEF n, id

(* The file that --verify accepts.                                         *)
LEMMA ScanFacts ==
  ASSUME stream \in Streams, Scan.ok
  PROVE  LET start == 3 + Cell(stream, 2).size IN
         /\ ~stream.float /\ start \in Nat /\ 2 \in DOMAIN stream.cells
         /\ stream.cells[1].kind = "OFR" /\ Cell(stream, 2).kind = "HEAD"
         /\ Cell(stream, 2).size \in Nat
         /\ Walk[start].ok /\ Scan.values = Walk[start].values
  <1> DEFINE start == 3 + CellAt(2).size
             walk == Walk[start]
             tail == CellAt(walk.end)
             next == IF tail.kind = "TAIL" THEN walk.end + 1 + tail.size ELSE walk.end
  <1>1. CellAt(1).kind = "OFR" /\ ~stream.float /\ CellAt(2).kind = "HEAD"
    BY DEF Scan
  <1>2. Scan = [ok |-> walk.ok, values |-> walk.values,
                md5 |-> IF CellAt(next).kind = "MD5" THEN CellAt(next) ELSE Zero]
    BY <1>1 DEF Scan
  <1> HIDE DEF walk, next
  <1>3. walk.ok /\ Scan.values = walk.values
    BY <1>2
  <1>4. 1 \in DOMAIN stream.cells /\ 2 \in DOMAIN stream.cells
        /\ CellAt(1) = stream.cells[1] /\ CellAt(2) = stream.cells[2]
    <2>1. Zero.kind # "OFR" /\ Zero.kind # "HEAD"
      BY DEF Zero
    <2>2. QED BY <1>1, <2>1, CellFacts DEF CellAt
  <1>5. CellAt(2).size \in Nat
    BY <1>1, <1>4, StreamsAssumption
  <1>6. start \in Nat
    BY <1>5
  <1>7. QED BY <1>1, <1>3, <1>4, <1>5, <1>6 DEF walk, CellAt

(* Before every block there are as many values as the walk still finds     *)
(* less than the header announces.                                         *)
LEMMA WalkBalances ==
  ASSUME stream \in Streams, HeadersInOrder(stream), Scan.ok, Scan.values = stream.total
  PROVE  \A p \in BlocksOf(stream) :
            /\ Walk[p].ok
            /\ CellAt(p).first * stream.channels + Walk[p].values = stream.total
  <1> DEFINE start == 3 + Cell(stream, 2).size
             Right(p) == /\ Walk[p].ok
                         /\ CellAt(p).first * stream.channels + Walk[p].values = stream.total
             Bad == {p \in BlocksOf(stream) : ~Right(p)}
  <1>1. SUFFICES ASSUME Bad # {} PROVE FALSE
    OBVIOUS
  <1>2. \A p \in BlocksOf(stream) : p \in Nat /\ CellAt(p).payload \in Nat
    BY HeadersFacts
  <1>3. PICK p \in Bad : \A q \in Bad : p <= q
    <2>1. Bad \in SUBSET Nat
      BY <1>2
    <2> HIDE DEF Bad
    <2>2. QED BY <1>1, <2>1, LeastNumber
  <1>4. p \in BlocksOf(stream) /\ ~Right(p)
    BY <1>3
  <1>5. stream.channels \in Nat \ {0} /\ stream.total \in Nat
    BY StreamFacts
  <1>6. p = start \/ \E q \in BlocksOf(stream) : p = NextTo(stream, q)
    <2>1. p \in DOMAIN stream.cells /\ stream.cells[p].kind = "COMP"
      BY <1>4, BlockFacts DEF BlocksOf, IsBlock
    <2>2. QED BY <2>1, HeadersFacts
  <1>7. CASE p = start
    <2>1. CellAt(p).first = 0
      BY <1>4, <1>7, HeadersFacts
    <2>2. Walk[p].ok /\ Walk[p].values = stream.total
      BY <1>7, ScanFacts
    <2>3. 0 * stream.channels + stream.total = stream.total
      BY <1>5
    <2>4. QED BY <1>4, <2>1, <2>2, <2>3
  <1>8. ASSUME NEW q \in BlocksOf(stream), p = NextTo(stream, q) PROVE FALSE
    <2> DEFINE frames == FramesIn(stream, q)
    <2>1. q \in Nat /\ CellAt(q).payload \in Nat
      BY <1>2, <1>8
    <2>2. q < p
      BY <1>8, <2>1 DEF NextTo, CellAt
    <2>3. Right(q)
      <3>1. p \in Nat
        BY <1>2, <1>4
      <3> HIDE DEF Bad
      <3>2. ~(p <= q)
        BY <2>1, <2>2, <3>1
      <3>3. q \notin Bad
        BY <1>3, <3>2
      <3>4. QED BY <1>8, <3>3 DEF Bad
    <2>4. /\ Walk[p].ok /\ Walk[p].values \in Nat
          /\ Walk[q].values = Walk[p].values + CellAt(q).values
      BY <1>2, <1>8, <2>3, WalkGoes
    <2>5. /\ CellAt(q).values = frames * stream.channels /\ frames \in Nat /\ CellAt(q).first \in Nat
          /\ CellAt(p).first = CellAt(q).first + frames
      BY <1>4, <1>8, HeadersFacts DEF BlocksOf
    <2>6. CellAt(p).first * stream.channels + Walk[p].values = stream.total
      <3> DEFINE f == CellAt(q).first g == CellAt(p).first c == stream.channels w == Walk[p].values
                 v == Walk[q].values t == stream.total u == CellAt(q).values
      <3>1. /\ f \in Nat /\ frames \in Nat /\ c \in Nat /\ w \in Nat /\ t \in Nat
            /\ g = f + frames /\ u = frames * c /\ v = w + u /\ f * c + v = t
        BY <1>5, <2>3, <2>4, <2>5
      <3> HIDE DEF f, g, c, w, v, t, u, frames
      <3>2. g * c = f * c + frames * c
        BY <3>1
      <3>3. f * c \in Nat /\ frames * c \in Nat
        BY <3>1
      <3>4. g * c + w = t
        <4> DEFINE x == f * c y == frames * c z == g * c
        <4>1. x \in Nat /\ y \in Nat /\ z = x + y /\ v = w + y /\ x + v = t
          BY <3>1, <3>2, <3>3
        <4> HIDE DEF x, y, z
        <4>2. z + w = t
          BY <3>1, <4>1
        <4>3. QED BY <4>2 DEF z
      <3>5. QED BY <3>4 DEF g, c, w, t
    <2>7. QED BY <1>4, <2>4, <2>6
  <1>9. QED BY <1>6, <1>7, <1>8

(* What follows from the headers and the walk of a block.                  *)
LEMMA BlocksApart ==
  ASSUME stream \in Streams, HeadersInOrder(stream), Scan.ok, Scan.values = stream.total
  PROVE  LET start == 3 + Cell(stream, 2).size IN
         /\ \A p \in BlocksOf(stream) :
              /\ p >= start /\ start \in BlocksOf(stream)
              /\ NextTo(stream, p) \in Nat /\ p < NextTo(stream, p)
              /\ NextTo(stream, p) <= Len(stream.cells) + 1
         /\ \A p, q \in BlocksOf(stream) : p < q => NextTo(stream, p) <= q
         /\ \A p \in BlocksOf(stream) : ~IsBlock(stream, NextTo(stream, p)) =>
              \A q \in BlocksOf(stream) : q <= p
  <1> DEFINE start == 3 + Cell(stream, 2).size
             B == BlocksOf(stream)
             next(p) == NextTo(stream, p)
  <1>1. ASSUME NEW p \in B
        PROVE  /\ p \in Nat /\ next(p) \in Nat /\ p < next(p) /\ next(p) <= Len(stream.cells) + 1
               /\ next(p) = p + 1 + CellAt(p).payload /\ CellAt(p).payload \in Nat
               /\ \A q \in p + 1 .. p + CellAt(p).payload : q \notin B
    <2>1. p \in Nat /\ CellAt(p).payload \in Nat /\ Len(stream.cells) \in Nat
      BY HeadersFacts, StreamFacts
    <2>2. \A q \in BlocksOf(stream) : CellAt(q).payload \in Nat
      BY HeadersFacts
    <2>3. BlockSound(p)
      BY <2>2, WalkBalances, WalkGoes
    <2>4. p + CellAt(p).payload <= Len(stream.cells)
      BY <2>1, <2>3, SoundPayload
    <2>5. \A q \in p + 1 .. p + CellAt(p).payload : q \notin B
      <3>1. ASSUME NEW q \in p + 1 .. p + CellAt(p).payload, q \in B PROVE FALSE
        <4>1. stream.cells[q].kind = "DATA"
          BY <2>1, <2>3, <3>1, SoundPayload
        <4>2. stream.cells[q].kind = "COMP"
          BY <3>1, BlockFacts DEF BlocksOf, IsBlock
        <4>3. QED BY <4>1, <4>2
      <3>2. QED BY <3>1
    <2>6. next(p) = p + 1 + CellAt(p).payload
      BY DEF NextTo, CellAt
    <2> DEFINE n == CellAt(p).payload m == Len(stream.cells)
    <2>7. p \in Nat /\ n \in Nat /\ m \in Nat /\ p + n <= m
      BY <2>1, <2>4
    <2> HIDE DEF n, m
    <2>8. p + 1 + n \in Nat /\ p < p + 1 + n /\ p + 1 + n <= m + 1
      BY <2>7
    <2>9. QED BY <2>1, <2>5, <2>6, <2>8 DEF n, m
  <1>2. \A p \in B : p = start \/ \E q \in B : p = next(q)
    <2>1. \A p \in B : p \in DOMAIN stream.cells /\ stream.cells[p].kind = "COMP"
      BY BlockFacts DEF BlocksOf, IsBlock
    <2>2. QED BY <2>1, HeadersFacts
  <1>3. start \in Nat
    BY ScanFacts
  <1> HIDE DEF B, next, start
  <1>4. ASSUME NEW p \in B, NEW q \in B, p < q PROVE next(p) <= q
    <2> DEFINE n == CellAt(p).payload
    <2>1. p \in Nat /\ q \in Nat /\ n \in Nat /\ next(p) = p + 1 + n /\ q \notin p + 1 .. p + n
      BY <1>1, <1>4
    <2> HIDE DEF n
    <2>2. QED BY <1>4, <2>1
  <1>5. ASSUME NEW p \in B PROVE p >= start /\ start \in B
    <2>1. B \in SUBSET Nat
      BY <1>1
    <2>2. PICK m \in B : \A q \in B : m <= q
      BY <1>5, <2>1, LeastNumber
    <2>3. m = start
      <3>1. ASSUME NEW q \in B, m = next(q) PROVE FALSE
        <4>1. q \in Nat /\ q < m /\ m <= q /\ m \in Nat
          BY <1>1, <2>1, <2>2, <3>1
        <4>2. QED BY <4>1
      <3>2. QED BY <1>2, <3>1
    <2>4. m <= p /\ m \in Nat /\ p \in Nat
      BY <1>5, <2>1, <2>2
    <2>5. QED BY <2>2, <2>3, <2>4
  <1>6. ASSUME NEW p \in B, ~IsBlock(stream, next(p)), NEW r \in B PROVE r <= p
    <2> DEFINE T == {q \in B : p < q}
    <2>1. T \in SUBSET Nat
      BY <1>1
    <2>2. SUFFICES ASSUME r \in T PROVE FALSE
      <3>1. r \in Nat /\ p \in Nat
        BY <1>1, <1>6
      <3>2. r \notin T
        BY <2>2
      <3>3. ~(p < r)
        BY <1>6, <3>2
      <3>4. QED BY <3>1, <3>3
    <2>3. PICK q \in T : \A k \in T : q <= k
      <3> HIDE DEF T
      <3>1. QED BY <2>1, <2>2, LeastNumber
    <2>4. q \in B /\ p < q /\ q \in Nat /\ p \in Nat
      BY <1>1, <1>6, <2>1, <2>3
    <2>5. q # start
      <3>1. p >= start
        BY <1>5, <1>6
      <3>2. QED BY <1>3, <2>4, <3>1
    <2>6. PICK k \in B : q = next(k)
      BY <1>2, <2>4, <2>5
    <2>7. k \in Nat /\ k < q
      BY <1>1, <2>6
    <2>8. ~(p < k)
      <3>1. ASSUME p < k PROVE FALSE
        <4>1. k \in T
          BY <2>6, <3>1
        <4>2. q <= k
          BY <2>3, <4>1
        <4>3. QED BY <2>4, <2>7, <4>2
      <3>2. QED BY <3>1
    <2>9. k # p
      <3>1. IsBlock(stream, q)
        BY <2>4 DEF B, BlocksOf
      <3>2. QED BY <1>6, <2>6, <3>1
    <2>10. k < p
      BY <2>4, <2>7, <2>8, <2>9
    <2>11. q <= p
      BY <1>4, <1>6, <2>6, <2>10
    <2>12. QED BY <2>4, <2>11
  <1>7. QED BY <1>1, <1>4, <1>5, <1>6 DEF B, next, start

(* Every TAIL stands behind the last block, or the HEAD if there is none.  *)
LEMMA TailsLast ==
  ASSUME stream \in Streams, HeadersInOrder(stream), Scan.ok, Scan.values = stream.total,
         NEW q \in DOMAIN stream.cells, stream.cells[q].kind = "TAIL"
  PROVE  /\ BlocksOf(stream) = {} => q = 3 + Cell(stream, 2).size
         /\ \A p \in BlocksOf(stream) : ~IsBlock(stream, NextTo(stream, p)) => q = NextTo(stream, p)
  <1> DEFINE start == 3 + Cell(stream, 2).size
  <1>1. q = start \/ \E r \in BlocksOf(stream) : q = NextTo(stream, r)
    BY HeadersFacts
  <1>2. ~IsBlock(stream, q)
    BY CellFacts DEF IsBlock
  <1>3. ASSUME NEW p \in BlocksOf(stream), ~IsBlock(stream, NextTo(stream, p))
        PROVE  q = NextTo(stream, p)
    <2>1. start \in BlocksOf(stream)
      BY <1>3, BlocksApart
    <2>2. q # start
      BY <1>2, <2>1 DEF BlocksOf
    <2>3. PICK r \in BlocksOf(stream) : q = NextTo(stream, r)
      BY <1>1, <2>2
    <2>4. p <= r /\ r <= p
      BY <1>2, <1>3, <2>3, BlocksApart
    <2>5. p \in Nat /\ r \in Nat
      BY <1>3, <2>3, HeadersFacts
    <2>6. QED BY <2>3, <2>4, <2>5
  <1>4. BlocksOf(stream) = {} => q = start
    BY <1>1
  <1>5. QED BY <1>3, <1>4

(* Behind a block the file goes on as its number of frames says.           *)
LEMMA VerifiedGoesOn ==
  ASSUME stream \in Streams, HeadersInOrder(stream), Scan.ok, Scan.values = stream.total,
         NEW p \in BlocksOf(stream)
  PROVE  GoesOn(stream, PayloadEnd(stream, p), Cell(stream, p).first + FramesIn(stream, p))
  <1> DEFINE q == NextTo(stream, p)
             c == stream.channels
             t == stream.total
             n == CellAt(p).first + FramesIn(stream, p)
  <1>1. /\ CellAt(p).payload \in Nat /\ FramesIn(stream, p) \in Nat /\ CellAt(p).first \in Nat
        /\ p \in Nat /\ CellAt(p).values \in Nat
        /\ CellAt(p).values = FramesIn(stream, p) * stream.channels
    BY HeadersFacts
  <1>2. \A k \in BlocksOf(stream) : CellAt(k).payload \in Nat /\ Walk[k].ok
    BY HeadersFacts, WalkBalances
  <1>3. /\ Walk[q].ok /\ Walk[q].values \in Nat /\ q \in Nat
        /\ Walk[p].values = Walk[q].values + CellAt(p).values
    BY <1>2, WalkGoes
  <1>4. CellAt(p).first * c + Walk[p].values = t
    BY WalkBalances
  <1>5. c \in Nat \ {0} /\ t \in Nat /\ Points(stream) = t \div c
    BY StreamFacts DEF Points
  <1>6. q = PayloadEnd(stream, p) + 1 /\ PayloadEnd(stream, p) \in Nat
    BY <1>1 DEF NextTo, PayloadEnd, CellAt
  <1>7. n \in Nat /\ n * c + Walk[q].values = t
    <2> DEFINE f == CellAt(p).first g == FramesIn(stream, p) w == Walk[q].values
               v == Walk[p].values u == CellAt(p).values
    <2>1. /\ f \in Nat /\ g \in Nat /\ c \in Nat /\ w \in Nat /\ n = f + g
          /\ u = g * c /\ v = w + u /\ f * c + v = t
      BY <1>1, <1>3, <1>4, <1>5
    <2> HIDE DEF f, g, c, w, v, u, n, t
    <2>2. n * c = f * c + g * c /\ f * c \in Nat /\ g * c \in Nat
      BY <2>1
    <2> DEFINE x == f * c y == g * c z == n * c
    <2>3. x \in Nat /\ y \in Nat /\ z = x + y /\ v = w + y /\ x + v = t
      BY <2>1, <2>2
    <2> HIDE DEF x, y, z
    <2>4. z + w = t
      BY <2>1, <2>3
    <2>5. n \in Nat
      BY <2>1
    <2>6. QED BY <2>4, <2>5 DEF z, w
  <1>8. CASE IsBlock(stream, q)
    <2>1. q \in BlocksOf(stream)
      BY <1>8, BlockFacts DEF BlocksOf
    <2>2. CellAt(q).first = n
      BY <1>8, HeadersFacts
    <2> DEFINE u == CellAt(q).values
               g == FramesIn(stream, q)
               w == Walk[q].values
               v == Walk[NextTo(stream, q)].values
    <2>3. /\ u \in Nat /\ g \in Nat /\ u = g * c /\ (u = 0 => t = 0)
      BY <2>1, HeadersFacts
    <2>4. v \in Nat /\ w = v + u
      BY <1>2, <2>1, WalkGoes
    <2>5. u # 0
      <3>1. ASSUME u = 0 PROVE FALSE
        <4>1. t = 0
          BY <2>3, <3>1
        <4>2. Walk[p].values = 0
          <5> DEFINE a == CellAt(p).first * c b == Walk[p].values
          <5>1. a \in Nat /\ b \in Nat /\ a + b = 0
            <6>1. CellAt(p).first \in Nat /\ c \in Nat
              BY <1>1, <1>5
            <6>2. a \in Nat
              <7> HIDE DEF c
              <7>1. QED BY <6>1
            <6>3. b \in Nat
              BY <1>1, <1>3
            <6> HIDE DEF a, b, c
            <6>4. QED BY <1>4, <4>1, <6>2, <6>3 DEF a, b
          <5> HIDE DEF a, b
          <5>2. b = 0
            BY <5>1
          <5>3. QED BY <5>2 DEF b
        <4>3. CellAt(p).values = 0
          BY <1>1, <1>3, <4>2
        <4>4. ~IsBlock(stream, q)
          BY <4>3, HeadersFacts
        <4>5. QED BY <1>8, <4>4
      <3>2. QED BY <3>1
    <2> HIDE DEF u, g, w, v, c, t, n
    <2>6. g # 0
      BY <1>5, <2>3, <2>5
    <2>7. (n + 1) * c <= t
      <3>1. g >= 1
        BY <2>3, <2>6
      <3>2. g * c >= c
        BY <1>5, <2>3, <3>1
      <3>3. (n + 1) * c = n * c + c /\ n * c \in Nat
        BY <1>5, <1>7
      <3>4. n * c + w = t
        BY <1>7 DEF w
      <3> DEFINE x == n * c y == g * c z == (n + 1) * c
      <3>5. x \in Nat /\ y >= c /\ z = x + c /\ x + w = t /\ w = v + y
        BY <2>3, <2>4, <3>2, <3>3, <3>4
      <3>6. c \in Nat /\ y \in Int /\ v \in Nat
        BY <1>5, <2>3, <2>4
      <3> HIDE DEF x, y, z
      <3>7. z <= t
        BY <3>5, <3>6
      <3>8. QED BY <3>7 DEF z
    <2>8. n + 1 <= t \div c
      <3>1. n + 1 \in Int /\ t \in Int
        BY <1>5, <1>7
      <3>2. QED BY <1>5, <2>7, <3>1, QuotientFrom
    <2>9. n < Points(stream)
      <3>1. Points(stream) \in Nat
        BY PointsType
      <3>2. n + 1 <= Points(stream)
        BY <1>5, <2>8
      <3>3. QED BY <1>7, <3>1, <3>2
    <2>10. IsBlock(stream, PayloadEnd(stream, p) + 1)
           /\ Cell(stream, PayloadEnd(stream, p) + 1).first = n
      BY <1>6, <1>8, <2>2 DEF CellAt
    <2>11. GoesOn(stream, PayloadEnd(stream, p), n)
      BY <2>9, <2>10 DEF GoesOn
    <2>12. QED BY <2>11 DEF n, CellAt
  <1>9. CASE ~IsBlock(stream, q)
    <2>1. Walk[q].values = 0
      <3>1. WalkOn(Walk, q) = [ok |-> TRUE, end |-> q, values |-> 0]
        BY <1>9 DEF WalkOn, IsBlock, CellAt
      <3>2. Walk[q] = WalkOn(Walk, q)
        BY <1>2, <1>3, WalkIs
      <3>3. QED BY <3>1, <3>2
    <2>2. n = Points(stream)
      <3> HIDE DEF n, c, t
      <3>1. n * c = t
        <4> DEFINE x == n * c
        <4>1. x \in Nat /\ x + 0 = t
          BY <1>5, <1>7, <2>1
        <4> HIDE DEF x
        <4>2. x = t
          BY <4>1
        <4>3. QED BY <4>2 DEF x
      <3>2. c * n + 0 = t /\ 0 \in 0 .. c - 1 /\ n \in Int
        BY <1>5, <1>7, <3>1
      <3>3. (c * n + 0) \div c = n
        BY <1>5, <3>2, DivisionUnique
      <3>4. QED BY <1>5, <3>2, <3>3
    <2>3. ASSUME NEW k \in DOMAIN stream.cells
          PROVE  /\ k > PayloadEnd(stream, p) => ~IsBlock(stream, k)
                 /\ stream.cells[k].kind = "TAIL" => k = PayloadEnd(stream, p) + 1
      <3>1. stream.cells[k].kind = "TAIL" => k = PayloadEnd(stream, p) + 1
        BY <1>6, <1>9, TailsLast
      <3>2. ASSUME IsBlock(stream, k), k > PayloadEnd(stream, p) PROVE FALSE
        <4>1. k \in BlocksOf(stream) /\ k \in Nat
          BY <3>2, StreamFacts DEF BlocksOf
        <4>2. k <= p
          BY <1>9, <4>1, BlocksApart
        <4>3. PayloadEnd(stream, p) >= p
          BY <1>1 DEF PayloadEnd, CellAt
        <4>4. QED BY <1>1, <1>6, <3>2, <4>1, <4>2, <4>3
      <3>3. QED BY <3>1, <3>2
    <2>4. GoesOn(stream, PayloadEnd(stream, p), n)
      <3>1. ~(n < Points(stream))
        <4>1. Points(stream) \in Nat
          BY PointsType
        <4>2. QED BY <2>2, <4>1
      <3> HIDE DEF n
      <3>2. QED BY <2>2, <2>3, <3>1 DEF GoesOn
    <2>5. QED BY <2>4 DEF CellAt
  <1>10. QED BY <1>8, <1>9

(* What --verify accepts is laid out as an encoder does it.                *)
LEMMA VerifiedIsLaidOut ==
  ASSUME stream \in Streams, HeadersInOrder(stream), Scan.ok, Scan.values = stream.total
  PROVE  LaidOut(stream)
  <1> DEFINE start == 2 + Cell(stream, 2).size
             m == Len(stream.cells)
  <1>1. /\ ~stream.float /\ 2 \in DOMAIN stream.cells /\ stream.cells[1].kind = "OFR"
        /\ Cell(stream, 2).kind = "HEAD" /\ Cell(stream, 2).size \in Nat
    BY ScanFacts
  <1>2. m \in Nat /\ DOMAIN stream.cells = 1 .. m /\ 2 <= m
    BY <1>1, StreamFacts
  <1>3. 1 \in 1 .. Min({ScanLimit, m})
    <2>1. ScanLimit \in Nat \ {0}
      BY EngineAssumption
    <2> HIDE DEF m
    <2>2. QED BY <1>2, <2>1, MinOfTwo
  <1>4. MainHeader(stream) = 1 /\ HeadAt(stream) = 2
    BY <1>1, <1>3, StartsAtOnce
  <1>5. start \in Nat /\ start + 1 = 3 + Cell(stream, 2).size
    BY <1>1
  <1>6. start <= m
    <2>1. start + 1 <= m + 1
      BY <1>5, HeadersFacts
    <2> HIDE DEF start, m
    <2>2. QED BY <1>2, <1>5, <2>1
  <1>7. ASSUME IsBlock(stream, start + 1) PROVE Cell(stream, start + 1).first = 0
    <2>1. start + 1 \in BlocksOf(stream)
      BY <1>7, BlockFacts DEF BlocksOf
    <2> DEFINE e == start + 1
    <2>2. e = 3 + Cell(stream, 2).size /\ e \in BlocksOf(stream)
      BY <1>5, <2>1
    <2> HIDE DEF e
    <2>3. CellAt(e).first = 0
      BY <2>2, HeadersFacts
    <2>4. QED BY <2>3 DEF e, CellAt
  <1>8. ASSUME ~IsBlock(stream, start + 1) PROVE GoesOn(stream, start, 0)
    <2>1. BlocksOf(stream) = {}
      <3>1. ASSUME NEW p \in BlocksOf(stream) PROVE FALSE
        <4>1. start + 1 \in BlocksOf(stream)
          BY <1>5, <3>1, BlocksApart
        <4>2. QED BY <1>8, <4>1 DEF BlocksOf
      <3>2. QED BY <3>1
    <2>2. stream.total = 0
      <3> DEFINE e == start + 1
      <3>1. e \in Nat /\ e = 3 + Cell(stream, 2).size
        BY <1>5
      <3>2. \A p \in BlocksOf(stream) : CellAt(p).payload \in Nat
        BY <2>1
      <3>3. ~IsBlock(stream, e)
        BY <1>8
      <3> HIDE DEF e
      <3>4. Walk[e] = WalkOn(Walk, e)
        BY <3>1, <3>2, WalkIs
      <3>5. WalkOn(Walk, e) = [ok |-> TRUE, end |-> e, values |-> 0]
        BY <3>3 DEF WalkOn, IsBlock, CellAt
      <3>6. Scan.values = Walk[e].values
        BY <3>1, ScanFacts
      <3>7. QED BY <3>4, <3>5, <3>6
    <2>3. Points(stream) = 0
      <3> DEFINE c == stream.channels
      <3>1. c \in Nat \ {0} /\ Points(stream) = 0 \div c
        BY <2>2, StreamFacts DEF Points
      <3> HIDE DEF c
      <3>2. (c * 0 + 0) \div c = 0 /\ c * 0 + 0 = 0
        BY <3>1, DivisionUnique
      <3>3. QED BY <3>1, <3>2
    <2>4. ASSUME NEW q \in DOMAIN stream.cells
          PROVE  /\ ~IsBlock(stream, q)
                 /\ stream.cells[q].kind = "TAIL" => q = start + 1
      BY <1>5, <2>1, TailsLast DEF BlocksOf
    <2>5. QED BY <2>3, <2>4 DEF GoesOn
  <1>9. ASSUME NEW p \in DOMAIN stream.cells, IsBlock(stream, p)
        PROVE  /\ PayloadFollows(stream, p, FramesIn(stream, p))
               /\ GoesOn(stream, BlockEnd(stream, p), Cell(stream, p).first + FramesIn(stream, p))
    <2>1. p \in BlocksOf(stream)
      BY <1>9 DEF BlocksOf
    <2>2. /\ CellAt(p).payload \in Nat
          /\ 1 .. FramesIn(stream, p) + 1 \subseteq DOMAIN CellAt(p).cost
          /\ \A i \in 1 .. FramesIn(stream, p) + 1 : CellAt(p).cost[i] \in Nat
          /\ \A k \in BlocksOf(stream) : CellAt(k).payload \in Nat
      BY <2>1, HeadersFacts
    <2>3. BlockSound(p)
      BY <2>1, <2>2, WalkBalances, WalkGoes
    <2>4. /\ p + CellAt(p).payload <= Len(stream.cells)
          /\ \A i \in 1 .. CellAt(p).payload :
               stream.cells[p + i] = [kind |-> "DATA", block |-> CellAt(p).id, index |-> i]
      BY <2>1, <2>2, <2>3, SoundPayload
    <2>5. PayloadFollows(stream, p, FramesIn(stream, p))
      BY <2>2, <2>4 DEF PayloadFollows, CellAt
    <2>6. BlockEnd(stream, p) = PayloadEnd(stream, p)
      BY <1>1 DEF BlockEnd
    <2>7. QED BY <2>1, <2>5, <2>6, VerifiedGoesOn
  <1>10. Cell(stream, 1).kind = "OFR"
    BY <1>1, <1>2 DEF Cell
  <1> HIDE DEF m
  <1>11. QED BY <1>1, <1>4, <1>6, <1>7, <1>8, <1>9, <1>10 DEF LaidOut, m

(* --verify is right about a file whose headers are in order: what it      *)
(* accepts, and what has as many values as announced, is handed on without *)
(* a gap and without an error by every program that starts at the          *)
(* beginning, however many blocks there are.                               *)
THEOREM VerifiedFilesAreWhole ==
  ProgramSpec => [](HeadersInOrder(stream) /\ OneConfiguration(stream) => VerifiedIsWhole)
  <1>1. ASSUME PInv, HeadersInOrder(stream), OneConfiguration(stream) PROVE VerifiedIsWhole
    <2>1. SUFFICES ASSUME program.at = "close", program.from = 0, Scan.ok,
                          Scan.values = stream.total
                   PROVE  program.pcm = [i \in 1 .. noPoints |-> i] /\ ~eng.errors
      BY DEF VerifiedIsWhole
    <2>2. LaidOut(stream)
      BY <1>1, <2>1, InstanceFacts, VerifiedIsLaidOut DEF PInv
    <2>3. program.kind # "caller" /\ is_opened /\ slip = 0
      BY <1>1, <2>1 DEF PInv, ProgramInv, ProgramTyped, Straight, Waiting
    <2>4. ~eng.errors
      BY <1>1, <2>2, <2>3 DEF PInv, IInv, Restorable
    <2>5. points_read_so_far = 0 + Len(program.pcm) /\ points_read_so_far = noPoints
      BY <1>1, <2>1, <2>4 DEF PInv, ProgramInv, Collected, Finished
    <2>6. program.pcm \in Seq(Int) /\ Len(program.pcm) \in Nat /\ noPoints \in Nat
      BY <1>1, ProgramFacts, InstanceFacts DEF PInv, ProgramInv
    <2>7. Len(program.pcm) = noPoints
      BY <2>5, <2>6
    <2>8. ASSUME NEW i \in 1 .. noPoints PROVE program.pcm[i] = i
      <3>1. program.pcm[i] = program.from + i
        BY <1>1, <2>2, <2>7, <2>8 DEF PInv, ProgramInv, Collected
      <3>2. i \in Nat /\ 0 + i = i
        BY <2>6, <2>8
      <3>3. QED BY <2>1, <3>1, <3>2
    <2>9. program.pcm = [i \in 1 .. Len(program.pcm) |-> program.pcm[i]]
      BY <2>6
    <2>10. QED BY <2>4, <2>7, <2>8, <2>9
  <1>2. QED BY <1>1, ProgramInvariant, PTL
=============================================================================
