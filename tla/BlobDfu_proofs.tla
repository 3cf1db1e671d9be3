--------------------------- MODULE BlobDfu_proofs ---------------------------
(* Theorems about BlobDfu, for whatever sizes a client sends and whatever  *)
(* width the bitmap has.                                                   *)
EXTENDS BlobDfu, TLAPS

-----------------------------------------------------------------------------
(* Lengths and pieces                                                      *)

\* Division with remainder by a positive number.
LEMMA Division ==
  ASSUME NEW a \in Nat, NEW c \in Nat \ {0}
  PROVE  /\ a \div c \in Nat /\ a % c \in 0 .. c - 1
         /\ a = c * (a \div c) + (a % c)
OBVIOUS

\* Multiplication by a positive number is strictly monotonic, by a whole step.
LEMMA Steps ==
  ASSUME NEW p \in Nat, NEW q \in Nat, NEW c \in Nat \ {0}, q > p
  PROVE  c * q >= c * p + c
<1>1. PICK d \in Nat : q = p + 1 + d
  <2>1. q - p - 1 \in Nat /\ q = p + 1 + (q - p - 1)  OBVIOUS
  <2> QED  BY <2>1
<1>2. c * q = c * p + c + c * d  BY <1>1
<1>3. c * d >= 0  OBVIOUS
<1> QED  BY <1>2, <1>3

\* Pieces covers a length and has no piece too many.
LEMMA PiecesCover ==
  ASSUME NEW a \in Nat \ {0}, NEW c \in Nat \ {0}
  PROVE  /\ Pieces(a, c) \in Nat \ {0}
         /\ c * Pieces(a, c) >= a /\ c * Pieces(a, c) < a + c
<1> DEFINE q == Pieces(a, c)
<1>1. /\ q \in Nat /\ (a + c - 1) % c \in 0 .. c - 1
      /\ a + c - 1 = c * q + ((a + c - 1) % c)
  <2>1. a + c - 1 \in Nat  OBVIOUS
  <2> QED  BY <2>1, Division DEF Pieces, Quotient
<1>2. q # 0
  <2>1. q = 0 => c * q = 0  BY <1>1
  <2> QED  BY <1>1, <2>1
<1>3. c * q \in Nat  BY <1>1
<1> QED  BY <1>1, <1>2, <1>3

\* A shorter length needs no more pieces.
LEMMA PiecesMonotone ==
  ASSUME NEW a \in Nat \ {0}, NEW b \in Nat \ {0}, NEW c \in Nat \ {0}, a <= b
  PROVE  /\ Pieces(a, c) \in Nat \ {0} /\ Pieces(b, c) \in Nat \ {0}
         /\ Pieces(a, c) <= Pieces(b, c)
<1> DEFINE p == Pieces(a, c)
           q == Pieces(b, c)
<1>1. /\ p \in Nat \ {0} /\ c * p < a + c
      /\ q \in Nat \ {0} /\ c * q >= b
  BY PiecesCover
<1>2. c * p \in Nat /\ c * q \in Nat  BY <1>1
<1>3. p > q => c * p >= c * q + c  BY <1>1, Steps
<1> QED  BY <1>1, <1>2, <1>3

\* What the last block of size s cut into blocks of size b holds: the
\* remainder, or a whole block when there is none.
LEMMA LastLength ==
  ASSUME NEW s \in Nat \ {0}, NEW b \in Nat \ {0}
  PROVE  s - (Pieces(s, b) - 1) * b = IF s % b = 0 THEN b ELSE s % b
<1> DEFINE q == s \div b
           r == s % b
           t == Pieces(s, b)
<1>1. q \in Nat /\ r \in 0 .. b - 1 /\ s = b * q + r  BY Division
<1>2. t \in Nat \ {0} /\ b * t >= s /\ b * t < s + b  BY PiecesCover
<1>3. b * q \in Nat /\ b * t \in Nat  BY <1>1, <1>2
<1>4. CASE r = 0
  <2>1. t < q => b * q >= b * t + b  BY <1>1, <1>2, Steps
  <2>2. t > q => b * t >= b * q + b  BY <1>1, <1>2, Steps
  <2>3. t = q  BY <1>1, <1>2, <1>3, <1>4, <2>1, <2>2
  <2>4. (t - 1) * b = b * t - b  BY <1>2
  <2> QED  BY <1>1, <1>3, <1>4, <2>3, <2>4
<1>5. CASE r # 0
  <2>1. t <= q => b * t <= b * q
    <3>1. t < q => b * q >= b * t + b  BY <1>1, <1>2, Steps
    <3> QED  BY <1>1, <1>2, <1>3, <3>1
  <2>2. q + 1 \in Nat /\ b * (q + 1) = b * q + b  BY <1>1
  <2>3. t > q + 1 => b * t >= b * (q + 1) + b  BY <2>2, <1>2, Steps
  <2>4. t = q + 1  BY <1>1, <1>2, <1>3, <1>5, <2>1, <2>2, <2>3
  <2>5. (t - 1) * b = b * q  BY <1>1, <2>4
  <2> QED  BY <1>1, <1>5, <2>5
<1> QED  BY <1>4, <1>5

\* Pieces is a number also of nothing and by zero.
LEMMA PiecesTyped ==
  ASSUME NEW a \in Nat, NEW c \in Nat
  PROVE  /\ Pieces(a, c) \in Nat
         /\ a = 0 \/ c = 0 => Pieces(a, c) = 0
<1>1. CASE c = 0
  BY <1>1 DEF Pieces, Quotient
<1>2. CASE c # 0 /\ a # 0
  BY <1>2, PiecesCover
<1>3. CASE c # 0 /\ a = 0
  <2>1. c - 1 \in 0 .. c - 1 /\ c \in Nat \ {0}
    BY <1>3
  <2>2. (c - 1) \div c = 0
    <3>1. /\ (c - 1) \div c \in Nat /\ (c - 1) % c \in 0 .. c - 1
          /\ c - 1 = c * ((c - 1) \div c) + ((c - 1) % c)
      BY <2>1, Division
    <3>2. (c - 1) \div c > 0 => c * ((c - 1) \div c) >= c * 0 + c
      BY <2>1, <3>1, Steps
    <3> QED  BY <2>1, <3>1, <3>2
  <2> QED  BY <1>3, <2>2 DEF Pieces, Quotient
<1> QED  BY <1>1, <1>2, <1>3

\* What fits its integer is kept as it is.
LEMMA Widths ==
  ASSUME NEW n \in Nat
  PROVE  /\ Byte(n) \in 0 .. BYTE - 1 /\ (n < BYTE => Byte(n) = n)
         /\ Word(n) \in 0 .. WORD - 1 /\ (n < WORD => Word(n) = n)
<1>1. BYTE \in Nat \ {0} /\ WORD \in Nat \ {0}
  BY WidthAssumption
<1>2. ASSUME NEW w \in Nat \ {0}
      PROVE  n % w \in 0 .. w - 1 /\ (n < w => n % w = n)
  <2>1. n \div w \in Nat /\ n % w \in 0 .. w - 1 /\ n = w * (n \div w) + (n % w)
    BY <1>2, Division
  <2>2. n \div w > 0 => w * (n \div w) >= w * 0 + w
    BY <1>2, <2>1, Steps
  <2>3. n \div w = 0 => n % w = n
    BY <2>1
  <2> QED  BY <2>1, <2>2, <2>3
<1> QED  BY <1>1, <1>2 DEF Byte, Word

-----------------------------------------------------------------------------
(* The inductive invariant.  The four properties need that the sizes are   *)
(* those of a transfer, that the block at hand is one of the BLOB and was  *)
(* started in turn, and that the bits of a shorter block are its own.      *)

Sizes ==
  /\ Receiving =>
       /\ xfer.size \in BlobSizes /\ xfer.block \in BlockSizes
       /\ xfer.total = Word(Pieces(xfer.size, xfer.block)) /\ xfer.total # 0
  /\ phase \in {"chunk", "complete"} => block.chunk \in ChunkSizes
  /\ phase = "block" /\ done > 0 => block.chunk \in ChunkSizes

AtHand ==
  /\ phase \in {"chunk", "complete"} => InTurn(block.number)
  /\ phase = "chunk" /\ Countable =>
       /\ block.size = LengthOf(block.number)
       /\ block.size = xfer.block \/ missing \subseteq 0 .. LastChunk
       /\ got \subseteq ChunksOf(block.number)
  /\ phase \in {"block", "complete"} /\ done > 0 => done = block.number + 1
  /\ phase = "complete" => done > 0

HeldInBlob == Receiving => held \subseteq 0 .. xfer.total - 1

IInv ==
  /\ TypeOK /\ Sizes /\ AtHand /\ HeldInBlob
  /\ BitmapTrue /\ BlockWhole /\ CompleteIsWhole /\ PhasesAgree

\* A node that has just started satisfies the invariant.
LEMMA InitHolds == Init => IInv
BY SizesAssumption, WidthAssumption
   DEF Init, Started, IInv, TypeOK, Phase, Receiving, Sizes, AtHand, HeldInBlob, BitmapTrue,
       BlockWhole, CompleteIsWhole, PhasesAgree

\* The lengths of a BLOB that is received.
LEMMA BlobTyped ==
  ASSUME IInv, Receiving
  PROVE  /\ xfer.size \in Nat \ {0} /\ xfer.block \in Nat \ {0} /\ xfer.total \in Nat \ {0}
         /\ Tail \in 0 .. xfer.block - 1
<1>1. /\ xfer.size \in Nat /\ xfer.block \in Nat
      /\ xfer.total = Word(Pieces(xfer.size, xfer.block)) /\ xfer.total # 0
  BY DEF IInv, TypeOK, Sizes
<1>2. Pieces(xfer.size, xfer.block) \in Nat /\ Word(Pieces(xfer.size, xfer.block)) \in Nat
  <2>1. Pieces(xfer.size, xfer.block) \in Nat
    BY <1>1, PiecesTyped
  <2> QED  BY <2>1, Widths
<1>3. Word(0) = 0
  BY Widths, WidthAssumption
<1>4. xfer.size # 0 /\ xfer.block # 0
  BY <1>1, <1>3, PiecesTyped
<1>5. Tail \in 0 .. xfer.block - 1
  BY <1>1, <1>4, Division DEF Tail
<1> QED  BY <1>1, <1>2, <1>4, <1>5

\* What a block holds when the blocks are counted as they are.
LEMMA BlockLengths ==
  ASSUME IInv, Receiving, Countable, NEW n \in 0 .. xfer.total - 1
  PROVE  /\ LengthOf(n) = IF Full(n) THEN xfer.block ELSE Tail
         /\ LengthOf(n) \in 1 .. xfer.block
<1>1. /\ xfer.size \in Nat \ {0} /\ xfer.block \in Nat \ {0} /\ xfer.total \in Nat \ {0}
      /\ Tail \in 0 .. xfer.block - 1 /\ xfer.total = Pieces(xfer.size, xfer.block)
  BY BlobTyped DEF Countable
<1>2. LengthOf(n) = IF Full(n) THEN xfer.block ELSE Tail
  <2>1. CASE n = xfer.total - 1
    <3>1. LengthOf(n) = xfer.size - (Pieces(xfer.size, xfer.block) - 1) * xfer.block
      BY <1>1, <2>1 DEF LengthOf
    <3>2. ~(n < xfer.total - 1)
      BY <1>1, <2>1
    <3> QED  BY <1>1, <3>1, <3>2, LastLength DEF Full, Tail
  <2>2. CASE n # xfer.total - 1
    BY <1>1, <2>2 DEF LengthOf, Full
  <2> QED  BY <2>1, <2>2
<1> QED  BY <1>1, <1>2 DEF Full

LEMMA RestartHolds == ASSUME IInv, Restart PROVE IInv'
BY SizesAssumption, WidthAssumption
   DEF Restart, Started, IInv, TypeOK, Phase, Receiving, Sizes, AtHand, HeldInBlob, BitmapTrue,
       BlockWhole, CompleteIsWhole, PhasesAgree

\* The start of an update, its end and the stutter leave the transfer alone or
\* put the BLOB server in its idle phase.
LEMMA UpdateHolds == ASSUME IInv, Update PROVE IInv'
<1> USE SizesAssumption, WidthAssumption
    DEF IInv, TypeOK, Phase, Receiving, Sizes, AtHand, InTurn, HeldInBlob, LastChunk, LengthOf,
        Countable, Fits, Tracked, BitmapTrue, ChunksOf, BlockWhole, CompleteIsWhole, PhasesAgree, blob, history
<1>1. ASSUME NEW id \in Ids, firmware_update_start(id) PROVE IInv'
  BY <1>1 DEF firmware_update_start
<1>2. CASE firmware_update_cancel
  BY <1>2 DEF firmware_update_cancel
<1>3. CASE firmware_update_apply
  BY <1>3 DEF firmware_update_apply
<1>4. CASE ota_apply_reset_cb
  BY <1>4, RestartHolds DEF ota_apply_reset_cb
<1> QED  BY <1>1, <1>2, <1>3, <1>4 DEF Update

LEMMA StutterHolds == ASSUME IInv, UNCHANGED vars PROVE IInv'
BY DEF IInv, TypeOK, Phase, Receiving, Sizes, AtHand, InTurn, HeldInBlob, LastChunk, LengthOf,
       Countable, Fits, Tracked, BitmapTrue, ChunksOf, BlockWhole, CompleteIsWhole, PhasesAgree, vars, dfu, blob, history

LEMMA TransferStartHolds ==
  ASSUME IInv, NEW id \in Ids, NEW size \in BlobSizes, NEW b \in BlockSizes, NEW mtu \in Mtus,
         blob_transfer_start(id, size, b, mtu)
  PROVE  IInv'
<1>1. size \in Nat /\ b \in Nat /\ mtu \in Nat
  BY SizesAssumption, WidthAssumption
<1>2. Word(Pieces(size, b)) \in Nat
  <2>1. Pieces(size, b) \in Nat
    BY <1>1, PiecesTyped
  <2> QED  BY <2>1, Widths
<1>3. Smaller(MaxChunkSize, mtu) \in Nat
  BY <1>1, SizesAssumption DEF Smaller
<1>4. TypeOK'
  BY <1>1, <1>2, <1>3 DEF IInv, TypeOK, Phase, blob_transfer_start, dfu
<1>5. (Sizes /\ AtHand /\ HeldInBlob /\ BitmapTrue /\ BlockWhole /\ CompleteIsWhole)'
  BY DEF Receiving, Sizes, AtHand, HeldInBlob, BitmapTrue, BlockWhole, CompleteIsWhole,
         blob_transfer_start
<1>6. PhasesAgree'
  BY DEF IInv, PhasesAgree, blob_transfer_start, dfu
<1> QED  BY <1>4, <1>5, <1>6 DEF IInv

\* A handler that does not return leaves nothing that the properties speak of.
LEMMA HungHolds ==
  ASSUME IInv, TypeOK', phase' = "hung", UNCHANGED <<dfu, expected>>
  PROVE  IInv'
BY DEF IInv, Receiving, Sizes, AtHand, HeldInBlob, BitmapTrue, BlockWhole, CompleteIsWhole,
       PhasesAgree, dfu

LEMMA StatusHolds == ASSUME IInv, status_send PROVE IInv'
<1>1. TypeOK' /\ phase' = "hung" /\ UNCHANGED <<dfu, expected>>
  BY DEF IInv, TypeOK, Phase, status_send, dfu, history
<1> QED  BY <1>1, HungHolds

LEMMA BlockStartHolds ==
  ASSUME IInv, NEW n \in 0 .. xfer.total - 1, NEW c \in ChunkSizes, InTurn(n),
         blob_block_start(n, c)
  PROVE  IInv'
<1> DEFINE length == IF Full(n) THEN xfer.block ELSE Tail
<1>1. /\ Receiving /\ xfer' = xfer /\ got' = {} /\ held' = held
      /\ phase' = IF Endless(n, c) THEN "hung" ELSE "chunk"
      /\ block' = [number |-> n, chunk |-> c, size |-> length]
      /\ missing' = 0 .. BitsSet(n, c) - 1 /\ done' = done
      /\ update' = update /\ timer' = timer /\ expected' = expected
  BY DEF Receiving, blob_block_start, dfu
<1>2. /\ xfer.block \in Nat \ {0} /\ xfer.total \in Nat \ {0}
      /\ Tail \in 0 .. xfer.block - 1 /\ length \in Nat
  BY <1>1, BlobTyped
<1>3. c \in Nat /\ Bits \in Nat
  BY SizesAssumption, WidthAssumption
<1>4. Pieces(Tail, c) \in Nat /\ TailChunks(c) \in Nat
  <2>1. Tail \in Nat
    BY <1>2
  <2>2. Pieces(Tail, c) \in Nat
    BY <1>3, <2>1, PiecesTyped
  <2> QED  BY <2>2, Widths, WidthAssumption DEF TailChunks
<1>5. BitsSet(n, c) \in 0 .. Bits
  BY <1>3, <1>4 DEF BitsSet, Smaller
<1> HIDE DEF length
<1>6. TypeOK'
  <2>1. missing' \in SUBSET (0 .. Bits - 1)
    BY <1>1, <1>3, <1>5
  <2>2. block' \in [number : Nat, size : Nat, chunk : Nat]
    BY <1>1, <1>2, <1>3
  <2> QED  BY <1>1, <2>1, <2>2 DEF IInv, TypeOK, Phase
<1>7. CASE Endless(n, c)
  BY <1>1, <1>6, <1>7, HungHolds DEF dfu
<1>8. CASE ~Endless(n, c)
  <2>1. phase' = "chunk"
    BY <1>1, <1>8
  <2>2. Sizes' /\ HeldInBlob' /\ BlockWhole' /\ CompleteIsWhole' /\ PhasesAgree'
    BY <1>1, <2>1
       DEF IInv, Sizes, Receiving, HeldInBlob, BlockWhole, CompleteIsWhole, PhasesAgree
  <2>3. InTurn(n)'
    BY <1>1 DEF InTurn
  <2>4. ASSUME Countable'
        PROVE  /\ length = LengthOf(n)' /\ (length = xfer.block \/ missing' \subseteq 0 .. LastChunk')
               /\ got' \subseteq ChunksOf(n)'
               /\ missing' \cap ChunksOf(n)' = Tracked(n)'
               /\ Fits' => Tracked(n)' # {}
    <3>1. /\ xfer.total = Pieces(xfer.size, xfer.block)
          /\ c \in Nat \ {0} /\ Pieces(xfer.block, c) < BYTE
      BY <1>1, <1>3, <2>4 DEF Countable
    <3>2. length = LengthOf(n) /\ length \in 1 .. xfer.block
      <4>1. /\ xfer.size \in Nat \ {0}
            /\ n = xfer.total - 1 => LengthOf(n) = IF xfer.size % xfer.block = 0
                                                  THEN xfer.block ELSE xfer.size % xfer.block
        <5>1. xfer.size \in Nat \ {0}
          BY <1>1, BlobTyped
        <5> QED  BY <1>2, <3>1, <5>1, LastLength DEF LengthOf
      <4> QED  BY <1>2, <4>1 DEF length, Full, Tail, LengthOf
    <3>3. /\ Pieces(length, c) \in Nat \ {0} /\ Pieces(xfer.block, c) \in Nat
          /\ Pieces(length, c) <= Pieces(xfer.block, c)
      <4>1. length \in Nat \ {0} /\ length <= xfer.block
        BY <1>2, <3>2
      <4> QED  BY <1>2, <3>1, <4>1, PiecesMonotone
    <3>4. /\ LengthOf(n)' = LengthOf(n) /\ ChunksOf(n)' = 0 .. Pieces(length, c) - 1
          /\ LastChunk' = Pieces(length, c) - 1
      <4>1. LengthOf(n)' = LengthOf(n)
        BY <1>1 DEF LengthOf
      <4>2. ChunksOf(n)' = 0 .. Pieces(length, c) - 1
        BY <1>1, <3>2, <4>1 DEF ChunksOf
      <4>3. Pieces(length, c) - 1 \in Nat /\ Pieces(length, c) - 1 < WORD
        BY <3>1, <3>3, WidthAssumption
      <4>4. LastChunk' = Word(Pieces(length, c) - 1)
        BY <1>1 DEF LastChunk
      <4> QED  BY <4>1, <4>2, <4>3, <4>4, Widths
    <3>5. BitsSet(n, c) = IF Full(n) THEN Bits ELSE Smaller(Pieces(length, c), Bits)
      <4>1. ~Full(n) => TailChunks(c) = Pieces(length, c)
        BY <3>1, <3>3, WidthAssumption, Widths DEF TailChunks, length
      <4> QED  BY <4>1 DEF BitsSet
    <3>6. length = xfer.block \/ missing' \subseteq 0 .. LastChunk'
      <4>1. CASE ~Full(n)
        BY <1>1, <1>3, <3>3, <3>4, <3>5, <4>1 DEF Smaller
      <4> QED  BY <4>1 DEF length
    <3>7. missing' \cap ChunksOf(n)' = Tracked(n)'
      BY <1>1, <1>3, <3>3, <3>4, <3>5 DEF Smaller, Tracked
    <3>8. Fits' => 0 \in Tracked(n)'
      BY <1>1, <1>3, <3>3, <3>4 DEF Fits, Tracked
    <3> QED  BY <1>1, <3>2, <3>4, <3>6, <3>7, <3>8
  <2>5. AtHand'
    BY <1>1, <2>1, <2>3, <2>4 DEF AtHand
  <2>6. BitmapTrue'
    <3>1. Tracked(n)' \subseteq ChunksOf(n)'
      BY DEF Tracked
    <3> QED  BY <1>1, <2>1, <2>4, <3>1 DEF BitmapTrue
  <2> QED  BY <1>6, <2>2, <2>5, <2>6 DEF IInv
<1> QED  BY <1>7, <1>8

\* What a chunk does to the bitmap, when the chunks are counted as they are.
LEMMA ChunkTracked ==
  ASSUME IInv, Countable, NEW k \in 0 .. WORD - 1, NEW length \in ChunkSizes,
         blob_chunk_transfer(k, length)
  PROVE  /\ got' \subseteq ChunksOf(block.number)
         /\ got' \cap (0 .. Bits - 1) = Tracked(block.number) \ missing'
         /\ Counted = Pieces(xfer.block, block.chunk)
         /\ ChunksOf(block.number) = 0 .. LastChunk
         /\ ChunksOf(block.number) \subseteq 0 .. Counted - 1
<1> DEFINE n == block.number
           c == block.chunk
<1>1. /\ phase = "chunk" /\ MayBeMissing(k) /\ k <= LastChunk
      /\ missing' = missing \ {Byte(k)} /\ got' = got \cup {k}
  BY DEF blob_chunk_transfer
<1>2. /\ Receiving /\ n \in 0 .. xfer.total - 1
      /\ c \in Nat \ {0} /\ block.size = LengthOf(n) /\ Pieces(xfer.block, c) < BYTE
      /\ xfer.block \in Nat \ {0}
  <2>1. Receiving /\ InTurn(n) /\ block.size = LengthOf(n)
    BY <1>1 DEF IInv, Receiving, AtHand
  <2> QED  BY <2>1, BlobTyped DEF IInv, TypeOK, InTurn, Countable
<1>3. /\ Pieces(LengthOf(n), c) \in Nat \ {0} /\ Pieces(xfer.block, c) \in Nat
      /\ Pieces(LengthOf(n), c) <= Pieces(xfer.block, c)
  <2>1. LengthOf(n) \in Nat \ {0} /\ LengthOf(n) <= xfer.block
    BY <1>2, BlockLengths
  <2> QED  BY <1>2, <2>1, PiecesMonotone
<1>4. Counted = Pieces(xfer.block, c)
  BY <1>2, <1>3, Widths DEF Counted
<1>5. LastChunk = Pieces(LengthOf(n), c) - 1
  <2>1. Pieces(LengthOf(n), c) - 1 \in Nat /\ Pieces(LengthOf(n), c) - 1 < WORD
    BY <1>2, <1>3, WidthAssumption
  <2> QED  BY <1>2, <2>1, Widths DEF LastChunk
<1>6. ChunksOf(n) = 0 .. LastChunk /\ ChunksOf(n) \subseteq 0 .. Counted - 1
  BY <1>3, <1>4, <1>5 DEF ChunksOf
<1>7. k \in ChunksOf(n) /\ Byte(k) = k
  <2>1. k \in Nat /\ k < BYTE /\ k \in ChunksOf(n)
    BY <1>1, <1>2, <1>3, <1>5, <1>6, WidthAssumption
  <2> QED  BY <2>1, Widths
<1>8. got' \subseteq ChunksOf(n)
  BY <1>1, <1>7 DEF IInv, AtHand
<1>9. k \in missing \/ k >= Bits
  BY <1>1, <1>7 DEF MayBeMissing
<1>10. got' \cap (0 .. Bits - 1) = Tracked(n) \ missing'
  <2>1. got \cap (0 .. Bits - 1) = Tracked(n) \ missing /\ missing \subseteq 0 .. Bits - 1
    BY <1>1 DEF IInv, BitmapTrue, TypeOK
  <2>2. CASE k \in missing
    <3>1. k \in Tracked(n)
      BY <1>7, <2>1, <2>2 DEF Tracked
    <3> QED  BY <1>1, <1>7, <2>1, <2>2, <3>1
  <2>3. CASE k >= Bits
    <3>1. k \notin 0 .. Bits - 1
      BY <2>3, WidthAssumption
    <3> QED  BY <1>1, <1>7, <2>1, <3>1
  <2> QED  BY <1>9, <2>2, <2>3
<1> QED  BY <1>4, <1>6, <1>8, <1>10

LEMMA ChunkHolds ==
  ASSUME IInv, NEW k \in 0 .. WORD - 1, NEW length \in ChunkSizes,
         blob_chunk_transfer(k, length)
  PROVE  IInv'
<1> DEFINE n == block.number
           c == block.chunk
<1>1. /\ phase = "chunk" /\ missing' = missing \ {Byte(k)} /\ got' = got \cup {k}
      /\ xfer' = xfer /\ block' = block /\ expected' = expected
      /\ update' = update /\ timer' = timer
  BY DEF blob_chunk_transfer, dfu
<1>2. /\ Receiving /\ InTurn(n) /\ n \in 0 .. xfer.total - 1
      /\ c \in ChunkSizes /\ xfer.total \in Nat \ {0}
  <2>1. Receiving /\ InTurn(n) /\ c \in ChunkSizes
    BY <1>1 DEF IInv, Receiving, Sizes, AtHand
  <2> QED  BY <2>1, BlobTyped DEF IInv, TypeOK, InTurn
<1>3. /\ ChunksOf(n)' = ChunksOf(n) /\ Tracked(n)' = Tracked(n) /\ LengthOf(n)' = LengthOf(n)
      /\ LastChunk' = LastChunk /\ (Countable' <=> Countable) /\ (Fits' <=> Fits)
  BY <1>1 DEF LengthOf, ChunksOf, Tracked, LastChunk, Countable, Fits
<1>4. missing' \in SUBSET (0 .. Bits - 1) /\ got' \in SUBSET (0 .. WORD - 1)
  BY <1>1 DEF IInv, TypeOK
<1>5. PhasesAgree'
  <2>1. phase' # "inactive"
    BY <1>1 DEF blob_chunk_transfer
  <2> QED  BY <1>1, <2>1 DEF IInv, PhasesAgree
<1>6. ASSUME NoneOf(missing'), done' = n + 1, held' = held \cup {n},
             phase' = IF LastBlock THEN "complete" ELSE "block"
      PROVE  IInv'
  <2>1. TypeOK'
    <3>1. n \in Nat /\ phase' \in {"block", "complete"}
      BY <1>6 DEF IInv, TypeOK
    <3>2. done' \in Nat /\ held' \in SUBSET Nat
      <4> HIDE DEF n
      <4>1. held \in SUBSET Nat
        BY DEF IInv, TypeOK
      <4> QED  BY <1>6, <3>1, <4>1
    <3> QED  BY <1>1, <1>4, <3>1, <3>2 DEF IInv, TypeOK, Phase
  <2>2. BlockWhole' /\ BitmapTrue'
    <3>1. Countable => Tracked(n) \subseteq got' /\ got' \subseteq ChunksOf(n)
      BY <1>6, ChunkTracked DEF NoneOf, Tracked
    <3>2. done' - 1 = n /\ phase' # "chunk"
      BY <1>2, <1>6
    <3> QED  BY <1>1, <1>3, <3>1, <3>2 DEF BlockWhole, BitmapTrue
  <2>3. Sizes' /\ HeldInBlob'
    BY <1>1, <1>2, <1>6 DEF IInv, Receiving, Sizes, HeldInBlob
  <2>4. AtHand'
    BY <1>1, <1>2, <1>6 DEF AtHand, InTurn
  <2>5. CompleteIsWhole'
    <3>1. SUFFICES ASSUME LastBlock
                   PROVE  done' = xfer.total /\ held' = 0 .. xfer.total - 1
      BY <1>1, <1>6 DEF CompleteIsWhole
    <3>2. n = xfer.total - 1 /\ 0 .. n - 1 \subseteq held /\ held \subseteq 0 .. xfer.total - 1
      BY <1>2, <3>1 DEF LastBlock, InTurn, IInv, HeldInBlob
    <3>3. (0 .. n - 1) \cup {n} = 0 .. xfer.total - 1
      BY <1>2, <3>2
    <3>4. done' = xfer.total
      BY <1>2, <1>6, <3>2
    <3>5. held' = 0 .. xfer.total - 1
      <4> HIDE DEF n
      <4> QED  BY <1>6, <1>2, <3>2, <3>3
    <3> QED  BY <3>4, <3>5
  <2> QED  BY <1>5, <2>1, <2>2, <2>3, <2>4, <2>5 DEF IInv
<1>7. ASSUME SomeOf(missing'), UNCHANGED <<done, held, phase>>
      PROVE  IInv'
  <2>1. TypeOK' /\ Sizes' /\ HeldInBlob' /\ BlockWhole' /\ CompleteIsWhole'
    BY <1>1, <1>4, <1>7
       DEF IInv, TypeOK, Receiving, Sizes, HeldInBlob, BlockWhole, CompleteIsWhole
  <2>2. AtHand'
    <3>1. Countable => got' \subseteq ChunksOf(n)
      BY ChunkTracked
    <3> QED  BY <1>1, <1>3, <1>7, <3>1 DEF IInv, AtHand, InTurn
  <2>3. BitmapTrue'
    <3>1. Countable => got' \cap (0 .. Bits - 1) = Tracked(n) \ missing'
      BY ChunkTracked
    <3>2. ASSUME Fits PROVE Tracked(n) \cap missing' # {}
      <4>1. /\ Countable /\ ChunksOf(n) = 0 .. LastChunk
            /\ Counted = Pieces(xfer.block, c) /\ Counted <= Bits
        BY <3>2, ChunkTracked DEF Fits
      <4>2. PICK m \in missing' : m \in 0 .. Counted - 1
        <5>1. Counted \in Nat /\ Bits \in Nat
          <6>1. xfer.block \in Nat /\ c \in Nat
            BY <1>2, BlobTyped, SizesAssumption
          <6> QED  BY <4>1, <6>1, PiecesTyped, WidthAssumption
        <5> QED  BY <1>7, <4>1, <5>1 DEF SomeOf, NoneOf
      <4>3. /\ block.size = xfer.block \/ missing \subseteq 0 .. LastChunk
            /\ block.size = LengthOf(n)
        BY <1>1, <4>1 DEF IInv, AtHand
      <4>4. m \in ChunksOf(n)
        BY <1>1, <4>1, <4>2, <4>3 DEF ChunksOf
      <4> QED  BY <1>4, <4>2, <4>4 DEF Tracked
    <3> QED  BY <1>1, <1>3, <3>1, <3>2 DEF BitmapTrue
  <2> QED  BY <1>5, <2>1, <2>2, <2>3 DEF IInv
<1> QED  BY <1>6, <1>7 DEF blob_chunk_transfer

\* Every request, timer and restart keeps it.
LEMMA NextHolds == IInv /\ [Next]_vars => IInv'
<1> SUFFICES ASSUME IInv, [Next]_vars PROVE IInv'
  OBVIOUS
<1>1. CASE Update
  BY <1>1, UpdateHolds
<1>2. CASE Transfer
  BY <1>2, TransferStartHolds, BlockStartHolds, ChunkHolds, StatusHolds DEF Transfer
<1>3. CASE PowerLoss
  BY <1>3, RestartHolds DEF PowerLoss
<1> QED  BY <1>1, <1>2, <1>3, StutterHolds DEF Next

\* The invariant holds throughout.
LEMMA Invariance == Spec => []IInv
BY InitHolds, NextHolds, PTL DEF Spec

-----------------------------------------------------------------------------
\* Every variable keeps its range, whatever sizes a client sends: also when there
\* are more chunks than bits.
THEOREM TypeCorrect == Spec => []TypeOK
<1>1. IInv => TypeOK  BY DEF IInv
<1> QED  BY <1>1, Invariance, PTL

\* The bitmap of the block at hand is true of the chunks that have a bit in it, for
\* every width of it and every size whose counts fit their integers; and a block all
\* of whose chunks have a bit waits only while one of them is missing.
THEOREM BitmapTrueHolds == Spec => []BitmapTrue
<1>1. IInv => BitmapTrue  BY DEF IInv
<1> QED  BY <1>1, Invariance, PTL

\* A block is left only with every chunk of it that has a bit, for the same sizes:
\* with all of it when it has no more chunks than bits.
THEOREM BlockWholeHolds == Spec => []BlockWhole
<1>1. IInv => BlockWhole  BY DEF IInv
<1> QED  BY <1>1, Invariance, PTL

\* A transfer is complete only when all of its blocks count as received.
THEOREM CompleteIsWholeHolds == Spec => []CompleteIsWhole
<1>1. IInv => CompleteIsWhole  BY DEF IInv
<1> QED  BY <1>1, Invariance, PTL

\* The two servers agree on the image and on the restart that is due.
THEOREM PhasesAgreeHolds == Spec => []PhasesAgree
<1>1. IInv => PhasesAgree  BY DEF IInv
<1> QED  BY <1>1, Invariance, PTL

-----------------------------------------------------------------------------
(* BlobDfu implements ImageTransfer: the blocks in held are the parts.     *)

\* Only these change what the image transfer sees.
LEMMA UnseenStep ==
  ASSUME phase' = phase, xfer' = xfer, held' = held
  PROVE  UNCHANGED IT!transfer
BY DEF IT!transfer, Receiving

\* Whatever ends with the BLOB server outside of a transfer drops the image.
LEMMA DropStep ==
  ASSUME phase' \in {"inactive", "idle", "hung"}
  PROVE  [IT!Next]_(IT!transfer)
<1>1. CASE Receiving
  BY <1>1 DEF IT!Next, IT!Drop, IT!Nothing, Receiving
<1>2. CASE ~Receiving
  BY <1>2 DEF IT!transfer, Receiving
<1> QED  BY <1>1, <1>2

\* A transfer start, which only an idle server takes, announces the image, or
\* leaves the node where it was when there is nothing to announce.
LEMMA BeginStep ==
  ASSUME NEW id \in Ids, NEW size \in BlobSizes, NEW b \in BlockSizes, NEW mtu \in Mtus,
         blob_transfer_start(id, size, b, mtu)
  PROVE  [IT!Next]_(IT!transfer)
<1>1. Word(Pieces(size, b)) \in Nat
  <2>1. size \in Nat /\ b \in Nat
    BY SizesAssumption, WidthAssumption
  <2>2. Pieces(size, b) \in Nat
    BY <2>1, PiecesTyped
  <2> QED  BY <2>2, Widths
<1>2. CASE phase' = "hung"
  BY <1>2 DEF blob_transfer_start, IT!transfer, Receiving
<1>3. CASE phase' = "block"
  BY <1>1, <1>3 DEF blob_transfer_start, IT!Next, IT!Begin, Receiving
<1> QED  BY <1>2, <1>3 DEF blob_transfer_start

\* The chunk that ends a block adds this block to those before it, or makes
\* the image whole; any other chunk changes nothing of it.
LEMMA ChunkStep ==
  ASSUME IInv, IInv', NEW k \in 0 .. WORD - 1, NEW length \in ChunkSizes,
         blob_chunk_transfer(k, length)
  PROVE  [IT!Next]_(IT!transfer)
<1> DEFINE n == block.number
<1>1. phase = "chunk" /\ xfer' = xfer
  BY DEF blob_chunk_transfer
<1>2. /\ n \in 0 .. xfer.total - 1 /\ 0 .. n - 1 \subseteq held
      /\ xfer.total \in Nat \ {0}
  BY <1>1, BlobTyped DEF Receiving, IInv, TypeOK, AtHand, InTurn
<1>3. ASSUME held' = held \cup {n}, phase' = IF LastBlock THEN "complete" ELSE "block"
      PROVE  [IT!Next]_(IT!transfer)
  <2>1. CASE phase' = "complete"
    <3>1. held' = 0 .. xfer.total - 1
      BY <1>1, <2>1 DEF IInv, CompleteIsWhole
    <3>2. IT!Complete
      BY <1>1, <1>3, <2>1, <3>1 DEF IT!Complete, Receiving
    <3> QED  BY <3>2 DEF IT!Next
  <2>2. CASE phase' = "block"
    <3>1. 0 .. (n + 1) - 1 = (0 .. n - 1) \cup {n} /\ n + 1 \in 0 .. xfer.total
      BY <1>2
    <3>2. held' = held \cup 0 .. (n + 1) - 1
      <4> HIDE DEF n
      <4> QED  BY <1>2, <1>3, <3>1
    <3>3. IT!Take(n + 1)
      BY <1>1, <2>2, <3>2 DEF IT!Take, Receiving
    <3>4. \E i \in 0 .. xfer.total : IT!Take(i)
      BY <3>1, <3>3
    <3> QED  BY <1>1, <3>4 DEF IT!Next, Receiving
  <2> QED  BY <1>3, <2>1, <2>2
<1>4. CASE phase' = phase /\ held' = held
  BY <1>1, <1>4, UnseenStep
<1> QED  BY <1>3, <1>4 DEF blob_chunk_transfer

\* Every step is a step of the image transfer or changes nothing of it.
LEMMA TransferSteps ==
  ASSUME IInv, IInv', [Next]_vars
  PROVE  [IT!Next]_(IT!transfer)
<1>1. CASE Restart
  BY <1>1, DropStep DEF Restart
<1>2. ASSUME NEW id \in Ids, firmware_update_start(id)
      PROVE  [IT!Next]_(IT!transfer)
  BY <1>2, DropStep DEF firmware_update_start
<1>3. CASE firmware_update_cancel \/ firmware_update_apply \/ UNCHANGED vars
  BY <1>3, UnseenStep
     DEF firmware_update_cancel, firmware_update_apply, vars, blob, history
<1>4. ASSUME NEW id \in Ids, NEW size \in BlobSizes, NEW b \in BlockSizes, NEW mtu \in Mtus,
             blob_transfer_start(id, size, b, mtu)
      PROVE  [IT!Next]_(IT!transfer)
  BY <1>4, BeginStep
<1>5. ASSUME NEW n \in 0 .. xfer.total - 1, NEW c \in ChunkSizes, blob_block_start(n, c)
      PROVE  [IT!Next]_(IT!transfer)
  <2>1. CASE phase' = "hung"
    BY <2>1, DropStep
  <2>2. CASE phase' = "chunk"
    BY <1>5, <2>2 DEF blob_block_start, IT!transfer, Receiving
  <2> QED  BY <1>5, <2>1, <2>2 DEF blob_block_start
<1>6. CASE status_send
  BY <1>6, DropStep DEF status_send
<1>7. CASE Update
  BY <1>1, <1>2, <1>3, <1>7 DEF Update, ota_apply_reset_cb
<1>8. CASE Transfer
  BY <1>4, <1>5, <1>6, <1>8, ChunkStep DEF Transfer
<1> QED  BY <1>1, <1>3, <1>7, <1>8 DEF Next, PowerLoss

\* For whatever sizes a client sends, the BLOB server takes the blocks of an image
\* in whole or not at all: they are not lost one by one, none of an earlier transfer
\* is counted, and it is complete only with all of them.
THEOREM DfuImplementsTransfer == Spec => ImplementsTransfer
<1>1. Init => IT!Init
  BY DEF Init, IT!Init, IT!Nothing, Receiving
<1>2. IInv /\ IInv' /\ [Next]_vars => [IT!Next]_(IT!transfer)
  BY TransferSteps
<1> QED  BY <1>1, <1>2, Invariance, PTL DEF Spec, ImplementsTransfer, IT!Spec
=============================================================================
