------------------------------ MODULE BlobDfu ------------------------------
(***************************************************************************)
(* Firmware update over the mesh (model_spec/sig_ota): the firmware update *)
(* server and the BLOB transfer server of one node, which the former       *)
(* starts by a call.  A client of the mesh sends any request at any time   *)
(* and of any size, so that lost, repeated and retried requests are        *)
(* behaviours of this module; of the client it is assumed only that it     *)
(* starts a block of the BLOB when the blocks before it are in.  Sizes are *)
(* counted in an arbitrary unit.  What is in the replies is left out, but  *)
(* not that a reply may never be sent.                                     *)
(***************************************************************************)
EXTENDS Integers

CONSTANTS
  Ids, NoId,           \* BLOB identifiers; the zero of a server never started
  BlobSizes,           \* sizes a client announces
  BlockSizes,          \* 1 << blob_block_size_log it announces, cut to 16 bits
  Mtus, ChunkSizes,    \* its mtu_size, and the chunk sizes it asks for
  MaxChunkSize,        \* MAX_CHUNK_SIZE, 128
  MaxChunks,           \* MAX_CHUNKS_NUMBER, 100
  MaxBlocks,           \* MAX_BLOB_SIZE / (1 << MAX_BLOCK_SIZE_LOG), 192
  Bits,                \* bits of received_chunks, 8
  ReplyBlocks,         \* bits of block_not_received, 160
  BYTE, WORD           \* values of a uint8_t and of a uint16_t

ASSUME IdsAssumption == NoId \notin Ids
\* Nothing is assumed of what a client sends but the width of its fields.
ASSUME SizesAssumption ==
  /\ BlobSizes \subseteq Nat /\ BlockSizes \subseteq 0 .. WORD - 1
  /\ ChunkSizes \subseteq Nat /\ Mtus \subseteq Nat
  /\ MaxChunkSize \in Nat /\ MaxChunks \in Nat /\ MaxBlocks \in Nat /\ ReplyBlocks \in Nat
\* The bits of the bitmap, far fewer than a block may have chunks.
ASSUME WidthAssumption ==
  Bits \in Nat /\ BYTE \in Nat /\ WORD \in Nat /\ Bits < BYTE /\ BYTE <= WORD

Byte(n) == n % BYTE
Word(n) == n % WORD

\* The division of the target, whose quotient by zero is zero.
Quotient(a, b) == IF b = 0 THEN 0 ELSE a \div b

\* Pieces of size c that cover length b, as (b + c - 1) / c counts them.
Pieces(b, c) == Quotient(b + c - 1, c)

VARIABLES
  update,    \* firmware_update_server_t: update_phase and blob_id
  timer,     \* Ota_Apply_Reset_Timer, "stopped" or "running"
  phase,     \* phase_state of the BLOB server; "hung" once a handler does not return
  expected,  \* exp_blob_id
  xfer,      \* blob_state: size, block size, total_blocks; and tr_max_chunks_size
  block,     \* blob_block_state: number, block_size, chunk_size
  missing,   \* received_chunks: the bits that are set
  done,      \* received_blocks
  got,       \* history: chunks accepted since the block was started
  held       \* history: blocks that were finished in this transfer

dfu == <<update, timer>>
blob == <<phase, expected, xfer, block, missing, done>>
history == <<got, held>>
vars == <<dfu, blob, history>>

Phase == {"inactive", "idle", "block", "chunk", "complete", "hung"}

TypeOK ==
  /\ update \in [phase : {"idle", "active", "verified"}, id : Ids \cup {NoId}]
  /\ timer \in {"stopped", "running"}
  /\ phase \in Phase /\ expected \in Ids \cup {NoId}
  /\ xfer \in [size : Nat, block : Nat, total : Nat, chunk : Nat]
  /\ block \in [number : Nat, size : Nat, chunk : Nat]
  /\ missing \in SUBSET (0 .. Bits - 1) /\ got \in SUBSET (0 .. WORD - 1)
  /\ done \in Nat /\ held \in SUBSET Nat

\* The node after a start: everything of the two servers is in RAM.
Started ==
  [update |-> [phase |-> "idle", id |-> NoId],
   xfer |-> [size |-> 0, block |-> 0, total |-> 0, chunk |-> 0],
   block |-> [number |-> 0, size |-> 0, chunk |-> 0]]

Init ==
  /\ update = Started.update /\ timer = "stopped"
  /\ phase = "inactive" /\ expected = NoId /\ xfer = Started.xfer
  /\ block = Started.block /\ missing = {} /\ done = 0
  /\ got = {} /\ held = {}

-----------------------------------------------------------------------------
(* The firmware update server                                              *)

\* Faulty variant: a transfer that runs is left to its end.
FirmwareStartKeeps(id) ==
  /\ update.phase = "idle"
  /\ update' = [phase |-> "active", id |-> id]
  /\ IF phase \in {"inactive", "idle"}
     THEN expected' = id /\ phase' = "idle"
     ELSE UNCHANGED <<expected, phase>>
  /\ UNCHANGED <<timer, xfer, block, missing, done, history>>

\* A started update makes the BLOB server wait for its BLOB.  In any other
\* phase the request is answered and changes nothing.
firmware_update_start(id) ==
  /\ update.phase = "idle"
  /\ update' = [phase |-> "active", id |-> id]
  /\ expected' = id /\ phase' = "idle"
  /\ UNCHANGED <<timer, xfer, block, missing, done, history>>

\* Neither the reception of the BLOB nor the timer is stopped.
firmware_update_cancel ==
  /\ update' = [update EXCEPT !.phase = "idle"]
  /\ UNCHANGED <<timer, blob, history>>

\* verify_firmware accepts everything.
firmware_update_apply ==
  /\ update' = [update EXCEPT !.phase = "verified"]
  /\ timer' = "running"
  /\ UNCHANGED <<blob, history>>

Restart ==
  /\ update' = Started.update /\ timer' = "stopped"
  /\ phase' = "inactive" /\ expected' = NoId /\ xfer' = Started.xfer
  /\ block' = Started.block /\ missing' = {} /\ done' = 0
  /\ got' = {} /\ held' = {}

ota_apply_reset_cb == timer = "running" /\ Restart

-----------------------------------------------------------------------------
(* The BLOB transfer server                                                *)

Smaller(a, b) == IF a < b THEN a ELSE b

\* Faulty variant: a start of the same BLOB is taken again while it is received.
TransferStartAgain(id, size, b, mtu) ==
  /\ phase # "inactive" /\ id = expected
  /\ xfer' = [size |-> size, block |-> b, total |-> Word(Pieces(size, b)),
              chunk |-> Smaller(MaxChunkSize, mtu)]
  /\ phase' = IF xfer'.total = 0 THEN "hung" ELSE "block"
  /\ block' = [block EXCEPT !.number = 0] /\ done' = 0
  /\ held' = {} /\ UNCHANGED <<dfu, expected, missing, got>>

\* Only an idle server takes a start, of the BLOB it expects.  The reply lists
\* total_blocks - 1 blocks and one, in a loop that does not end when there is none.
blob_transfer_start(id, size, b, mtu) ==
  /\ phase = "idle" /\ id = expected
  /\ xfer' = [size |-> size, block |-> b, total |-> Word(Pieces(size, b)),
              chunk |-> Smaller(MaxChunkSize, mtu)]
  /\ phase' = IF xfer'.total = 0 THEN "hung" ELSE "block"
  /\ block' = [block EXCEPT !.number = 0] /\ done' = 0
  /\ held' = {} /\ UNCHANGED <<dfu, expected, missing, got>>

\* Checked on the block before the one that is asked for.
Refused(c) ==
  \/ block.number >= MaxBlocks
  \/ c > xfer.chunk
  \/ Quotient(xfer.block, block.chunk) > MaxChunks

\* The last block may be shorter.
Tail == xfer.size % xfer.block
Full(n) == n < xfer.total - 1 \/ Tail = 0

\* The chunks of a shorter last block, in a uint8_t.
TailChunks(c) == Byte(Pieces(Tail, c))

\* Faulty variant: the last bit is not set.
BitsSetShort(n, c) == IF Full(n) THEN Bits ELSE Smaller(TailChunks(c), Bits) - 1

\* A shorter last block has only the bits of its own chunks set.  What it sets
\* past the bitmap is other fields.
BitsSet(n, c) == IF Full(n) THEN Bits ELSE Smaller(TailChunks(c), Bits)

\* With no chunk in it the loop that sets its bits, to (chunks - 1) % 8, does
\* not end.
Endless(n, c) == ~Full(n) /\ TailChunks(c) = 0

blob_block_start(n, c) ==
  /\ phase = "block" /\ ~Refused(c)
  /\ block' = [number |-> n, chunk |-> c, size |-> IF Full(n) THEN xfer.block ELSE Tail]
  /\ missing' = 0 .. BitsSet(n, c) - 1
  /\ phase' = IF Endless(n, c) THEN "hung" ELSE "chunk"
  /\ got' = {}
  /\ UNCHANGED <<dfu, expected, xfer, done, held>>

\* The client's side of it: a block of the BLOB, once those before it are in.
InTurn(n) == n < xfer.total /\ 0 .. n - 1 \subseteq held

LastChunk == Word(Pieces(block.size, block.chunk) - 1)

\* is_chunk_received finds the bit set.  Past the bitmap it reads another field,
\* whose bit may be set or not.
MayBeMissing(k) == Byte(k) \in missing \/ Byte(k) >= Bits

\* last_missing_chunk_check asks for the chunks of a full block, counted in a
\* uint8_t, and finds no bit set or some: past the bitmap it may be either.
Counted == Byte(Pieces(xfer.block, block.chunk))

\* Faulty variant: the division rounds down, a shorter last chunk is forgotten.
NoneOfRoundedDown(m) == m \cap (0 .. Byte(Quotient(xfer.block, block.chunk)) - 1) = {}

NoneOf(m) == m \cap (0 .. Counted - 1) = {}
SomeOf(m) == ~NoneOf(m) \/ Counted > Bits

\* last_block_check
LastBlock == block.number = xfer.total - 1

\* A chunk of the right length that is still missing; only the length of the
\* last chunk is not checked.
blob_chunk_transfer(k, length) ==
  /\ phase = "chunk" /\ MayBeMissing(k) /\ k <= LastChunk
  /\ k < LastChunk => length = block.chunk
  /\ missing' = missing \ {Byte(k)} /\ got' = got \cup {k}
  /\ \/ /\ NoneOf(missing')
        /\ done' = block.number + 1 /\ held' = held \cup {block.number}
        /\ phase' = IF LastBlock THEN "complete" ELSE "block"
     \/ SomeOf(missing') /\ UNCHANGED <<done, held, phase>>
  /\ UNCHANGED <<dfu, expected, xfer, block>>

\* The reply to a request lists the blocks, and that on a block copies as many
\* bits as were counted.  Either may run past the end of its field on the stack,
\* after which the node may not go on.
status_send ==
  /\ \/ phase = "block" /\ xfer.total > ReplyBlocks
     \/ phase # "inactive" /\ Counted > Bits
  /\ phase' = "hung" /\ UNCHANGED <<dfu, expected, xfer, block, missing, done, history>>

-----------------------------------------------------------------------------
Update ==
  \/ \E id \in Ids : firmware_update_start(id)
  \/ firmware_update_cancel
  \/ firmware_update_apply
  \/ ota_apply_reset_cb

Transfer ==
  \/ \E id \in Ids, size \in BlobSizes, b \in BlockSizes, mtu \in Mtus :
       blob_transfer_start(id, size, b, mtu)
  \/ \E n \in 0 .. xfer.total - 1, c \in ChunkSizes : InTurn(n) /\ blob_block_start(n, c)
  \/ \E k \in 0 .. WORD - 1, length \in ChunkSizes : blob_chunk_transfer(k, length)
  \/ status_send

PowerLoss == Restart

\* A handler that does not return holds up the task that runs them all.
Next == (phase # "hung" /\ (Update \/ Transfer)) \/ PowerLoss
Spec == Init /\ [][Next]_vars

-----------------------------------------------------------------------------
(* Properties                                                              *)

Receiving == phase \in {"block", "chunk", "complete"}

\* What block n of the BLOB holds, and its chunks; those that have a bit.
LengthOf(n) == IF n = xfer.total - 1 THEN xfer.size - n * xfer.block ELSE xfer.block
ChunksOf(n) == 0 .. Pieces(LengthOf(n), block.chunk) - 1
Tracked(n) == ChunksOf(n) \cap (0 .. Bits - 1)

\* The blocks of the BLOB are counted as they are in a uint16_t, and the chunks of
\* a block in a uint8_t.
Countable ==
  /\ xfer.total = Pieces(xfer.size, xfer.block)
  /\ block.chunk # 0 /\ Pieces(xfer.block, block.chunk) < BYTE

\* Every chunk of a block has a bit.
Fits == Countable /\ Pieces(xfer.block, block.chunk) <= Bits

\* While a block is received its bitmap tells exactly which of the chunks that
\* have a bit were accepted, also when the block has more chunks than bits and
\* the bits of others are read and cleared in other fields; and a block all of whose
\* chunks have a bit is not kept waiting with none of them missing: blob_block_start
\* sets the bits and blob_chunk_transfer clears them.
BitmapTrue ==
  phase = "chunk" /\ Countable =>
    /\ got \cap (0 .. Bits - 1) = Tracked(block.number) \ missing
    /\ Fits => Tracked(block.number) \cap missing # {}

\* A block counts as received only with every chunk of it that has a bit, also the
\* last and shorter one, whatever chunk size the blocks before it had, and no chunk
\* of another block is taken for one of it: the check of last_missing_chunk_check is
\* made with the size of a full block.  With at most Bits chunks that is all of the
\* block; a block of more chunks may be left with the rest of them missing.
BlockWhole ==
  phase \in {"block", "complete"} /\ done > 0 /\ Countable =>
    Tracked(done - 1) \subseteq got /\ got \subseteq ChunksOf(done - 1)

\* The transfer is complete only when every block that was announced counts as received
\* (last_block_check looks at the number of the block alone).
CompleteIsWhole ==
  phase = "complete" => done = xfer.total /\ held = 0 .. xfer.total - 1

\* While the firmware update server waits for an image the BLOB server expects
\* that image and no other, and an update that was accepted has its restart
\* pending: the two phases are kept by different handlers.
PhasesAgree ==
  /\ update.phase = "active" => phase # "inactive" /\ expected = update.id
  /\ update.phase = "verified" => timer = "running"

IT == INSTANCE ImageTransfer WITH
        stage <- IF phase = "complete" THEN "whole" ELSE IF Receiving THEN "receiving" ELSE "none",
        total <- IF Receiving THEN xfer.total ELSE 0,
        parts <- IF Receiving THEN held ELSE {}

\* Whatever is cancelled, begun anew or asked for twice, the BLOB server goes through
\* the stages of an image that is taken in whole or not at all.  Its parts are the
\* blocks that count as received; how much of such a block came is BlockWhole's matter.
ImplementsTransfer == IT!Spec

=============================================================================
