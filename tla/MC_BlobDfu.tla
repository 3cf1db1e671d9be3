----------------------------- MODULE MC_BlobDfu -----------------------------
(* Small instances of BlobDfu: blocks of up to four chunks, with a shorter *)
(* last block and a shorter last chunk, on a bitmap of two bits, bytes of  *)
(* two bits and words of three, so that chunks without a bit and counts    *)
(* that do not fit their integers happen.                                  *)
EXTENDS BlobDfu
=============================================================================
