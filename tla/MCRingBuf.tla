----------------------------- MODULE MCRingBuf -----------------------------
(***************************************************************************)
(* Small instances of RingBuf for TLC: a ring of four slots, two byte      *)
(* values besides the zero of calloc, buffers of every length up to one    *)
(* more than the ring holds.                                               *)
(***************************************************************************)
EXTENDS RingBuf

CONSTANT Requested  \* the argument of ringbuf_create

ASSUME CreatedCapacity == Capacity = CreateCapacity(Requested)

MCBytes == {0, 1, 2}

MCBuffers == UNION {[1 .. n -> {1, 2}] : n \in 1 .. Capacity}

(* Callers of the Rust crate read one buffer of config.buffer_size(), never *)
(* more than the max_bufsize the C layer passes as the offset.              *)
MCReads == {r \in [size : 1 .. Capacity, offset : 1 .. Capacity] : r.size <= r.offset}

(* libaudiowire/tests/audiowire_test.c reads into a buffer of 65536 bytes  *)
(* from a stream whose max_bufsize is 23040.                               *)
MCLargeReads == {[size |-> Capacity, offset |-> 2]}

(* The contract the refinement needs holds of the requests above.          *)
ASSUME MCReadsAreWithinOffset == Reads = MCReads => ReadsWithinOffset
=============================================================================
