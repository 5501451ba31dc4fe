---------------------------- MODULE RingBufIndex ----------------------------
(***************************************************************************)
(* The index of a ring buffer (core/lib/ringbufindex.c): where the producer *)
(* puts and where the consumer gets in an array of mask + 1 entries.  The    *)
(* producer alone writes put_ptr and the consumer alone get_ptr, which is    *)
(* what lets an interrupt be the one and the main context the other without *)
(* a lock.  One entry always stays unused, so at most mask entries are in    *)
(* use.  -1 means that there is no entry to put or to get.                   *)
(***************************************************************************)
EXTENDS Integers

RingBuf(size) == [mask : {size - 1}, put_ptr : 0..(size - 1), get_ptr : 0..(size - 1)]

ringbufindex_init(size) == [mask |-> size - 1, put_ptr |-> 0, get_ptr |-> 0]

ringbufindex_elements(r) == (r.put_ptr - r.get_ptr) % (r.mask + 1)
ringbufindex_empty(r) == ringbufindex_elements(r) = 0

\* mutant: all entries are used
FullWithAll(r) == ringbufindex_elements(r) = r.mask + 1

ringbufindex_full(r) == ringbufindex_elements(r) = r.mask

ringbufindex_peek_put(r) == IF ringbufindex_full(r) THEN -1 ELSE r.put_ptr
ringbufindex_peek_get(r) == IF ringbufindex_empty(r) THEN -1 ELSE r.get_ptr

\* r after a put, and after a get; a full and an empty one stay as they are.
ringbufindex_put(r) ==
  IF ringbufindex_full(r) THEN r
  ELSE [r EXCEPT !.put_ptr = (@ + 1) % (r.mask + 1)]

ringbufindex_get(r) ==
  IF ringbufindex_empty(r) THEN r
  ELSE [r EXCEPT !.get_ptr = (@ + 1) % (r.mask + 1)]

\* The entries of array that are in use, oldest first.
Entries(r, array) ==
  [i \in 1..ringbufindex_elements(r) |-> array[(r.get_ptr + i - 1) % (r.mask + 1)]]
=============================================================================
