--------------------------- MODULE InputBufferOps ---------------------------
(***************************************************************************)
(* The methods of log_surgeon::ParserInputBuffer (and of the Buffer<char>  *)
(* it wraps) as operators on a record that holds the object's fields.      *)
(*                                                                         *)
(* Bytes are abstracted to their place in the log: storage[i] is the       *)
(* offset in the input of the byte stored at position i, or Unset when     *)
(* position i holds no byte of the current input.                          *)
(*                                                                         *)
(*   size           Buffer::m_active_size                                  *)
(*   storage        Buffer::m_active_storage                               *)
(*   pos            Buffer::m_pos                                          *)
(*   last_read      m_pos_last_read_char                                   *)
(*   first_half     m_last_read_first_half                                 *)
(*   finished       m_finished_reading_input                               *)
(*   fully_consumed m_log_fully_consumed                                   *)
(*   consumed_pos   m_consumed_pos                                         *)
(***************************************************************************)
EXTENDS Integers

Unset == -1

\* b is a record with exactly these fields.
IsBuffer(b) ==
  b = [ size           |-> b.size,
        storage        |-> b.storage,
        pos            |-> b.pos,
        last_read      |-> b.last_read,
        first_half     |-> b.first_half,
        finished       |-> b.finished,
        fully_consumed |-> b.fully_consumed,
        consumed_pos   |-> b.consumed_pos ]

\* The storage has two halves of the same size.
TwoHalves(b) == \E h \in 1 .. b.size : b.size = 2 * h

\* The code divides unsigned sizes by two in every method.
Half(b) == b.size \div 2

(***************************************************************************)
(* ParserInputBuffer::reset on an object whose static buffer has           *)
(* static_size bytes: dynamic buffers are dropped and the static buffer is *)
(* used again; its old bytes do not belong to the next input.              *)
(***************************************************************************)
reset(static_size) ==
  [ size           |-> static_size,
    storage        |-> [i \in 0 .. static_size - 1 |-> Unset],
    pos            |-> 0,
    last_read      |-> 0,
    first_half     |-> FALSE,
    finished       |-> FALSE,
    fully_consumed |-> FALSE,
    consumed_pos   |-> static_size - 1 ]

(***************************************************************************)
(* set_storage: the caller's array of n bytes stands in for the buffer,    *)
(* which is told that it is twice as large so that it never wraps.  The    *)
(* consumed position is the one reset() computed for the static buffer.    *)
(***************************************************************************)
set_storage(static_size, n, p, finished) ==
  [ reset(static_size) EXCEPT
      !.size       = 2 * n,
      !.storage    = [i \in 0 .. 2 * n - 1 |-> IF i < n THEN i ELSE Unset],
      !.pos        = p,
      !.finished   = finished,
      !.last_read  = n,
      !.first_half = TRUE ]

\* A position exactly on the middle, taken for consumed data.
read_is_safe_mutant(b) ==
  /\ ~b.finished
  /\ \/ ~b.first_half /\ b.consumed_pos >= Half(b)
     \/ b.first_half /\ b.consumed_pos < Half(b)

\* Reads wait until the last quarter is reached.
read_is_safe_late(b) ==
  /\ ~b.finished
  /\ \/ ~b.first_half /\ b.consumed_pos > Half(b) + 1
     \/ b.first_half /\ b.consumed_pos < Half(b) /\ b.consumed_pos > 1

\* Half of the buffer is read over whether it was consumed or not.
read_is_safe_eager(b) == ~b.finished

read_is_safe(b) ==
  /\ ~b.finished
  /\ \/ ~b.first_half /\ b.consumed_pos > Half(b)
     \/ b.first_half /\ b.consumed_pos < Half(b) /\ b.consumed_pos > 0

\* The half that the next read fills.
read_offset(b) == IF b.first_half THEN Half(b) ELSE 0

\* read(), when the reader answers Success with n bytes, the first of which
\* has offset o in the input.
read_success(b, o, n) ==
  LET at      == read_offset(b)
      new_end == b.last_read + n
  IN [ b EXCEPT
         !.storage    = [i \in 0 .. b.size - 1 |->
                           IF at <= i /\ i < at + n THEN o + (i - at)
                                                    ELSE b.storage[i]],
         !.first_half = ~b.first_half,
         !.finished   = b.finished \/ n < Half(b),
         !.last_read  = IF new_end > b.size THEN new_end - b.size ELSE new_end ]

\* read(), when the reader answers EndOfFile.
read_eof(b) == [b EXCEPT !.finished = TRUE]

\* The halves copied in buffer order even when the log wrapped.
increase_capacity_mutant(b) ==
  [ b EXCEPT
      !.size       = 2 * b.size,
      !.storage    = [i \in 0 .. 2 * b.size - 1 |->
                        IF i >= b.size THEN Unset ELSE b.storage[i]],
      !.first_half = TRUE,
      !.last_read  = b.size,
      !.pos        = b.size ]

\* increase_capacity reports this to its caller: the two halves of the old
\* buffer change places in the new one.
flipped_static_buffer(b) == b.first_half

increase_capacity(b) ==
  [ b EXCEPT
      !.size       = 2 * b.size,
      !.storage    = [i \in 0 .. 2 * b.size - 1 |->
                        IF i >= b.size THEN Unset
                        ELSE IF ~flipped_static_buffer(b) THEN b.storage[i]
                        ELSE IF i < Half(b) THEN b.storage[i + Half(b)]
                        ELSE b.storage[i - Half(b)]],
      !.first_half = TRUE,
      !.last_read  = b.size,
      !.pos        = b.size ]

(***************************************************************************)
(* get_next_character, split into its three outcomes: the end of the log,  *)
(* the end of what was read (BufferOutOfBounds), or a byte.                *)
(***************************************************************************)
\* Positions in the half before the one read last, taken for the end.
at_end_of_log_mutant(b) == b.finished /\ b.pos >= b.last_read

at_end_of_log(b) == b.finished /\ b.pos = b.last_read

\* The middle is noticed one byte too late.
out_of_bounds_mutant(b) ==
  /\ ~at_end_of_log(b)
  /\ \/ b.first_half /\ b.pos > Half(b)
     \/ ~b.first_half /\ b.pos = 0

out_of_bounds(b) ==
  /\ ~at_end_of_log(b)
  /\ \/ b.first_half /\ b.pos = Half(b)
     \/ ~b.first_half /\ b.pos = 0

curr_value(b) == b.storage[b.pos]

\* The position runs off the end of the storage instead of wrapping.
next_pos_mutant(b, p) == p + 1

next_pos(b, p) == IF p + 1 = b.size THEN 0 ELSE p + 1

advance(b) == [b EXCEPT !.pos = next_pos(b, b.pos)]

consume_log(b) == [b EXCEPT !.fully_consumed = TRUE]

set_pos(b, p) == [b EXCEPT !.pos = p]

\* The flag is only ever raised.
set_log_fully_consumed_mutant(b, v) ==
  [b EXCEPT !.fully_consumed = b.fully_consumed \/ v]

set_log_fully_consumed(b, v) == [b EXCEPT !.fully_consumed = v]

set_consumed_pos(b, p) == [b EXCEPT !.consumed_pos = p]
=============================================================================
