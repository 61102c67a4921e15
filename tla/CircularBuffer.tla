--------------------------- MODULE CircularBuffer ---------------------------
(***************************************************************************)
(* The circular buffer of the AESD char driver                             *)
(* (aesd-char-driver/aesd-circular-buffer.c and .h) as operators on the    *)
(* record that struct aesd_circular_buffer is.  The buffer has no lock of  *)
(* its own: "any necessary locking must be performed by caller", so the    *)
(* operators are applied by the driver's actions, module AesdChar.         *)
(***************************************************************************)
EXTENDS Integers

CONSTANTS
  N,     \* AESDCHAR_MAX_WRITE_OPERATIONS_SUPPORTED
  NULL   \* the null pointer, and the owner of a free lock

\* in_offs and out_offs are uint8_t: every slot number has to fit in one.
ASSUME NAssumption == N \in 1..255

Slots == 0..(N - 1)

(***************************************************************************)
(* struct aesd_buffer_entry: a pointer and the number of bytes behind it.  *)
(***************************************************************************)
NoEntry == [buffptr |-> NULL, size |-> 0]

(***************************************************************************)
(* aesd_circular_buffer_init: memset to 0.                                 *)
(***************************************************************************)
aesd_circular_buffer_init ==
  [entry    |-> [i \in Slots |-> NoEntry],
   in_offs  |-> 0,
   out_offs |-> 0,
   full     |-> FALSE]

\* The slot of the i-th stored entry, counted from the oldest one.
SlotAt(buffer, i) == (buffer.out_offs + i) % N

(***************************************************************************)
(* aesd_circular_buffer_add_entry: the new buffer, and the pointer it      *)
(* returns, which is the block the overwritten entry owned.                *)
(***************************************************************************)
\* Mutant of AdvanceOut: a full buffer keeps its oldest slot.
Mut_AdvanceOut(buffer) == buffer.out_offs

AdvanceOut(buffer) ==
  IF buffer.full THEN (buffer.out_offs + 1) % N ELSE buffer.out_offs

\* Mutant of aesd_circular_buffer_add_entry: in_offs does not wrap.
Mut_add_entry(buffer, add_entry) ==
  [entry    |-> [buffer.entry EXCEPT ![buffer.in_offs] = add_entry],
   in_offs  |-> buffer.in_offs + 1,
   out_offs |-> AdvanceOut(buffer),
   full     |-> buffer.full \/ buffer.in_offs + 1 = N]

aesd_circular_buffer_add_entry(buffer, add_entry) ==
  [entry    |-> [buffer.entry EXCEPT ![buffer.in_offs] = add_entry],
   in_offs  |-> (buffer.in_offs + 1) % N,
   out_offs |-> AdvanceOut(buffer),
   full     |-> buffer.full \/ (buffer.in_offs + 1) % N = 0]

\* Mutant of OldPtr: returns the block after the one overwritten.
Mut_OldPtr(buffer) ==
  IF buffer.full THEN buffer.entry[(buffer.in_offs + 1) % N].buffptr ELSE NULL

OldPtr(buffer) ==
  IF buffer.full THEN buffer.entry[buffer.in_offs].buffptr ELSE NULL

(***************************************************************************)
(* aesd_circular_buffer_find_entry_offset_for_fpos.  ComposedLength(b)[i]  *)
(* is the loop's composed_length after i iterations.  It is an int, and a  *)
(* block is at most KMALLOC_MAX_SIZE (4 MiB), so ten of them stay far      *)
(* below 2^31 and no width is modelled.  FoundAt says that iteration i is  *)
(* the one that returns; the entry is then the one in SlotAt(b, i) and     *)
(* *entry_offset_byte_rtn is EntryOffset.                                  *)
(***************************************************************************)
ComposedLength(buffer) ==
  LET len[i \in 0..N] ==
        IF i = 0 THEN 0
        ELSE len[i - 1] + buffer.entry[SlotAt(buffer, i - 1)].size
  IN  len

FoundAt(buffer, char_offset, i) ==
  /\ ComposedLength(buffer)[i + 1] > char_offset
  /\ \A j \in 0..(i - 1) : ComposedLength(buffer)[j + 1] <= char_offset

\* Mutant of EntryOffset: counts from the end of the entry.
Mut_EntryOffset(buffer, char_offset, i) ==
  ComposedLength(buffer)[i + 1] - char_offset - 1

EntryOffset(buffer, char_offset, i) ==
  char_offset - ComposedLength(buffer)[i]

(***************************************************************************)
(* The number of entries stored, as aesd_ioctl computes available_entries. *)
(***************************************************************************)
AvailableEntries(buffer) ==
  IF buffer.full THEN N ELSE buffer.in_offs - buffer.out_offs

(***************************************************************************)
(* AESD_CIRCULAR_BUFFER_FOREACH when the loop body adds step to the index  *)
(* the macro increments: the slots it visits are the multiples of step+1,  *)
(* and the index it stops at is the first multiple that is not a slot.     *)
(* The macro is meant to be used with step = 0.                            *)
(***************************************************************************)
ForeachVisits(step) == {i \in Slots : i % (step + 1) = 0}

ForeachExit(step) == ((N + step) \div (step + 1)) * (step + 1)
=============================================================================
