------------------------------ MODULE AesdChar ------------------------------
(***************************************************************************)
(* The AESD character driver, aesd-char-driver/main.c: one device, its     *)
(* mutex, its circular buffer of commands and the command being written,   *)
(* used by processes through open files.  A system call is a sequence of   *)
(* steps; between two of them every other process may run, unless the      *)
(* mutex is held.  Steps are cut where the code may sleep: at the mutex,   *)
(* at krealloc(GFP_KERNEL), at copy_to_user and copy_from_user, and where  *)
(* the kernel reads and stores the file position around a read or a write. *)
(* Calls that return an error before the mutex and change nothing (a bad   *)
(* ioctl number, an unreadable argument, a failed insmod) are stuttering   *)
(* steps.  private_data is null only in a file that is not open, on which  *)
(* the kernel makes no call, so ENODEV never happens.                      *)
(***************************************************************************)
EXTENDS CircularBuffer, Sequences

CONSTANTS
  Proc,         \* processes
  File,         \* struct files
  FileOf,       \* the file each process has a descriptor for
  Ptr,          \* the blocks kmalloc can hand out: the memory there is
  Byte,         \* bytes that are written
  NL,           \* the newline byte
  Uninit,       \* a byte of a block that nobody wrote
  Chunk,        \* what one write call may carry
  ReadCount,    \* the sizes of the buffers passed to read
  SeekOff,      \* the offsets passed to lseek and to the ioctl
  AllocFailure, \* whether krealloc may fail while there is memory left
  MaxCommand    \* bound: a command is not written beyond this many bytes

ASSUME DriverAssumption ==
  /\ FileOf \in [Proc -> File]
  /\ NULL \notin Proc /\ NULL \notin Ptr
  /\ NL \in Byte /\ Uninit \notin Byte
  /\ Chunk \subseteq Seq(Byte) \ {<<>>}
  /\ ReadCount \subseteq Nat /\ SeekOff \subseteq Int /\ MaxCommand \in Nat
  /\ AllocFailure \in BOOLEAN

VARIABLES
  loaded,        \* whether the module is in the kernel
  circular_buf,  \* aesd_device.circular_buf
  buf_entry,     \* aesd_device.buf_entry, the command being written
  mutex_lock,    \* aesd_device.mutex_lock: its owner or NULL
  live,          \* the blocks that are allocated
  heap,          \* the bytes of each block
  is_open,       \* per file: open, and private_data set
  f_pos,         \* per file: filp->f_pos
  pc,            \* per process: where in a system call it is
  pos,           \* per process: the kernel's copy of f_pos, *f_pos in the driver
  chunk,         \* per process: the bytes of the write under way
  found,         \* per process: slot, offset and bytes_read of the read under way
  end_size,      \* per process: the size aesd_llseek has computed
  user_buf       \* per process: what the read under way has copied out

dev    == <<circular_buf, buf_entry, live, heap>>
files  == <<is_open, f_pos>>
locals == <<pos, chunk, found, end_size, user_buf>>
vars   == <<loaded, dev, mutex_lock, files, pc, locals>>

Idle == "idle"
NotFound == [slot |-> 0, offset |-> 0, bytes_read |-> 0]

Init ==
  /\ loaded = FALSE
  /\ circular_buf = aesd_circular_buffer_init
  /\ buf_entry = NoEntry
  /\ mutex_lock = NULL
  /\ live = {}
  /\ heap = [q \in Ptr |-> <<>>]
  /\ is_open = [f \in File |-> FALSE]
  /\ f_pos = [f \in File |-> 0]
  /\ pc = [p \in Proc |-> Idle]
  /\ pos = [p \in Proc |-> 0]
  /\ chunk = [p \in Proc |-> <<>>]
  /\ found = [p \in Proc |-> NotFound]
  /\ end_size = [p \in Proc |-> 0]
  /\ user_buf = [p \in Proc |-> <<>>]

\* The call of process p returns, and its local variables are gone.
Return(p) ==
  /\ pc' = [pc EXCEPT ![p] = Idle]
  /\ pos' = [pos EXCEPT ![p] = 0]
  /\ chunk' = [chunk EXCEPT ![p] = <<>>]
  /\ found' = [found EXCEPT ![p] = NotFound]
  /\ end_size' = [end_size EXCEPT ![p] = 0]
  /\ user_buf' = [user_buf EXCEPT ![p] = <<>>]

-----------------------------------------------------------------------------
(***************************************************************************)
(* Loading and unloading.  The kernel refuses to unload while a file is    *)
(* open (fops.owner).                                                      *)
(***************************************************************************)
aesd_init_module ==
  /\ ~loaded
  /\ loaded' = TRUE
  /\ circular_buf' = aesd_circular_buffer_init
  /\ buf_entry' = NoEntry
  /\ UNCHANGED <<mutex_lock, live, heap, files, pc, locals>>

\* kfree; the bytes of a free block do not matter and are dropped.
Kfree(h, S) == [q \in Ptr |-> IF q \in S THEN <<>> ELSE h[q]]

RingPtrs == {circular_buf.entry[i].buffptr : i \in Slots} \ {NULL}

aesd_cleanup_module ==
  /\ loaded
  /\ \A f \in File : ~is_open[f]
  /\ loaded' = FALSE
  /\ live' = live \ RingPtrs
  /\ heap' = Kfree(heap, RingPtrs)
  /\ circular_buf' =
       [circular_buf EXCEPT !.entry =
          [i \in Slots |-> [circular_buf.entry[i] EXCEPT !.buffptr = NULL]]]
  /\ UNCHANGED <<buf_entry, mutex_lock, files, pc, locals>>

aesd_open(f) ==
  /\ loaded
  /\ ~is_open[f]
  /\ is_open' = [is_open EXCEPT ![f] = TRUE]
  /\ f_pos' = [f_pos EXCEPT ![f] = 0]
  /\ UNCHANGED <<loaded, dev, mutex_lock, pc, locals>>

\* The last close of a file: no call on it is under way.
aesd_release(f) ==
  /\ is_open[f]
  /\ \A p \in Proc : FileOf[p] = f => pc[p] = Idle
  /\ is_open' = [is_open EXCEPT ![f] = FALSE]
  /\ UNCHANGED <<loaded, dev, mutex_lock, f_pos, pc, locals>>

-----------------------------------------------------------------------------
(***************************************************************************)
(* The system-call layer: read(2) and write(2) hand the driver a copy of   *)
(* f_pos and store it back when the driver succeeds.  A character device   *)
(* is not a regular file, so nothing serialises two calls on one file.     *)
(***************************************************************************)
vfs_call(p, op) ==
  /\ pc[p] = Idle
  /\ is_open[FileOf[p]]
  /\ pc' = [pc EXCEPT ![p] = op]
  /\ pos' = [pos EXCEPT ![p] = f_pos[FileOf[p]]]
  /\ UNCHANGED <<loaded, dev, mutex_lock, files, chunk, found, end_size, user_buf>>

\* llseek and ioctl are handed the file itself.
fops_call(p, op) ==
  /\ pc[p] = Idle
  /\ is_open[FileOf[p]]
  /\ pc' = [pc EXCEPT ![p] = op]
  /\ UNCHANGED <<loaded, dev, mutex_lock, files, locals>>

vfs_store_pos(p) ==
  /\ pc[p] = "store_pos"
  /\ f_pos' = [f_pos EXCEPT ![FileOf[p]] = pos[p]]
  /\ Return(p)
  /\ UNCHANGED <<loaded, dev, mutex_lock, is_open>>

\* mutex_lock_interruptible is interrupted: -ERESTARTSYS.
interrupted(p) ==
  /\ pc[p] \in {"read", "write", "ioctl"}
  /\ Return(p)
  /\ UNCHANGED <<loaded, dev, mutex_lock, files>>

-----------------------------------------------------------------------------
(***************************************************************************)
(* aesd_read: under the mutex, find the entry for *f_pos; with the mutex   *)
(* still held, copy at most the rest of that entry to user space.          *)
(***************************************************************************)
\* Mutant of BytesRead: forgets that the read starts inside the entry.
Mut_BytesRead(i, p, count) ==
  LET size == circular_buf.entry[SlotAt(circular_buf, i)].size
  IN  IF size > count THEN count ELSE size

BytesRead(i, p, count) ==
  LET rest == circular_buf.entry[SlotAt(circular_buf, i)].size
                - EntryOffset(circular_buf, pos[p], i)
  IN  IF rest > count THEN count ELSE rest

aesd_read_found(p, count) ==
  /\ pc[p] = "read"
  /\ mutex_lock = NULL
  /\ \E i \in Slots :
       /\ FoundAt(circular_buf, pos[p], i)
       /\ found' = [found EXCEPT ![p] =
            [slot       |-> SlotAt(circular_buf, i),
             offset     |-> EntryOffset(circular_buf, pos[p], i),
             bytes_read |-> BytesRead(i, p, count)]]
  /\ mutex_lock' = p
  /\ pc' = [pc EXCEPT ![p] = "read_copy"]
  /\ UNCHANGED <<loaded, dev, files, pos, chunk, end_size, user_buf>>

aesd_read_eof(p) ==
  /\ pc[p] = "read"
  /\ mutex_lock = NULL
  /\ ~ \E i \in Slots : FoundAt(circular_buf, pos[p], i)
  /\ pc' = [pc EXCEPT ![p] = "store_pos"]
  /\ UNCHANGED <<loaded, dev, mutex_lock, files, locals>>

aesd_read_copy(p) ==
  LET hit == found[p]
      src == heap[circular_buf.entry[hit.slot].buffptr]
  IN  /\ pc[p] = "read_copy"
      /\ user_buf' = [user_buf EXCEPT ![p] =
                        [k \in 1..hit.bytes_read |-> src[hit.offset + k]]]
      /\ pos' = [pos EXCEPT ![p] = @ + hit.bytes_read]
      /\ pc' = [pc EXCEPT ![p] = "store_pos"]
      /\ mutex_lock' = NULL
      /\ found' = [found EXCEPT ![p] = NotFound]
      /\ UNCHANGED <<loaded, dev, files, chunk, end_size>>

-----------------------------------------------------------------------------
(***************************************************************************)
(* aesd_write: under the mutex, krealloc the command being written; with   *)
(* the mutex still held, copy the new bytes in; when the last one is a     *)
(* newline, move the command into the circular buffer and free the block   *)
(* of the one it replaces.  The file position is not changed.              *)
(***************************************************************************)
FreePtrs == Ptr \ live

\* krealloc keeps the old bytes; a block that moves counts as the same block.
Resized(old, size) ==
  [i \in 1..size |-> IF i <= Len(old) THEN old[i] ELSE Uninit]

aesd_write_alloc(p, c) ==
  LET old  == buf_entry.buffptr
      size == buf_entry.size + Len(c)
  IN  /\ pc[p] = "write"
      /\ mutex_lock = NULL
      /\ c[Len(c)] = NL \/ size <= MaxCommand
      /\ \E q \in IF old = NULL THEN FreePtrs ELSE {old} :
           /\ live' = live \cup {q}
           /\ heap' = [heap EXCEPT ![q] = Resized(IF old = NULL THEN <<>> ELSE @, size)]
           /\ buf_entry' = [buf_entry EXCEPT !.buffptr = q]
      /\ chunk' = [chunk EXCEPT ![p] = c]
      /\ mutex_lock' = p
      /\ pc' = [pc EXCEPT ![p] = "write_copy"]
      /\ UNCHANGED <<loaded, circular_buf, files, pos, found, end_size, user_buf>>

\* krealloc returns NULL: the old block stays allocated, the only pointer to
\* it is overwritten, and size stays what it was.
aesd_write_enomem(p) ==
  /\ pc[p] = "write"
  /\ mutex_lock = NULL
  /\ AllocFailure \/ (buf_entry.buffptr = NULL /\ FreePtrs = {})
  /\ buf_entry' = [buf_entry EXCEPT !.buffptr = NULL]
  /\ Return(p)
  /\ UNCHANGED <<loaded, circular_buf, live, heap, mutex_lock, files>>

Filled(old, size, c) ==
  [i \in 1..(size + Len(c)) |-> IF i <= size THEN old[i] ELSE c[i - size]]

\* Mutant of AfterCommand: buffptr still points to the block just stored.
Mut_AfterCommand == [buf_entry EXCEPT !.size = 0]

AfterCommand == NoEntry

aesd_write_copy(p) ==
  LET q    == buf_entry.buffptr
      size == buf_entry.size + Len(chunk[p])
      old  == {OldPtr(circular_buf)} \ {NULL}
      h    == [heap EXCEPT ![q] = Filled(@, buf_entry.size, chunk[p])]
  IN  /\ pc[p] = "write_copy"
      /\ IF chunk[p][Len(chunk[p])] = NL
         THEN /\ circular_buf' = aesd_circular_buffer_add_entry(
                   circular_buf, [buffptr |-> q, size |-> size])
              /\ live' = live \ old
              /\ heap' = Kfree(h, old)
              /\ buf_entry' = AfterCommand
         ELSE /\ heap' = h
              /\ buf_entry' = [buf_entry EXCEPT !.size = size]
              /\ UNCHANGED <<circular_buf, live>>
      /\ mutex_lock' = NULL
      /\ pc' = [pc EXCEPT ![p] = "store_pos"]
      /\ chunk' = [chunk EXCEPT ![p] = <<>>]
      /\ UNCHANGED <<loaded, files, pos, found, end_size, user_buf>>

\* Mutant of copy_fault: returns without the unlock.
Mut_copy_fault(p) ==
  /\ pc[p] \in {"read_copy", "write_copy"}
  /\ Return(p)
  /\ UNCHANGED <<loaded, dev, mutex_lock, files>>

\* copy_to_user or copy_from_user fails: -EFAULT, after the unlock.  A write
\* keeps the grown block.
copy_fault(p) ==
  /\ pc[p] \in {"read_copy", "write_copy"}
  /\ mutex_lock' = NULL
  /\ Return(p)
  /\ UNCHANGED <<loaded, dev, files>>

-----------------------------------------------------------------------------
(***************************************************************************)
(* aesd_llseek: waits for the mutex, not interruptibly; the loop under it  *)
(* uses size both as its index and as its sum of dev->buf_entry.size; the  *)
(* kernel's fixed_size_llseek runs with the result after the unlock.       *)
(***************************************************************************)
\* Process p, waiting at one label, gets the mutex and goes on at another.
Lock(p, from, to) ==
  /\ pc[p] = from
  /\ mutex_lock = NULL
  /\ mutex_lock' = p
  /\ pc' = [pc EXCEPT ![p] = to]
  /\ UNCHANGED <<loaded, dev, files, locals>>

aesd_llseek_lock(p) == Lock(p, "llseek", "llseek_locked")

\* Mutant of aesd_llseek: goes on without the unlock.
Mut_aesd_llseek(p) ==
  /\ pc[p] = "llseek_locked"
  /\ end_size' = [end_size EXCEPT ![p] = ForeachExit(buf_entry.size)]
  /\ pc' = [pc EXCEPT ![p] = "set_pos"]
  /\ UNCHANGED <<loaded, dev, mutex_lock, files, pos, chunk, found, user_buf>>

aesd_llseek(p) ==
  /\ pc[p] = "llseek_locked"
  /\ end_size' = [end_size EXCEPT ![p] = ForeachExit(buf_entry.size)]
  /\ mutex_lock' = NULL
  /\ pc' = [pc EXCEPT ![p] = "set_pos"]
  /\ UNCHANGED <<loaded, dev, files, pos, chunk, found, user_buf>>

fixed_size_llseek(p, off, whence) ==
  LET f      == FileOf[p]
      newpos == CASE whence = "SEEK_SET" -> off
                  [] whence = "SEEK_CUR" -> f_pos[f] + off
                  [] whence = "SEEK_END" -> end_size[p] + off
  IN  /\ pc[p] = "set_pos"
      /\ IF newpos \in 0..end_size[p]
         THEN f_pos' = [f_pos EXCEPT ![f] = newpos]
         ELSE UNCHANGED f_pos
      /\ Return(p)
      /\ UNCHANGED <<loaded, dev, mutex_lock, is_open>>

(***************************************************************************)
(* aesd_ioctl with AESDCHAR_IOCSEEKTO: under the mutex, test the command's *)
(* number and the offset, then set the file's position.  SkippedBytes is   *)
(* the while loop from out_offs to command_idx; the k-th round looks at    *)
(* SlotAt(buffer, k), and command_idx comes up before there is a round N.  *)
(***************************************************************************)
aesd_ioctl_lock(p) == Lock(p, "ioctl", "ioctl_locked")

\* Mutant of SeekInRange: a ring that is full counts as one that is empty.
Mut_SeekInRange(write_cmd, write_cmd_offset) ==
  /\ write_cmd < circular_buf.in_offs - circular_buf.out_offs
  /\ write_cmd_offset <= circular_buf.entry[SlotAt(circular_buf, write_cmd)].size

\* The two tests; an offset that equals the size passes the second.
SeekInRange(write_cmd, write_cmd_offset) ==
  /\ write_cmd < AvailableEntries(circular_buf)
  /\ write_cmd_offset <= circular_buf.entry[SlotAt(circular_buf, write_cmd)].size

SkippedBytes(buffer, command_idx) ==
  LET skip[k \in 0..N] ==
        IF k = N \/ SlotAt(buffer, k) = command_idx THEN 0
        ELSE buffer.entry[SlotAt(buffer, k)].size + skip[k + 1]
  IN  skip[0]

\* Mutant of SeektoPos: takes write_cmd for a slot number.
Mut_SeektoPos(write_cmd, write_cmd_offset) ==
  SkippedBytes(circular_buf, write_cmd) + write_cmd_offset

SeektoPos(write_cmd, write_cmd_offset) ==
  SkippedBytes(circular_buf, SlotAt(circular_buf, write_cmd)) + write_cmd_offset

aesd_ioctl(p, write_cmd, write_cmd_offset) ==
  /\ pc[p] = "ioctl_locked"
  /\ SeekInRange(write_cmd, write_cmd_offset)
  /\ f_pos' = [f_pos EXCEPT ![FileOf[p]] = SeektoPos(write_cmd, write_cmd_offset)]
  /\ mutex_lock' = NULL
  /\ Return(p)
  /\ UNCHANGED <<loaded, dev, is_open>>

\* -EINVAL, after the unlock.
aesd_ioctl_invalid(p, write_cmd, write_cmd_offset) ==
  /\ pc[p] = "ioctl_locked"
  /\ ~SeekInRange(write_cmd, write_cmd_offset)
  /\ mutex_lock' = NULL
  /\ Return(p)
  /\ UNCHANGED <<loaded, dev, files>>

\* The numbers of commands asked for: one more than the ring can hold.
WriteCmd == 0..N

-----------------------------------------------------------------------------
\* The steps of one process.
Step(p) ==
  \/ \E op \in {"read", "write"} : vfs_call(p, op)
  \/ \E op \in {"llseek", "ioctl"} : fops_call(p, op)
  \/ vfs_store_pos(p)
  \/ interrupted(p)
  \/ \E count \in ReadCount : aesd_read_found(p, count)
  \/ aesd_read_eof(p)
  \/ aesd_read_copy(p)
  \/ \E c \in Chunk : aesd_write_alloc(p, c)
  \/ aesd_write_enomem(p)
  \/ aesd_write_copy(p)
  \/ copy_fault(p)
  \/ aesd_llseek_lock(p)
  \/ aesd_llseek(p)
  \/ \E off \in SeekOff, whence \in {"SEEK_SET", "SEEK_CUR", "SEEK_END"} :
       fixed_size_llseek(p, off, whence)
  \/ aesd_ioctl_lock(p)
  \/ \E cmd \in WriteCmd, off \in SeekOff \cap Nat :
       aesd_ioctl(p, cmd, off) \/ aesd_ioctl_invalid(p, cmd, off)

Next ==
  \/ aesd_init_module
  \/ aesd_cleanup_module
  \/ \E f \in File : aesd_open(f) \/ aesd_release(f)
  \/ \E p \in Proc : Step(p)

Spec == Init /\ [][Next]_vars

(***************************************************************************)
(* Fairness: a process inside a call keeps running, and the kernel mutex   *)
(* queues its waiters, so one that waits while the mutex is free again and *)
(* again gets it.                                                          *)
(***************************************************************************)
Locks(p) ==
  \/ \E count \in ReadCount : aesd_read_found(p, count)
  \/ aesd_read_eof(p)
  \/ \E c \in Chunk : aesd_write_alloc(p, c)
  \/ aesd_write_enomem(p)
  \/ aesd_llseek_lock(p)
  \/ aesd_ioctl_lock(p)

Finishes(p) ==
  \/ vfs_store_pos(p)
  \/ aesd_read_copy(p)
  \/ aesd_write_copy(p)
  \/ aesd_llseek(p)
  \/ \E off \in SeekOff, whence \in {"SEEK_SET", "SEEK_CUR", "SEEK_END"} :
       fixed_size_llseek(p, off, whence)
  \/ \E cmd \in WriteCmd, off \in SeekOff \cap Nat :
       aesd_ioctl(p, cmd, off) \/ aesd_ioctl_invalid(p, cmd, off)

Fairness == \A p \in Proc : SF_vars(Locks(p)) /\ WF_vars(Finishes(p))

FairSpec == Spec /\ Fairness

-----------------------------------------------------------------------------
(***************************************************************************)
(* Properties.                                                             *)
(***************************************************************************)
Label == {Idle, "read", "read_copy", "write", "write_copy", "store_pos", "llseek",
          "llseek_locked", "set_pos", "ioctl", "ioctl_locked"}
Block == Seq(Byte \cup {Uninit})
Entry == [buffptr : Ptr \cup {NULL}, size : Nat]

\* Type invariant: every variable of the device, the files and the calls
\* under way (struct aesd_dev, struct file, the locals of aesd_read,
\* aesd_write and aesd_llseek) has its type; offsets stay slots of the ring.
TypeOK ==
  /\ loaded \in BOOLEAN
  /\ circular_buf \in [entry : [Slots -> Entry], in_offs : Slots,
                       out_offs : Slots, full : BOOLEAN]
  /\ buf_entry \in Entry
  /\ mutex_lock \in Proc \cup {NULL}
  /\ live \in SUBSET Ptr
  /\ heap \in [Ptr -> Block]
  /\ is_open \in [File -> BOOLEAN]
  /\ f_pos \in [File -> Nat]
  /\ pc \in [Proc -> Label]
  /\ pos \in [Proc -> Nat]
  /\ chunk \in [Proc -> Chunk \cup {<<>>}]
  /\ found \in [Proc -> [slot : Slots, offset : Nat, bytes_read : Nat]]
  /\ end_size \in [Proc -> Nat]
  /\ user_buf \in [Proc -> Block]

\* Every allocated block has one owner: no two entries of the circular
\* buffer share a block, the command being written shares none with them,
\* and no owner's block has been freed.  This is what makes each kfree in
\* aesd_write and aesd_cleanup_module free a live block once, and no read
\* or write touch a freed one.
BlocksOwnedOnce ==
  /\ RingPtrs \subseteq live
  /\ \A i, j \in Slots :
       i # j => \/ circular_buf.entry[i].buffptr = NULL
                \/ circular_buf.entry[i].buffptr # circular_buf.entry[j].buffptr
  /\ buf_entry.buffptr # NULL => buf_entry.buffptr \in live \ RingPtrs

\* While a copy to or from user space is under way, which may sleep, the
\* block it works on is live and long enough: copy_to_user stays within the
\* entry aesd_read found, copy_from_user within the block aesd_write resized.
CopyInBounds ==
  \A p \in Proc :
    /\ pc[p] = "read_copy" =>
         LET e == circular_buf.entry[found[p].slot]
         IN  /\ e.buffptr \in live
             /\ found[p].offset + found[p].bytes_read <= Len(heap[e.buffptr])
    /\ pc[p] = "write_copy" =>
         /\ buf_entry.buffptr \in live
         /\ buf_entry.size + Len(chunk[p]) = Len(heap[buf_entry.buffptr])

(***************************************************************************)
(* The strengthening that makes the two invariants above inductive.        *)
(***************************************************************************)
\* The ring's shape: before it fills, entries lie in slots 0..in_offs-1;
\* from then on it stays full and in_offs is the oldest slot.  A slot in use
\* says exactly how long its block is, one not in use is zeroed.
RingInv ==
  /\ IF circular_buf.full THEN circular_buf.in_offs = circular_buf.out_offs
                          ELSE circular_buf.out_offs = 0
  /\ loaded => \A i \in Slots :
       LET e == circular_buf.entry[i]
       IN  IF circular_buf.full \/ i < circular_buf.in_offs
           THEN e.buffptr # NULL /\ e.size = Len(heap[e.buffptr])
           ELSE e = NoEntry

\* The mutex is held exactly by the process that is between its lock and its
\* unlock, in whichever of the four calls; a call under way has its file open
\* and an open file keeps the module loaded.
Holding == {"read_copy", "write_copy", "llseek_locked", "ioctl_locked"}

LockInv ==
  /\ \A p \in Proc : mutex_lock = p <=> pc[p] \in Holding
  /\ \A p \in Proc : pc[p] # Idle => is_open[FileOf[p]]
  /\ \A f \in File : is_open[f] => loaded

\* The block of the command being written holds at least its bytes.
PartialInv ==
  buf_entry.buffptr # NULL => buf_entry.size <= Len(heap[buf_entry.buffptr])

\* A read holds the entry it found: the bytes it is to copy are the entry's.
ReadInv ==
  \A p \in Proc : pc[p] = "read_copy" =>
    LET e == circular_buf.entry[found[p].slot]
    IN  e.buffptr # NULL /\ found[p].offset + found[p].bytes_read <= e.size

\* A write has grown the block to what it is about to hold.
WriteInv ==
  \A p \in Proc : pc[p] = "write_copy" =>
    /\ chunk[p] \in Chunk
    /\ buf_entry.buffptr # NULL
    /\ Len(heap[buf_entry.buffptr]) = buf_entry.size + Len(chunk[p])

\* The inductive invariant of the driver.
DriverInv ==
  /\ TypeOK
  /\ RingInv
  /\ LockInv
  /\ PartialInv
  /\ ReadInv
  /\ WriteInv
  /\ BlocksOwnedOnce

\* The commands the ring holds, oldest first, and the one being written.
Log ==
  IF loaded
  THEN [i \in 1..AvailableEntries(circular_buf) |->
          heap[circular_buf.entry[SlotAt(circular_buf, i - 1)].buffptr]]
  ELSE <<>>

Partial ==
  IF loaded
  THEN [i \in 1..buf_entry.size |->
          IF buf_entry.buffptr = NULL THEN Uninit ELSE heap[buf_entry.buffptr][i]]
  ELSE <<>>

CL == INSTANCE CommandLog WITH log <- Log, partial <- Partial

\* The driver implements CommandLog: whatever the interleaving of reads,
\* writes, seeks and failures, the ring is the queue of the last N commands,
\* byte for byte, and a write either adds its bytes once or not at all.
ImplementsCommandLog == CL!Spec

\* A read that succeeds delivers the bytes of the concatenated commands that
\* start at the file position it was given, at least one of them, and moves
\* on by their number; it reports end of file only at or past their end.
\* (aesd_read with aesd_circular_buffer_find_entry_offset_for_fpos.)
ReadReturnsLogSlice ==
  [][\A p \in Proc :
       pc'[p] = "store_pos" =>
         /\ pc[p] = "read_copy" =>
              /\ user_buf'[p] = SubSeq(CL!Contents(Log), pos[p] + 1, pos'[p])
              /\ user_buf'[p] # <<>> \/ 0 \in ReadCount
         /\ pc[p] = "read" => pos[p] >= Len(CL!Contents(Log))]_vars

\* The ioctl and the read agree on positions: after AESDCHAR_IOCSEEKTO to a
\* byte of a stored command, a read of the file would find that command and
\* that byte in it, wherever the ring has wrapped.
SeektoAgreesWithRead ==
  [][\A p \in Proc, cmd \in Slots, off \in SeekOff \cap Nat :
       /\ aesd_ioctl(p, cmd, off)
       /\ off < circular_buf.entry[SlotAt(circular_buf, cmd)].size
       => /\ FoundAt(circular_buf, f_pos'[FileOf[p]], cmd)
          /\ EntryOffset(circular_buf, f_pos'[FileOf[p]], cmd) = off]_vars

\* The ioctl does exactly what the server's model takes a seek for: it succeeds
\* if CommandLog has the command and the command is long enough, and only then,
\* and the position it leaves is the one CommandLog counts, over commands and
\* not over slots, in a ring that is filling or has wrapped.
SeekMatchesLog ==
  [][\A p \in Proc, cmd \in WriteCmd, off \in SeekOff \cap Nat :
       /\ aesd_ioctl(p, cmd, off) =>
            /\ CL!SeekOk(cmd, off)
            /\ f_pos'[FileOf[p]] = CL!SeekPos(cmd, off)
       /\ aesd_ioctl_invalid(p, cmd, off) => ~CL!SeekOk(cmd, off)]_vars

\* Every system call on the device comes to an end: no path through
\* aesd_read, aesd_write, aesd_llseek or aesd_ioctl, failing ones included,
\* leaves the mutex locked for the others.
EveryCallReturns ==
  \A p \in Proc : pc[p] # Idle ~> pc[p] = Idle

-----------------------------------------------------------------------------
(***************************************************************************)
(* Statements of the repository that the code does not keep.               *)
(***************************************************************************)
\* aesd-circular-buffer.h on AESD_CIRCULAR_BUFFER_FOREACH: "create a for loop
\* to iterate over each member of the circular buffer".
LlseekVisitsEveryMember ==
  [][\A p \in Proc : aesd_llseek(p) => ForeachVisits(buf_entry.size) = Slots]_vars

\* aesd_ioctl.h on write_cmd_offset: "The zero referenced offset within the
\* write", so that a seek that succeeds names a byte of its command.
SeekWithinWrite ==
  [][\A p \in Proc, cmd \in WriteCmd, off \in SeekOff \cap Nat :
       aesd_ioctl(p, cmd, off) => off < Len(Log[cmd + 1])]_vars

\* aesd-circular-buffer.h on size: "number of bytes stored in buffptr".
SizeIsBytesStored == buf_entry.buffptr = NULL => buf_entry.size = 0
=============================================================================
