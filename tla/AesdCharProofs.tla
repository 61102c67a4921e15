--------------------------- MODULE AesdCharProofs ---------------------------
(***************************************************************************)
(* Proofs about the driver, for every number of slots, processes, files    *)
(* and blocks.                                                             *)
(***************************************************************************)
EXTENDS AesdChar, CircularBufferProofs

\* The while loop of aesd_ioctl adds up the same lengths as the search loop of
\* aesd_circular_buffer_find_entry_offset_for_fpos.
LEMMA SkippedBytesSum ==
  ASSUME NEW b, b.out_offs \in Slots,
         \A i \in Slots : b.entry[i].size \in Nat,
         NEW w \in Slots
  PROVE  SkippedBytes(b, SlotAt(b, w)) = ComposedLength(b)[w]
<1> DEFINE len == ComposedLength(b)
           size(k) == b.entry[SlotAt(b, k)].size
           F(f) == [k \in 0..N |-> IF k = N \/ SlotAt(b, k) = SlotAt(b, w) THEN 0
                                   ELSE b.entry[SlotAt(b, k)].size + f[k + 1]]
           h == [k \in 0..N |-> IF k <= w THEN len[w] - len[k] ELSE len[N] - len[k]]
           g == CHOOSE f : f = F(f)
<1>0. N \in Nat /\ N > 0 /\ w \in 0..N /\ Slots = 0..(N - 1)
  BY SlotWraps DEF Slots
<1>1. /\ len \in [0..N -> Nat] /\ len[0] = 0
      /\ \A k \in Slots : len[k + 1] = len[k] + size(k)
  BY ComposedLengthSum
<1>2. /\ \A k \in Slots : size(k) \in Nat
      /\ \A k \in Slots : SlotAt(b, k) = SlotAt(b, w) => k = w
  BY SlotAtInjective
<1> HIDE DEF len
<1>3. h = F(h)
  <2>1. ASSUME NEW k \in 0..N PROVE h[k] = F(h)[k]
    <3>1. CASE k = N
      BY <1>0, <1>1, <3>1
    <3>2. CASE k = w
      BY <1>0, <1>1, <3>2
    <3>3. CASE k # N /\ k # w
      <4>1. k \in Slots /\ k + 1 \in 0..N
        BY <1>0, <3>3
      <4>2. F(h)[k] = size(k) + h[k + 1]
        BY <1>2, <3>3, <4>1
      <4>3. /\ len[k] \in Nat /\ len[k + 1] \in Nat /\ len[w] \in Nat /\ len[N] \in Nat
            /\ size(k) \in Nat /\ len[k + 1] = len[k] + size(k)
        BY <1>0, <1>1, <1>2, <4>1
      <4> HIDE DEF size, F
      <4>4. CASE k < w
        <5>1. k + 1 <= w /\ k <= w
          BY <1>0, <4>1, <4>4
        <5>2. h[k] = len[w] - len[k] /\ h[k + 1] = len[w] - len[k + 1]
          BY <4>1, <5>1
        <5> QED BY <4>2, <4>3, <5>2
      <4>5. CASE k > w
        <5>1. ~(k + 1 <= w) /\ ~(k <= w)
          BY <1>0, <4>1, <4>5
        <5>2. h[k] = len[N] - len[k] /\ h[k + 1] = len[N] - len[k + 1]
          BY <4>1, <5>1
        <5> QED BY <4>2, <4>3, <5>2
      <4> QED BY <1>0, <3>3, <4>1, <4>4, <4>5
    <3> QED BY <3>1, <3>2, <3>3
  <2> QED BY <2>1
<1> HIDE DEF h, F
<1>4. g = F(g)
  BY <1>3, Zenon
<1>5. SkippedBytes(b, SlotAt(b, w)) = g[0]
  BY DEF SkippedBytes, F
<1> HIDE DEF g
<1> DEFINE T == {j \in Nat : j <= N => g[N - j] = h[N - j]}
<1>6. 0 \in T
  BY <1>0, <1>3, <1>4 DEF F
<1>7. ASSUME NEW j \in T PROVE j + 1 \in T
  <2>1. CASE j + 1 <= N
    <3>1. N - (j + 1) \in 0..N /\ (N - (j + 1)) + 1 = N - j /\ g[N - j] = h[N - j]
      BY <1>0, <1>7, <2>1
    <3>2. F(g)[N - (j + 1)] = F(h)[N - (j + 1)]
      BY <3>1 DEF F
    <3>3. g[N - (j + 1)] = h[N - (j + 1)]
      BY <1>3, <1>4, <3>2
    <3> QED BY <1>7, <3>3
  <2> QED BY <1>7, <2>1
<1>8. T = Nat
  BY <1>6, <1>7, NatInductionSet
<1>9. g[N - N] = h[N - N]
  BY <1>0, <1>8
<1> QED BY <1>0, <1>1, <1>5, <1>9 DEF h, len

-----------------------------------------------------------------------------
(***************************************************************************)
(* DriverInv is inductive.  One lemma per action, or per group of actions  *)
(* that leave the device alone.                                            *)
(***************************************************************************)
Copying == {"read_copy", "write_copy"}

\* A step that changes neither the device nor the calls that are copying
\* keeps the parts of the invariant that are about them.
LEMMA Frame ==
  ASSUME DriverInv, UNCHANGED <<loaded, dev>>,
         \A p \in Proc : pc'[p] \in Copying =>
           pc'[p] = pc[p] /\ found'[p] = found[p] /\ chunk'[p] = chunk[p]
  PROVE  RingInv' /\ PartialInv' /\ ReadInv' /\ WriteInv' /\ BlocksOwnedOnce'
<1>1. RingInv' /\ PartialInv' /\ BlocksOwnedOnce'
  BY DEF DriverInv, RingInv, PartialInv, BlocksOwnedOnce, RingPtrs, dev
<1>2. ReadInv'
  BY DEF DriverInv, ReadInv, dev, Copying
<1>3. WriteInv'
  BY DEF DriverInv, WriteInv, dev, Copying
<1> QED BY <1>1, <1>2, <1>3

\* Returning from a call keeps the types of the local variables.
LEMMA ReturnType ==
  ASSUME TypeOK, NEW p \in Proc, Return(p)
  PROVE  /\ pc' \in [Proc -> Label]
         /\ pos' \in [Proc -> Nat]
         /\ chunk' \in [Proc -> Chunk \cup {<<>>}]
         /\ found' \in [Proc -> [slot : Slots, offset : Nat, bytes_read : Nat]]
         /\ end_size' \in [Proc -> Nat]
         /\ user_buf' \in [Proc -> Block]
         /\ pc'[p] = Idle
         /\ \A r \in Proc \ {p} : /\ pc'[r] = pc[r] /\ found'[r] = found[r]
                                  /\ chunk'[r] = chunk[r]
<1>1. NotFound \in [slot : Slots, offset : Nat, bytes_read : Nat]
  BY SlotWraps DEF NotFound
<1>2. <<>> \in Block
  BY DEF Block
<1> QED BY <1>1, <1>2 DEF TypeOK, Return, Idle, Label

\* The zeroed device, with no file open, satisfies the invariant.
LEMMA InitHolds == Init => DriverInv
<1> SUFFICES ASSUME Init PROVE DriverInv
  OBVIOUS
<1>0. aesd_circular_buffer_init \in [entry : [Slots -> Entry], in_offs : Slots,
                       out_offs : Slots, full : BOOLEAN]
  BY SlotWraps DEF aesd_circular_buffer_init, NoEntry, Entry
<1>1. TypeOK
  <2>1. NotFound \in [slot : Slots, offset : Nat, bytes_read : Nat]
    BY SlotWraps DEF NotFound
  <2>2. <<>> \in Block
    BY DEF Block
  <2>3. /\ heap \in [Ptr -> Block] /\ live \in SUBSET Ptr
        /\ is_open \in [File -> BOOLEAN] /\ f_pos \in [File -> Nat]
        /\ loaded \in BOOLEAN /\ buf_entry \in Entry /\ mutex_lock \in Proc \cup {NULL}
    BY <2>2 DEF Init, Entry, NoEntry
  <2>4. /\ pc \in [Proc -> Label]
        /\ pos \in [Proc -> Nat]
        /\ chunk \in [Proc -> Chunk \cup {<<>>}]
        /\ found \in [Proc -> [slot : Slots, offset : Nat, bytes_read : Nat]]
        /\ end_size \in [Proc -> Nat]
        /\ user_buf \in [Proc -> Block]
    BY <2>1, <2>2 DEF Init, Label
  <2> QED BY <1>0, <2>3, <2>4 DEF Init, TypeOK, Label
<1>2. RingInv /\ PartialInv /\ BlocksOwnedOnce
  BY DEF Init, RingInv, PartialInv, BlocksOwnedOnce, RingPtrs, NoEntry,
         aesd_circular_buffer_init
<1>3. LockInv /\ ReadInv /\ WriteInv
  BY DriverAssumption DEF Init, LockInv, ReadInv, WriteInv, Idle, Holding
<1> QED BY <1>1, <1>2, <1>3 DEF DriverInv

\* aesd_init_module keeps the invariant: it zeroes the ring it finds.
LEMMA LoadStep == DriverInv /\ aesd_init_module => DriverInv'
<1> SUFFICES ASSUME DriverInv, aesd_init_module PROVE DriverInv'
  OBVIOUS
<1>0. aesd_circular_buffer_init \in [entry : [Slots -> Entry], in_offs : Slots,
                       out_offs : Slots, full : BOOLEAN]
  BY SlotWraps DEF aesd_circular_buffer_init, NoEntry, Entry
<1>1. TypeOK'
  BY <1>0 DEF DriverInv, TypeOK, aesd_init_module, Entry, NoEntry, files, locals
<1>2. RingInv' /\ PartialInv' /\ BlocksOwnedOnce'
  BY SlotWraps DEF aesd_init_module, RingInv, PartialInv, BlocksOwnedOnce, RingPtrs,
     NoEntry, aesd_circular_buffer_init, Slots
<1>3. \A p \in Proc : pc[p] = Idle
  BY DriverAssumption DEF aesd_init_module, DriverInv, LockInv
<1>4. LockInv' /\ ReadInv' /\ WriteInv'
  BY <1>3 DEF DriverInv, aesd_init_module, LockInv, ReadInv, WriteInv, files, Idle
<1> QED BY <1>1, <1>2, <1>4 DEF DriverInv

\* aesd_cleanup_module keeps the invariant: it frees every block of the
\* ring and nobody is copying, because no file is open.
LEMMA UnloadStep == DriverInv /\ aesd_cleanup_module => DriverInv'
<1> SUFFICES ASSUME DriverInv, aesd_cleanup_module PROVE DriverInv'
  OBVIOUS
<1>1. TypeOK'
  <2>1. circular_buf' \in [entry : [Slots -> Entry], in_offs : Slots,
                       out_offs : Slots, full : BOOLEAN]
    BY DEF DriverInv, TypeOK, aesd_cleanup_module, Entry
  <2>2. heap' \in [Ptr -> Block]
    BY DEF DriverInv, TypeOK, aesd_cleanup_module, Kfree, Block
  <2> QED BY <2>1, <2>2 DEF DriverInv, TypeOK, aesd_cleanup_module, files, locals
<1>2. /\ \A i \in Slots : circular_buf'.entry[i].buffptr = NULL
      /\ circular_buf'.in_offs = circular_buf.in_offs
      /\ circular_buf'.out_offs = circular_buf.out_offs
      /\ circular_buf'.full = circular_buf.full
  BY DEF DriverInv, TypeOK, aesd_cleanup_module, Entry
<1>3. RingInv'
  BY <1>2 DEF DriverInv, RingInv, aesd_cleanup_module
<1>4. RingPtrs' = {}
  BY <1>2 DEF RingPtrs
<1>5. PartialInv' /\ BlocksOwnedOnce'
  BY <1>2, <1>4 DEF DriverInv, TypeOK, PartialInv, BlocksOwnedOnce, aesd_cleanup_module,
     Kfree, Entry
<1>6. \A p \in Proc : pc[p] = Idle
  BY DriverAssumption DEF aesd_cleanup_module, DriverInv, LockInv
<1>7. LockInv' /\ ReadInv' /\ WriteInv'
  BY <1>6 DEF DriverInv, aesd_cleanup_module, LockInv, ReadInv, WriteInv, files, Idle
<1> QED BY <1>1, <1>3, <1>5, <1>7 DEF DriverInv

\* aesd_open and aesd_release keep the invariant.
LEMMA OpenReleaseStep ==
  ASSUME DriverInv, NEW f \in File, aesd_open(f) \/ aesd_release(f)
  PROVE  DriverInv'
<1> USE DEF files, locals
<1>1. TypeOK'
  <2>1. CASE aesd_open(f)
    BY <2>1 DEF DriverInv, TypeOK, aesd_open, dev
  <2>2. CASE aesd_release(f)
    BY <2>2 DEF DriverInv, TypeOK, aesd_release, dev
  <2> QED BY <2>1, <2>2
<1>2. LockInv'
  <2>1. CASE aesd_open(f)
    BY <2>1, DriverAssumption DEF DriverInv, TypeOK, LockInv, aesd_open
  <2>2. CASE aesd_release(f)
    BY <2>2, DriverAssumption DEF DriverInv, TypeOK, LockInv, aesd_release
  <2> QED BY <2>1, <2>2
<1>3. UNCHANGED <<loaded, dev, pc, found, chunk>>
  BY DEF aesd_open, aesd_release
<1>4. RingInv' /\ PartialInv' /\ ReadInv' /\ WriteInv' /\ BlocksOwnedOnce'
  BY <1>3, Frame
<1> QED BY <1>1, <1>2, <1>4 DEF DriverInv

\* Entering read or write keeps the invariant.
LEMMA VfsCallStep ==
  ASSUME DriverInv, NEW p \in Proc, NEW op \in {"read", "write"}, vfs_call(p, op)
  PROVE  DriverInv'
<1> USE DEF files
<1>1. TypeOK'
  BY DriverAssumption DEF DriverInv, TypeOK, vfs_call, dev, Label
<1>2. pc' = [pc EXCEPT ![p] = op] /\ pc \in [Proc -> Label]
  BY DEF vfs_call, DriverInv, TypeOK, Label
<1>3. LockInv'
  <2>1. pc[p] \notin Holding /\ op \notin Holding
    BY DEF vfs_call, Idle, Holding
  <2>2. \A r \in Proc : pc'[r] \in Holding <=> pc[r] \in Holding
    BY <1>2, <2>1
  <2> QED BY <1>2, <2>2 DEF DriverInv, LockInv, vfs_call
<1>4. RingInv' /\ PartialInv' /\ ReadInv' /\ WriteInv' /\ BlocksOwnedOnce'
  <2>1. UNCHANGED <<loaded, dev, found, chunk>>
    BY DEF vfs_call
  <2>2. \A r \in Proc : pc'[r] \in Copying => pc'[r] = pc[r]
    BY <1>2 DEF Copying
  <2> QED BY <2>1, <2>2, Frame
<1> QED BY <1>1, <1>3, <1>4 DEF DriverInv

\* Nobody else holds the mutex while p may take, or holds, it.
LEMMA OthersNotHolding ==
  ASSUME DriverInv, NEW p \in Proc, mutex_lock = NULL \/ pc[p] \in Holding
  PROVE  \A r \in Proc \ {p} : pc[r] \notin Holding
BY DriverAssumption DEF DriverInv, LockInv, Holding

\* Entering llseek or ioctl keeps the invariant.
LEMMA FopsCallStep ==
  ASSUME DriverInv, NEW p \in Proc, NEW op \in {"llseek", "ioctl"}, fops_call(p, op)
  PROVE  DriverInv'
<1> USE DEF files, locals
<1>1. pc' = [pc EXCEPT ![p] = op] /\ pc \in [Proc -> Label] /\ op \in Label \ Holding
  BY DEF fops_call, DriverInv, TypeOK, Label, Holding
<1>2. TypeOK'
  BY <1>1 DEF DriverInv, TypeOK, fops_call, dev
<1>3. LockInv'
  <2>1. pc[p] \notin Holding
    BY DEF fops_call, Idle, Holding
  <2>2. \A r \in Proc : pc'[r] \in Holding <=> pc[r] \in Holding
    BY <1>1, <2>1
  <2> QED BY <1>1, <2>2 DEF DriverInv, LockInv, fops_call
<1>4. RingInv' /\ PartialInv' /\ ReadInv' /\ WriteInv' /\ BlocksOwnedOnce'
  <2>1. UNCHANGED <<loaded, dev, found, chunk>>
    BY DEF fops_call
  <2>2. \A r \in Proc : pc'[r] \in Copying => pc'[r] = pc[r]
    BY <1>1 DEF Copying
  <2> QED BY <2>1, <2>2, Frame
<1> QED BY <1>2, <1>3, <1>4 DEF DriverInv

\* Taking the mutex in llseek or ioctl keeps the invariant: nobody has it.
LEMMA LockStep ==
  ASSUME DriverInv, NEW p \in Proc, NEW from \in {"llseek", "ioctl"},
         NEW to \in {"llseek_locked", "ioctl_locked"}, Lock(p, from, to)
  PROVE  DriverInv'
<1> USE DEF files, locals
<1>1. /\ pc' = [pc EXCEPT ![p] = to] /\ pc \in [Proc -> Label] /\ pc[p] = from
      /\ mutex_lock = NULL /\ mutex_lock' = p /\ to \in Holding /\ to \in Label
  BY DEF Lock, DriverInv, TypeOK, Label, Holding
<1>2. TypeOK'
  BY <1>1 DEF DriverInv, TypeOK, Lock, dev
<1>3. LockInv'
  <2>1. \A r \in Proc \ {p} : pc[r] \notin Holding
    BY <1>1, OthersNotHolding
  <2>2. \A r \in Proc : mutex_lock' = r <=> pc'[r] \in Holding
    BY <1>1, <2>1
  <2>3. pc[p] # Idle
    BY <1>1 DEF Idle
  <2> QED BY <1>1, <2>2, <2>3 DEF DriverInv, LockInv, Lock
<1>4. RingInv' /\ PartialInv' /\ ReadInv' /\ WriteInv' /\ BlocksOwnedOnce'
  <2>1. UNCHANGED <<loaded, dev, found, chunk>>
    BY DEF Lock
  <2>2. \A r \in Proc : pc'[r] \in Copying => pc'[r] = pc[r]
    BY <1>1 DEF Copying
  <2> QED BY <2>1, <2>2, Frame
<1> QED BY <1>2, <1>3, <1>4 DEF DriverInv

\* Steps in which a call returns and the device stays as it is.
LEMMA ReturnStep ==
  ASSUME DriverInv, NEW p \in Proc, Return(p), UNCHANGED <<loaded, dev, is_open>>,
         f_pos' \in [File -> Nat],
         \/ pc[p] \notin Holding /\ UNCHANGED mutex_lock
         \/ pc[p] \in Holding /\ mutex_lock' = NULL
  PROVE  DriverInv'
<1>1. TypeOK'
  BY ReturnType DEF DriverInv, TypeOK, Label, dev
<1>2. LockInv'
  <2>1. \A r \in Proc : mutex_lock' = r <=> pc'[r] \in Holding
    <3>1. ASSUME NEW r \in Proc \ {p}
          PROVE  mutex_lock' = r <=> pc'[r] \in Holding
      <4>1. pc'[r] = pc[r]
        BY ReturnType DEF DriverInv
      <4>2. /\ mutex_lock = r <=> pc[r] \in Holding
            /\ mutex_lock = p <=> pc[p] \in Holding
        BY DEF DriverInv, LockInv
      <4> QED BY <4>1, <4>2, DriverAssumption DEF Holding
    <3>2. mutex_lock' = p <=> pc'[p] \in Holding
      <4>1. pc'[p] = "idle"
        BY ReturnType DEF DriverInv, Idle
      <4>2. mutex_lock = p <=> pc[p] \in Holding
        BY DEF DriverInv, LockInv
      <4> QED BY <4>1, <4>2, DriverAssumption DEF Holding
    <3> QED BY <3>1, <3>2
  <2> QED BY <2>1, ReturnType DEF DriverInv, LockInv
<1>3. RingInv' /\ PartialInv' /\ ReadInv' /\ WriteInv' /\ BlocksOwnedOnce'
  <2>1. \A r \in Proc : pc'[r] \in Copying =>
           pc'[r] = pc[r] /\ found'[r] = found[r] /\ chunk'[r] = chunk[r]
    BY ReturnType DEF DriverInv, Copying, Idle
  <2> QED BY <2>1, Frame
<1> QED BY <1>1, <1>2, <1>3 DEF DriverInv

\* Storing the position when the driver has returned keeps the invariant.
LEMMA StorePosStep ==
  ASSUME DriverInv, NEW p \in Proc, vfs_store_pos(p)
  PROVE  DriverInv'
<1>1. f_pos' \in [File -> Nat]
  BY DriverAssumption DEF DriverInv, TypeOK, vfs_store_pos
<1> QED BY <1>1, ReturnStep DEF vfs_store_pos, Holding

\* Being interrupted while waiting for the mutex keeps the invariant.
LEMMA InterruptedStep ==
  ASSUME DriverInv, NEW p \in Proc, interrupted(p)
  PROVE  DriverInv'
BY ReturnStep DEF interrupted, Holding, files, DriverInv, TypeOK

\* The -EFAULT paths keep the invariant: they give the mutex back.
LEMMA CopyFaultStep ==
  ASSUME DriverInv, NEW p \in Proc, copy_fault(p)
  PROVE  DriverInv'
BY ReturnStep DEF copy_fault, Holding, files, DriverInv, TypeOK

\* The kernel's part of lseek keeps the invariant: positions stay natural.
LEMMA FixedSizeLlseekStep ==
  ASSUME DriverInv, NEW p \in Proc, NEW off, NEW whence, fixed_size_llseek(p, off, whence)
  PROVE  DriverInv'
<1>1. f_pos' \in [File -> Nat]
  <2> DEFINE newpos == CASE whence = "SEEK_SET" -> off
                         [] whence = "SEEK_CUR" -> f_pos[FileOf[p]] + off
                         [] whence = "SEEK_END" -> end_size[p] + off
  <2>1. \/ newpos \in 0..end_size[p] /\ f_pos' = [f_pos EXCEPT ![FileOf[p]] = newpos]
        \/ UNCHANGED f_pos
    BY DEF fixed_size_llseek
  <2> HIDE DEF newpos
  <2>2. end_size[p] \in Nat /\ f_pos \in [File -> Nat]
    BY DEF DriverInv, TypeOK
  <2> QED BY <2>1, <2>2
<1> QED BY <1>1, ReturnStep DEF fixed_size_llseek, Holding

\* A read that finds no entry keeps the invariant.
LEMMA ReadEofStep ==
  ASSUME DriverInv, NEW p \in Proc, aesd_read_eof(p)
  PROVE  DriverInv'
<1> USE DEF files, locals
<1>1. /\ pc' = [pc EXCEPT ![p] = "store_pos"] /\ pc \in [Proc -> Label]
      /\ pc[p] \notin Holding /\ pc[p] # Idle /\ "store_pos" \in Label \ Holding
  BY DEF aesd_read_eof, DriverInv, TypeOK, Label, Holding, Idle
<1>2. TypeOK'
  BY <1>1 DEF DriverInv, TypeOK, aesd_read_eof, dev
<1>3. LockInv'
  <2>1. \A r \in Proc : pc'[r] \in Holding <=> pc[r] \in Holding
    BY <1>1
  <2>2. \A r \in Proc : pc'[r] # Idle => pc[r] # Idle
    BY <1>1
  <2> QED BY <2>1, <2>2 DEF DriverInv, LockInv, aesd_read_eof
<1>4. RingInv' /\ PartialInv' /\ ReadInv' /\ WriteInv' /\ BlocksOwnedOnce'
  <2>1. UNCHANGED <<loaded, dev, found, chunk>>
    BY DEF aesd_read_eof
  <2>2. \A r \in Proc : pc'[r] \in Copying => pc'[r] = pc[r]
    BY <1>1 DEF Copying
  <2> QED BY <2>1, <2>2, Frame
<1> QED BY <1>2, <1>3, <1>4 DEF DriverInv

\* The index the loop of aesd_llseek ends with is a size.
LEMMA ForeachExitNat ==
  ASSUME NEW step \in Nat
  PROVE  ForeachExit(step) \in Nat
BY NAssumption DEF ForeachExit

\* The loop of aesd_llseek and its unlock keep the invariant.
LEMMA LlseekStep ==
  ASSUME DriverInv, NEW p \in Proc, aesd_llseek(p)
  PROVE  DriverInv'
<1> USE DEF files
<1>1. ForeachExit(buf_entry.size) \in Nat
  BY ForeachExitNat DEF DriverInv, TypeOK, Entry
<1>2. TypeOK'
  BY <1>1 DEF DriverInv, TypeOK, aesd_llseek, dev, Label
<1>3. /\ pc' = [pc EXCEPT ![p] = "set_pos"] /\ pc \in [Proc -> Label]
      /\ pc[p] \in Holding /\ pc[p] # Idle /\ mutex_lock' = NULL
  BY DEF aesd_llseek, DriverInv, TypeOK, Label, Holding, Idle
<1>4. LockInv'
  <2>1. \A r \in Proc \ {p} : pc[r] \notin Holding
    BY <1>3, OthersNotHolding
  <2>2. \A r \in Proc : mutex_lock' = r <=> pc'[r] \in Holding
    BY <1>3, <2>1, DriverAssumption DEF Holding
  <2> QED BY <1>3, <2>2 DEF DriverInv, LockInv, aesd_llseek
<1>5. RingInv' /\ PartialInv' /\ ReadInv' /\ WriteInv' /\ BlocksOwnedOnce'
  <2>1. UNCHANGED <<loaded, dev, found, chunk>>
    BY DEF aesd_llseek
  <2>2. \A r \in Proc : pc'[r] \in Copying => pc'[r] = pc[r]
    BY <1>3 DEF Copying
  <2> QED BY <2>1, <2>2, Frame
<1> QED BY <1>2, <1>4, <1>5 DEF DriverInv

\* What the lemmas about the ring need to know of circular_buf.
LEMMA RingTyped ==
  ASSUME TypeOK
  PROVE  /\ circular_buf.out_offs \in Slots /\ circular_buf.in_offs \in Slots
         /\ \A i \in Slots : circular_buf.entry[i].size \in Nat
BY DEF TypeOK, Entry

\* A command that is in range has its bytes in the ring.
LEMMA InRangeSlot ==
  ASSUME DriverInv, NEW cmd \in WriteCmd, NEW off, SeekInRange(cmd, off)
  PROVE  cmd \in Slots
<1>1. cmd \in Nat /\ cmd < AvailableEntries(circular_buf)
  BY SlotWraps DEF WriteCmd, SeekInRange
<1>2. circular_buf.in_offs \in Slots /\ circular_buf.out_offs \in Slots
  BY RingTyped DEF DriverInv
<1>3. AvailableEntries(circular_buf) \in Int /\ AvailableEntries(circular_buf) <= N
  BY <1>2, SlotWraps DEF AvailableEntries, Slots
<1> QED BY <1>1, <1>3, SlotWraps DEF Slots

\* AESDCHAR_IOCSEEKTO keeps the invariant, whether it succeeds or not.
LEMMA IoctlStep ==
  ASSUME DriverInv, NEW p \in Proc, NEW cmd \in WriteCmd, NEW off \in Nat,
         aesd_ioctl(p, cmd, off) \/ aesd_ioctl_invalid(p, cmd, off)
  PROVE  DriverInv'
<1>1. f_pos' \in [File -> Nat]
  <2>1. CASE aesd_ioctl(p, cmd, off)
    <3>1. cmd \in Slots
      BY <2>1, InRangeSlot DEF aesd_ioctl
    <3>2. SkippedBytes(circular_buf, SlotAt(circular_buf, cmd))
            = ComposedLength(circular_buf)[cmd]
      BY <3>1, RingTyped, SkippedBytesSum DEF DriverInv
    <3>3. ComposedLength(circular_buf) \in [0..N -> Nat]
      BY RingTyped, ComposedLengthSum DEF DriverInv
    <3>4. cmd \in 0..N
      BY <3>1, SlotWraps DEF Slots
    <3>5. ComposedLength(circular_buf)[cmd] \in Nat
      BY <3>3, <3>4
    <3>6. SeektoPos(cmd, off) \in Nat
      BY <3>2, <3>5 DEF SeektoPos
    <3>7. f_pos \in [File -> Nat]
      BY DEF DriverInv, TypeOK
    <3> QED BY <2>1, <3>6, <3>7, DriverAssumption DEF aesd_ioctl
  <2>2. CASE aesd_ioctl_invalid(p, cmd, off)
    BY <2>2 DEF aesd_ioctl_invalid, files, DriverInv, TypeOK
  <2> QED BY <2>1, <2>2
<1>2. /\ Return(p) /\ UNCHANGED <<loaded, dev, is_open>>
      /\ pc[p] \in Holding /\ mutex_lock' = NULL
  BY DEF aesd_ioctl, aesd_ioctl_invalid, files, Holding
<1> QED BY <1>1, <1>2, ReturnStep

\* A call under way means that the module is loaded, so a slot with bytes in
\* it has a block of that length.
LEMMA UsedSlot ==
  ASSUME DriverInv, NEW p \in Proc, pc[p] # Idle
  PROVE  /\ loaded
         /\ \A i \in Slots : circular_buf.entry[i].size > 0 =>
              circular_buf.entry[i].buffptr # NULL
         /\ \A i \in Slots : circular_buf.entry[i].buffptr # NULL =>
              /\ circular_buf.entry[i].buffptr \in Ptr
              /\ circular_buf.entry[i].size = Len(heap[circular_buf.entry[i].buffptr])
<1>1. loaded
  BY DriverAssumption DEF DriverInv, LockInv
<1>2. \A i \in Slots : \/ circular_buf.entry[i] = NoEntry
                       \/ /\ circular_buf.entry[i].buffptr # NULL
                          /\ circular_buf.entry[i].size
                               = Len(heap[circular_buf.entry[i].buffptr])
  BY <1>1 DEF DriverInv, RingInv
<1>3. NoEntry.buffptr = NULL /\ NoEntry.size = 0
  BY DEF NoEntry
<1>4. \A i \in Slots : circular_buf.entry[i].buffptr \in Ptr \cup {NULL}
  BY DEF DriverInv, TypeOK, Entry
<1> QED BY <1>1, <1>2, <1>3, <1>4

\* A read that finds its entry takes the mutex with a slice of that entry.
LEMMA ReadFoundStep ==
  ASSUME DriverInv, NEW p \in Proc, NEW count \in ReadCount, aesd_read_found(p, count)
  PROVE  DriverInv'
<1> USE DEF files
<1>1. PICK i \in Slots :
        /\ FoundAt(circular_buf, pos[p], i)
        /\ found' = [found EXCEPT ![p] =
             [slot       |-> SlotAt(circular_buf, i),
              offset     |-> EntryOffset(circular_buf, pos[p], i),
              bytes_read |-> BytesRead(i, p, count)]]
  BY DEF aesd_read_found
<1> DEFINE slot   == SlotAt(circular_buf, i)
           offset == EntryOffset(circular_buf, pos[p], i)
           bytes  == BytesRead(i, p, count)
           size   == circular_buf.entry[slot].size
<1>2. slot \in Slots /\ offset \in Nat /\ offset < size /\ size \in Nat
  <2>1. pos[p] \in Nat
    BY DEF DriverInv, TypeOK
  <2>2. slot \in Slots /\ offset \in Nat /\ offset < size
    BY <1>1, <2>1, RingTyped, FoundInsideEntry DEF DriverInv
  <2> QED BY <2>2, RingTyped DEF DriverInv
<1>3. bytes = IF size - offset > count THEN count ELSE size - offset
  BY DEF BytesRead
<1>4. count \in Nat
  BY DriverAssumption
<1>5. bytes \in Nat /\ offset + bytes <= size
  BY <1>2, <1>3, <1>4
<1>6. found' = [found EXCEPT ![p] = [slot |-> slot, offset |-> offset, bytes_read |-> bytes]]
  BY <1>1
<1> HIDE DEF slot, offset, bytes, size
<1>7. pc' = [pc EXCEPT ![p] = "read_copy"] /\ pc \in [Proc -> Label]
  BY DEF aesd_read_found, DriverInv, TypeOK, Label
<1>8. TypeOK'
  <2>1. found' \in [Proc -> [slot : Slots, offset : Nat, bytes_read : Nat]]
    BY <1>2, <1>5, <1>6 DEF DriverInv, TypeOK
  <2> QED BY <2>1 DEF DriverInv, TypeOK, aesd_read_found, dev, Label
<1>9. \A r \in Proc \ {p} : pc[r] \notin Holding
  BY OthersNotHolding DEF aesd_read_found
<1>10. LockInv'
  <2>1. \A r \in Proc : mutex_lock' = r <=> pc'[r] \in Holding
    BY <1>7, <1>9 DEF aesd_read_found, Holding
  <2> QED BY <1>7, <2>1 DEF DriverInv, LockInv, aesd_read_found, Idle
<1>11. RingInv' /\ PartialInv' /\ BlocksOwnedOnce'
  BY DEF DriverInv, RingInv, PartialInv, BlocksOwnedOnce, RingPtrs, dev, aesd_read_found
<1>12. ReadInv'
  <2>1. circular_buf' = circular_buf
    BY DEF aesd_read_found, dev
  <2>2. \A r \in Proc \ {p} : pc'[r] # "read_copy"
    BY <1>7, <1>9 DEF Holding
  <2>3. found'[p].slot = slot /\ found'[p].offset = offset /\ found'[p].bytes_read = bytes
    BY <1>6 DEF DriverInv, TypeOK
  <2>4. circular_buf.entry[slot].buffptr # NULL
    <3>1. pc[p] # Idle
      BY DEF aesd_read_found, Idle
    <3>2. circular_buf.entry[slot].size > 0
      BY <1>2 DEF size
    <3> QED BY <1>2, <3>1, <3>2, UsedSlot
  <2> QED BY <1>5, <2>1, <2>2, <2>3, <2>4 DEF ReadInv, size
<1>13. WriteInv'
  <2>1. \A r \in Proc : pc'[r] # "write_copy"
    BY <1>7, <1>9 DEF Holding
  <2> QED BY <2>1 DEF WriteInv
<1> QED BY <1>8, <1>10, <1>11, <1>12, <1>13 DEF DriverInv

\* Holding to user space keeps the invariant and gives the mutex back.
LEMMA ReadCopyStep ==
  ASSUME DriverInv, NEW p \in Proc, aesd_read_copy(p)
  PROVE  DriverInv'
<1> USE DEF files
<1> DEFINE hit == found[p]
           ptr == circular_buf.entry[hit.slot].buffptr
           src == heap[ptr]
           out == [k \in 1..hit.bytes_read |-> src[hit.offset + k]]
<1>1. pc[p] = "read_copy" /\ user_buf' = [user_buf EXCEPT ![p] = out]
  BY DEF aesd_read_copy
<1>2. hit.slot \in Slots /\ hit.offset \in Nat /\ hit.bytes_read \in Nat
  BY DEF DriverInv, TypeOK
<1>3. ptr \in Ptr /\ src \in Block /\ hit.offset + hit.bytes_read <= Len(src)
  <2>1. ptr # NULL /\ hit.offset + hit.bytes_read <= circular_buf.entry[hit.slot].size
    BY <1>1 DEF DriverInv, ReadInv
  <2>2. pc[p] # Idle
    BY <1>1 DEF Idle
  <2>3. ptr \in Ptr /\ circular_buf.entry[hit.slot].size = Len(src)
    BY <1>2, <2>1, <2>2, UsedSlot
  <2> QED BY <2>1, <2>3 DEF DriverInv, TypeOK
<1> HIDE DEF src, ptr, hit
<1>4. out \in Block
  <2>1. \A k \in 1..hit.bytes_read : src[hit.offset + k] \in Byte \cup {Uninit}
    BY <1>2, <1>3 DEF Block
  <2> QED BY <1>2, <2>1 DEF Block
<1> HIDE DEF out
<1>5. pos' \in [Proc -> Nat]
  <2>1. pos \in [Proc -> Nat]
    BY DEF DriverInv, TypeOK
  <2>2. pos' = [pos EXCEPT ![p] = @ + hit.bytes_read]
    BY Zenon DEF aesd_read_copy, hit
  <2> QED BY <1>2, <2>1, <2>2
<1>6. TypeOK'
  <2>1. NotFound \in [slot : Slots, offset : Nat, bytes_read : Nat]
    BY SlotWraps DEF NotFound
  <2>2. found' \in [Proc -> [slot : Slots, offset : Nat, bytes_read : Nat]]
    BY <2>1 DEF DriverInv, TypeOK, aesd_read_copy
  <2>3. user_buf' \in [Proc -> Block]
    BY <1>1, <1>4 DEF DriverInv, TypeOK
  <2>4. pc' \in [Proc -> Label]
    BY DEF DriverInv, TypeOK, aesd_read_copy, Label
  <2> QED BY <1>5, <2>2, <2>3, <2>4 DEF DriverInv, TypeOK, aesd_read_copy, dev
<1>7. pc' = [pc EXCEPT ![p] = "store_pos"] /\ pc \in [Proc -> Label]
  BY DEF aesd_read_copy, DriverInv, TypeOK, Label
<1>8. \A r \in Proc \ {p} : pc[r] \notin Holding
  BY <1>1, OthersNotHolding DEF Holding
<1>9. LockInv'
  <2>1. \A r \in Proc : mutex_lock' = r <=> pc'[r] \in Holding
    BY <1>7, <1>8, DriverAssumption DEF aesd_read_copy, Holding
  <2> QED BY <1>1, <1>7, <2>1 DEF DriverInv, LockInv, aesd_read_copy, Idle
<1>10. RingInv' /\ PartialInv' /\ ReadInv' /\ WriteInv' /\ BlocksOwnedOnce'
  <2>1. UNCHANGED <<loaded, dev>>
    BY DEF aesd_read_copy
  <2>2. \A r \in Proc : pc'[r] \notin Copying
    BY <1>7, <1>8 DEF Holding, Copying
  <2> QED BY <2>1, <2>2, Frame
<1> QED BY <1>6, <1>9, <1>10 DEF DriverInv

\* krealloc gives aesd_write a block of its own of the new length, in which
\* the bytes written before are kept.
LEMMA WriteAllocStep ==
  ASSUME DriverInv, NEW p \in Proc, NEW c \in Chunk, aesd_write_alloc(p, c)
  PROVE  DriverInv'
<1> USE DEF files
<1> DEFINE old  == buf_entry.buffptr
           size == buf_entry.size + Len(c)
<1>0. pc[p] = "write" /\ mutex_lock = NULL
  BY DEF aesd_write_alloc
<1>1. PICK q \in IF old = NULL THEN FreePtrs ELSE {old} :
        /\ live' = live \cup {q}
        /\ heap' = [heap EXCEPT ![q] = Resized(IF old = NULL THEN <<>> ELSE @, size)]
        /\ buf_entry' = [buf_entry EXCEPT !.buffptr = q]
  BY DEF aesd_write_alloc
<1>2. q \in Ptr /\ q # NULL /\ q \notin RingPtrs
  BY <1>1, DriverAssumption DEF DriverInv, TypeOK, BlocksOwnedOnce, FreePtrs, Entry
<1>3. Len(c) \in Nat /\ size \in Nat /\ buf_entry.size \in Nat /\ buf_entry.size <= size
  <2>1. Len(c) \in Nat
    BY DriverAssumption
  <2>2. buf_entry.size \in Nat
    BY DEF DriverInv, TypeOK, Entry
  <2> QED BY <2>1, <2>2
<1> DEFINE kept == IF old = NULL THEN <<>> ELSE heap[q]
<1>4. Resized(kept, size) \in Block /\ Len(Resized(kept, size)) = size
  <2>1. kept \in Seq(Byte \cup {Uninit})
    BY <1>2 DEF DriverInv, TypeOK, Block
  <2> HIDE DEF size, kept
  <2> QED BY <1>3, <2>1 DEF Resized, Block
<1> HIDE DEF size
<1>5. /\ heap' = [heap EXCEPT ![q] = Resized(kept, size)]
      /\ heap \in [Ptr -> Block] /\ heap' \in [Ptr -> Block]
      /\ heap'[q] = Resized(kept, size)
      /\ \A x \in Ptr \ {q} : heap'[x] = heap[x]
  BY <1>1, <1>2, <1>4 DEF DriverInv, TypeOK
<1> HIDE DEF kept
<1>6. /\ buf_entry'.buffptr = q /\ buf_entry'.size = buf_entry.size /\ buf_entry' \in Entry
      /\ live' \in SUBSET Ptr /\ live \subseteq live' /\ q \in live'
  BY <1>1, <1>2 DEF DriverInv, TypeOK, Entry
<1>7. /\ pc' = [pc EXCEPT ![p] = "write_copy"] /\ pc \in [Proc -> Label]
      /\ chunk' = [chunk EXCEPT ![p] = c] /\ chunk \in [Proc -> Chunk \cup {<<>>}]
      /\ UNCHANGED <<loaded, circular_buf>>
  BY DEF aesd_write_alloc, DriverInv, TypeOK, Label
<1>8. TypeOK'
  BY <1>5, <1>6, <1>7 DEF DriverInv, TypeOK, aesd_write_alloc, Label
<1>9. \A r \in Proc \ {p} : pc[r] \notin Holding
  BY <1>0, OthersNotHolding
<1>10. LockInv'
  <2>1. \A r \in Proc : mutex_lock' = r <=> pc'[r] \in Holding
    BY <1>7, <1>9 DEF aesd_write_alloc, Holding
  <2> QED BY <1>0, <1>7, <2>1 DEF DriverInv, LockInv, aesd_write_alloc, Idle
<1>11. \A i \in Slots : circular_buf.entry[i].buffptr # NULL =>
         circular_buf.entry[i].buffptr \in Ptr \ {q}
  BY <1>2 DEF DriverInv, TypeOK, RingPtrs, Entry
<1>12. RingInv'
  BY <1>5, <1>7, <1>11 DEF DriverInv, RingInv
<1>13. PartialInv' /\ WriteInv'
  <2>1. \A r \in Proc \ {p} : pc'[r] # "write_copy"
    BY <1>7, <1>9 DEF Holding
  <2>2. chunk'[p] = c
    BY <1>7
  <2>3. Len(heap'[q]) = size
    BY <1>4, <1>5
  <2> QED BY <1>2, <1>3, <1>6, <2>1, <2>2, <2>3 DEF PartialInv, WriteInv, size
<1>14. ReadInv'
  <2>1. \A r \in Proc : pc'[r] # "read_copy"
    BY <1>7, <1>9 DEF Holding
  <2> QED BY <2>1 DEF ReadInv
<1>15. BlocksOwnedOnce'
  BY <1>2, <1>6, <1>7 DEF DriverInv, BlocksOwnedOnce, RingPtrs
<1> QED BY <1>8, <1>10, <1>12, <1>13, <1>14, <1>15 DEF DriverInv

\* The -ENOMEM path keeps the invariant: the lost block has no owner.
LEMMA WriteEnomemStep ==
  ASSUME DriverInv, NEW p \in Proc, aesd_write_enomem(p)
  PROVE  DriverInv'
<1> USE DEF files
<1>0. Return(p) /\ pc[p] = "write" /\ mutex_lock = NULL
  BY DEF aesd_write_enomem
<1>1. buf_entry' \in Entry /\ buf_entry'.buffptr = NULL
  BY DEF DriverInv, TypeOK, aesd_write_enomem, Entry
<1>2. TypeOK'
  BY <1>0, <1>1, ReturnType DEF DriverInv, TypeOK, aesd_write_enomem, Label
<1>3. \A r \in Proc : pc'[r] \notin Holding
  BY <1>0, ReturnType, OthersNotHolding DEF DriverInv, Idle, Holding
<1>4. LockInv'
  <2>1. \A r \in Proc : mutex_lock' = r <=> pc'[r] \in Holding
    BY <1>0, <1>3, DriverAssumption DEF aesd_write_enomem, Holding
  <2>2. \A r \in Proc : pc'[r] = pc[r] \/ pc'[r] = Idle
    BY <1>0, ReturnType DEF DriverInv
  <2> QED BY <2>1, <2>2 DEF DriverInv, LockInv, aesd_write_enomem
<1>5. RingInv' /\ PartialInv' /\ BlocksOwnedOnce'
  BY <1>1 DEF DriverInv, RingInv, PartialInv, BlocksOwnedOnce, RingPtrs, aesd_write_enomem
<1>6. ReadInv' /\ WriteInv'
  BY <1>3 DEF ReadInv, WriteInv, Holding
<1> QED BY <1>2, <1>4, <1>5, <1>6 DEF DriverInv

\* What aesd_write has at hand when the bytes of a write are to be copied: a
\* block of its own, of the right length; and what it holds afterwards.
LEMMA WriteReady ==
  ASSUME DriverInv, NEW p \in Proc, pc[p] = "write_copy"
  PROVE  /\ loaded
         /\ chunk[p] \in Chunk /\ chunk[p] \in Seq(Byte) /\ Len(chunk[p]) \in Nat
         /\ buf_entry.size \in Nat
         /\ buf_entry.buffptr \in Ptr /\ buf_entry.buffptr # NULL
         /\ buf_entry.buffptr \in live /\ buf_entry.buffptr \notin RingPtrs
         /\ heap[buf_entry.buffptr] \in Seq(Byte \cup {Uninit})
         /\ Len(heap[buf_entry.buffptr]) = buf_entry.size + Len(chunk[p])
         /\ Filled(heap[buf_entry.buffptr], buf_entry.size, chunk[p]) \in Block
         /\ Len(Filled(heap[buf_entry.buffptr], buf_entry.size, chunk[p]))
              = buf_entry.size + Len(chunk[p])
<1> DEFINE q == buf_entry.buffptr
           n == buf_entry.size
           c == chunk[p]
<1>1. loaded
  BY UsedSlot DEF Idle
<1>2. c \in Chunk /\ q # NULL /\ Len(heap[q]) = n + Len(c)
  BY DEF DriverInv, WriteInv
<1>3. c \in Seq(Byte) /\ Len(c) \in Nat
  BY <1>2, DriverAssumption
<1>4. n \in Nat /\ q \in Ptr
  BY <1>2 DEF DriverInv, TypeOK, Entry
<1>5. q \in live /\ q \notin RingPtrs
  BY <1>2 DEF DriverInv, BlocksOwnedOnce
<1>6. heap[q] \in Seq(Byte \cup {Uninit})
  BY <1>4 DEF DriverInv, TypeOK, Block
<1> HIDE DEF q, n, c
<1>7. Filled(heap[q], n, c) \in Block /\ Len(Filled(heap[q], n, c)) = n + Len(c)
  <2>1. \A i \in 1..(n + Len(c)) :
          (IF i <= n THEN heap[q][i] ELSE c[i - n]) \in Byte \cup {Uninit}
    BY <1>2, <1>3, <1>4, <1>6
  <2> QED BY <1>3, <1>4, <2>1 DEF Filled, Block
<1> QED BY <1>1, <1>2, <1>3, <1>4, <1>5, <1>6, <1>7 DEF q, n, c

\* The parts of the invariant about processes, after any write.
LEMMA WriteCopyProcs ==
  ASSUME DriverInv, NEW p \in Proc, aesd_write_copy(p)
  PROVE  LockInv' /\ ReadInv' /\ WriteInv'
<1> USE DEF files
<1>0. pc[p] = "write_copy"
  BY DEF aesd_write_copy
<1>1. pc' = [pc EXCEPT ![p] = "store_pos"] /\ pc \in [Proc -> Label]
  BY DEF aesd_write_copy, DriverInv, TypeOK, Label
<1>2. \A r \in Proc : pc'[r] \notin Holding
  BY <1>0, <1>1, OthersNotHolding DEF Holding
<1>3. mutex_lock' = NULL /\ UNCHANGED <<loaded, is_open>>
  BY DEF aesd_write_copy
<1>4. LockInv'
  BY <1>0, <1>1, <1>2, <1>3, DriverAssumption DEF DriverInv, LockInv, Holding, Idle
<1> QED BY <1>2, <1>4 DEF ReadInv, WriteInv, Holding

\* A write that does not complete a command keeps the invariant.
LEMMA WritePartialStep ==
  ASSUME DriverInv, NEW p \in Proc, aesd_write_copy(p),
         chunk[p][Len(chunk[p])] # NL
  PROVE  DriverInv'
<1> USE DEF files
<1> DEFINE q == buf_entry.buffptr
           size == buf_entry.size + Len(chunk[p])
           bytes == Filled(heap[q], buf_entry.size, chunk[p])
<1>0. pc[p] = "write_copy"
  BY DEF aesd_write_copy
<1>1. /\ q \in Ptr /\ q # NULL /\ q \in live /\ q \notin RingPtrs
      /\ size \in Nat /\ bytes \in Block /\ Len(bytes) = size
  BY <1>0, WriteReady
<1>2. /\ heap' = [heap EXCEPT ![q] = bytes]
      /\ buf_entry' = [buf_entry EXCEPT !.size = size]
      /\ UNCHANGED <<loaded, circular_buf, live>>
  BY DEF aesd_write_copy
<1> HIDE DEF size, bytes
<1>3. heap' \in [Ptr -> Block] /\ heap'[q] = bytes /\ \A x \in Ptr \ {q} : heap'[x] = heap[x]
  BY <1>1, <1>2 DEF DriverInv, TypeOK
<1>4. buf_entry' \in Entry /\ buf_entry'.buffptr = q /\ buf_entry'.size = size
  BY <1>1, <1>2 DEF DriverInv, TypeOK, Entry
<1>5. TypeOK'
  BY <1>2, <1>3, <1>4 DEF DriverInv, TypeOK, aesd_write_copy, Label
<1>6. \A i \in Slots : circular_buf.entry[i].buffptr # NULL =>
        circular_buf.entry[i].buffptr \in Ptr \ {q}
  BY <1>1 DEF DriverInv, TypeOK, RingPtrs, Entry
<1>7. RingInv'
  BY <1>2, <1>3, <1>6 DEF DriverInv, RingInv
<1>8. PartialInv'
  BY <1>1, <1>3, <1>4 DEF PartialInv
<1>9. BlocksOwnedOnce'
  BY <1>1, <1>2, <1>4 DEF DriverInv, BlocksOwnedOnce, RingPtrs
<1> QED BY <1>5, <1>7, <1>8, <1>9, WriteCopyProcs DEF DriverInv

\* A write that completes a command keeps the invariant: the block moves
\* into the ring, and the only one freed is the one it replaces.
LEMMA WriteCommandStep ==
  ASSUME DriverInv, NEW p \in Proc, aesd_write_copy(p),
         chunk[p][Len(chunk[p])] = NL
  PROVE  DriverInv'
<1> USE DEF files
<1> DEFINE q == buf_entry.buffptr
           size == buf_entry.size + Len(chunk[p])
           bytes == Filled(heap[q], buf_entry.size, chunk[p])
           b == circular_buf
           in == circular_buf.in_offs
           old == {OldPtr(circular_buf)} \ {NULL}
<1>0. pc[p] = "write_copy"
  BY DEF aesd_write_copy
<1>1. /\ loaded /\ q \in Ptr /\ q # NULL /\ q \in live /\ q \notin RingPtrs
      /\ size \in Nat /\ bytes \in Block /\ Len(bytes) = size
  BY <1>0, WriteReady
<1>2. /\ circular_buf' = aesd_circular_buffer_add_entry(b, [buffptr |-> q, size |-> size])
      /\ live' = live \ old
      /\ heap' = Kfree([heap EXCEPT ![q] = bytes], old)
      /\ buf_entry' = NoEntry
      /\ UNCHANGED loaded
  BY DEF aesd_write_copy, AfterCommand
<1> HIDE DEF size, bytes
<1>3. /\ b.entry \in [Slots -> Entry] /\ in \in Slots /\ b.out_offs \in Slots
      /\ b.full \in BOOLEAN
      /\ N \in Nat /\ N > 0 /\ Slots = 0..(N - 1)
  BY SlotWraps DEF DriverInv, TypeOK, Slots
<1>4. /\ circular_buf'.entry = [b.entry EXCEPT ![in] = [buffptr |-> q, size |-> size]]
      /\ circular_buf'.in_offs = (in + 1) % N
      /\ circular_buf'.out_offs = (IF b.full THEN (b.out_offs + 1) % N ELSE b.out_offs)
      /\ circular_buf'.full = (b.full \/ (in + 1) % N = 0)
  BY <1>2 DEF aesd_circular_buffer_add_entry, AdvanceOut
<1>5. /\ circular_buf'.entry[in] = [buffptr |-> q, size |-> size]
      /\ \A i \in Slots \ {in} : circular_buf'.entry[i] = b.entry[i]
  BY <1>3, <1>4
<1>6. /\ old \subseteq RingPtrs /\ q \notin old
      /\ \A i \in Slots \ {in} : b.entry[i].buffptr \notin old
  <2>1. old \subseteq {b.entry[in].buffptr} \ {NULL}
    BY DEF OldPtr
  <2> QED BY <1>1, <1>3, <2>1 DEF DriverInv, BlocksOwnedOnce, RingPtrs
<1>7. /\ heap' \in [Ptr -> Block] /\ heap'[q] = bytes
      /\ \A x \in Ptr : x # q /\ x \notin old => heap'[x] = heap[x]
  <2>1. <<>> \in Block
    BY DEF Block
  <2> QED BY <1>1, <1>2, <1>6, <2>1 DEF DriverInv, TypeOK, Kfree
<1> HIDE DEF old
<1>8. TypeOK'
  <2>1. circular_buf' \in [entry : [Slots -> Entry], in_offs : Slots,
                           out_offs : Slots, full : BOOLEAN]
    <3>1. [buffptr |-> q, size |-> size] \in Entry
      BY <1>1 DEF Entry
    <3>2. (in + 1) % N \in Slots /\ (b.out_offs + 1) % N \in Slots
      BY <1>3, SlotSuccessor
    <3>3. circular_buf'.entry \in [Slots -> Entry]
      BY <1>3, <1>4, <3>1
    <3> QED BY <1>2, <1>3, <1>4, <3>2, <3>3
            DEF aesd_circular_buffer_add_entry, AdvanceOut
  <2>2. chunk' \in [Proc -> Chunk \cup {<<>>}] /\ pc' \in [Proc -> Label]
    BY DEF DriverInv, TypeOK, aesd_write_copy, Label
  <2>3. buf_entry' \in Entry /\ live' \in SUBSET Ptr
    BY <1>2 DEF DriverInv, TypeOK, NoEntry, Entry
  <2> QED BY <1>7, <2>1, <2>2, <2>3 DEF DriverInv, TypeOK, aesd_write_copy, Label
<1>9. /\ IF circular_buf'.full THEN circular_buf'.in_offs = circular_buf'.out_offs
                               ELSE circular_buf'.out_offs = 0
      /\ \A i \in Slots : circular_buf'.full \/ i < circular_buf'.in_offs
           <=> i = in \/ b.full \/ i < in
  <2>1. IF b.full THEN in = b.out_offs ELSE b.out_offs = 0
    BY DEF DriverInv, RingInv
  <2>2. (in + 1) % N = IF in + 1 = N THEN 0 ELSE in + 1
    BY <1>3, SlotWraps
  <2> DEFINE next == (in + 1) % N
  <2>3. next = IF in + 1 = N THEN 0 ELSE in + 1
    BY <2>2
  <2>4. /\ circular_buf'.in_offs = next
        /\ circular_buf'.out_offs = IF b.full THEN next ELSE 0
        /\ circular_buf'.full = (b.full \/ next = 0)
    BY <1>4, <2>1
  <2> HIDE DEF next
  <2>5. CASE b.full
    BY <2>4, <2>5
  <2>6. CASE ~b.full /\ in + 1 = N
    <3>1. next = 0 /\ circular_buf'.full /\ circular_buf'.in_offs = 0 /\ circular_buf'.out_offs = 0
      BY <2>3, <2>4, <2>6
    <3>2. \A i \in Slots : i = in \/ i < in
      BY <1>3, <2>6
    <3> QED BY <3>1, <3>2
  <2>7. CASE ~b.full /\ in + 1 # N
    <3>1. next = in + 1 /\ next # 0
      BY <1>3, <2>3, <2>7
    <3>2. ~circular_buf'.full /\ circular_buf'.in_offs = in + 1 /\ circular_buf'.out_offs = 0
      BY <2>4, <2>7, <3>1
    <3>3. \A i \in Slots : i < in + 1 <=> i = in \/ i < in
      BY <1>3
    <3> QED BY <2>7, <3>2, <3>3
  <2> QED BY <2>5, <2>6, <2>7
<1>10. ASSUME NEW i \in Slots
       PROVE  IF circular_buf'.full \/ i < circular_buf'.in_offs
              THEN /\ circular_buf'.entry[i].buffptr # NULL
                   /\ circular_buf'.entry[i].size = Len(heap'[circular_buf'.entry[i].buffptr])
              ELSE circular_buf'.entry[i] = NoEntry
  <2>1. CASE i = in
    BY <1>1, <1>5, <1>7, <1>9, <2>1
  <2>2. CASE i # in
    <3>1. circular_buf'.entry[i] = b.entry[i]
      BY <1>5, <2>2
    <3>2. IF b.full \/ i < in
          THEN b.entry[i].buffptr # NULL /\ b.entry[i].size = Len(heap[b.entry[i].buffptr])
          ELSE b.entry[i] = NoEntry
      BY <1>1 DEF DriverInv, RingInv
    <3>3. b.entry[i].buffptr # NULL => heap'[b.entry[i].buffptr] = heap[b.entry[i].buffptr]
      BY <1>1, <1>3, <1>6, <1>7, <2>2 DEF RingPtrs, Entry
    <3> QED BY <1>9, <2>2, <3>1, <3>2, <3>3
  <2> QED BY <2>1, <2>2
<1>11. RingInv'
  BY <1>9, <1>10 DEF RingInv
<1>12. PartialInv'
  BY <1>2 DEF PartialInv, NoEntry
<1>13. BlocksOwnedOnce'
  <2>1. \A i \in Slots : circular_buf'.entry[i].buffptr # NULL =>
          circular_buf'.entry[i].buffptr \in live'
    <3> SUFFICES ASSUME NEW i \in Slots, circular_buf'.entry[i].buffptr # NULL
                 PROVE  circular_buf'.entry[i].buffptr \in live'
      OBVIOUS
    <3>1. CASE i = in
      BY <1>1, <1>2, <1>5, <1>6, <3>1
    <3>2. CASE i # in
      BY <1>2, <1>5, <1>6, <3>2 DEF DriverInv, BlocksOwnedOnce, RingPtrs
    <3> QED BY <3>1, <3>2
  <2>2. \A i, j \in Slots : i # j =>
          \/ circular_buf'.entry[i].buffptr = NULL
          \/ circular_buf'.entry[i].buffptr # circular_buf'.entry[j].buffptr
    <3>1. \A i \in Slots \ {in} : circular_buf'.entry[i].buffptr # q
      BY <1>1, <1>5 DEF RingPtrs
    <3>2. \A i, j \in Slots \ {in} : i # j =>
            \/ circular_buf'.entry[i].buffptr = NULL
            \/ circular_buf'.entry[i].buffptr # circular_buf'.entry[j].buffptr
      BY <1>5 DEF DriverInv, BlocksOwnedOnce
    <3>3. circular_buf'.entry[in].buffptr = q
      BY <1>5
    <3> QED BY <3>1, <3>2, <3>3
  <2> QED BY <1>2, <2>1, <2>2 DEF BlocksOwnedOnce, RingPtrs, NoEntry
<1> QED BY <1>8, <1>11, <1>12, <1>13, WriteCopyProcs DEF DriverInv

-----------------------------------------------------------------------------
\* Every step of the driver keeps the invariant.
LEMMA NextStep == DriverInv /\ [Next]_vars => DriverInv'
<1> SUFFICES ASSUME DriverInv, [Next]_vars PROVE DriverInv'
  OBVIOUS
<1>1. CASE aesd_init_module
  BY <1>1, LoadStep
<1>2. CASE aesd_cleanup_module
  BY <1>2, UnloadStep
<1>3. CASE \E f \in File : aesd_open(f) \/ aesd_release(f)
  BY <1>3, OpenReleaseStep
<1>4. ASSUME NEW p \in Proc, Step(p) PROVE DriverInv'
  <2>1. CASE \E op \in {"read", "write"} : vfs_call(p, op)
    BY <2>1, VfsCallStep
  <2>11. CASE \E op \in {"llseek", "ioctl"} : fops_call(p, op)
    BY <2>11, FopsCallStep
  <2>2. CASE vfs_store_pos(p) \/ interrupted(p) \/ copy_fault(p)
    BY <2>2, StorePosStep, InterruptedStep, CopyFaultStep
  <2>3. CASE \E count \in ReadCount : aesd_read_found(p, count)
    BY <2>3, ReadFoundStep
  <2>4. CASE aesd_read_eof(p) \/ aesd_read_copy(p)
    BY <2>4, ReadEofStep, ReadCopyStep
  <2>5. CASE \E c \in Chunk : aesd_write_alloc(p, c)
    BY <2>5, WriteAllocStep
  <2>6. CASE aesd_write_enomem(p)
    BY <2>6, WriteEnomemStep
  <2>7. CASE aesd_write_copy(p)
    BY <2>7, WritePartialStep, WriteCommandStep
  <2>8. CASE aesd_llseek_lock(p) \/ aesd_ioctl_lock(p)
    BY <2>8, LockStep DEF aesd_llseek_lock, aesd_ioctl_lock
  <2>12. CASE aesd_llseek(p)
    BY <2>12, LlseekStep
  <2>9. CASE \E off \in SeekOff, whence \in {"SEEK_SET", "SEEK_CUR", "SEEK_END"} :
               fixed_size_llseek(p, off, whence)
    BY <2>9, FixedSizeLlseekStep
  <2>10. CASE \E cmd \in WriteCmd, off \in SeekOff \cap Nat :
                aesd_ioctl(p, cmd, off) \/ aesd_ioctl_invalid(p, cmd, off)
    BY <2>10, IoctlStep
  <2> QED BY <1>4, <2>1, <2>2, <2>3, <2>4, <2>5, <2>6, <2>7, <2>8, <2>9, <2>10, <2>11,
             <2>12 DEF Step
<1>5. CASE UNCHANGED vars
  <2>1. UNCHANGED <<loaded, dev, pc, found, chunk>>
    BY <1>5 DEF vars, locals
  <2>2. TypeOK' /\ LockInv'
    BY <1>5 DEF DriverInv, TypeOK, LockInv, vars, dev, files, locals
  <2> QED BY <2>1, <2>2, Frame DEF DriverInv
<1> QED BY <1>1, <1>2, <1>3, <1>4, <1>5 DEF Next

\* The driver's invariant holds in every reachable state, whatever the number
\* of slots, processes, files and blocks, with failing allocations, faulting
\* copies and interrupted locks.
THEOREM DriverSafe == Spec => []DriverInv
<1>1. Init => DriverInv
  BY InitHolds
<1>2. DriverInv /\ [Next]_vars => DriverInv'
  BY NextStep
<1> QED BY <1>1, <1>2, PTL DEF Spec

\* Every variable of the driver keeps its type.
THEOREM DriverTyped == Spec => []TypeOK
<1>1. DriverInv => TypeOK
  BY DEF DriverInv
<1> QED BY <1>1, DriverSafe, PTL

\* No block is owned twice, and none that is owned has been freed.
THEOREM DriverOwnsBlocksOnce == Spec => []BlocksOwnedOnce
<1>1. DriverInv => BlocksOwnedOnce
  BY DEF DriverInv
<1> QED BY <1>1, DriverSafe, PTL

\* No copy between kernel and user space leaves the block it works on.
THEOREM DriverCopiesInBounds == Spec => []CopyInBounds
<1>1. DriverInv => CopyInBounds
  <2> SUFFICES ASSUME DriverInv, NEW p \in Proc
               PROVE  /\ pc[p] = "read_copy" =>
                           LET e == circular_buf.entry[found[p].slot]
                           IN  /\ e.buffptr \in live
                               /\ found[p].offset + found[p].bytes_read
                                    <= Len(heap[e.buffptr])
                      /\ pc[p] = "write_copy" =>
                           /\ buf_entry.buffptr \in live
                           /\ buf_entry.size + Len(chunk[p]) = Len(heap[buf_entry.buffptr])
    BY DEF CopyInBounds
  <2>1. CASE pc[p] = "read_copy"
    <3>1. pc[p] # Idle /\ found[p].slot \in Slots
      BY <2>1 DEF Idle, DriverInv, TypeOK
    <3>2. LET e == circular_buf.entry[found[p].slot]
          IN  e.buffptr # NULL /\ found[p].offset + found[p].bytes_read <= e.size
      BY <2>1 DEF DriverInv, ReadInv
    <3> QED BY <2>1, <3>1, <3>2, UsedSlot DEF DriverInv, BlocksOwnedOnce, RingPtrs
  <2>2. CASE pc[p] = "write_copy"
    BY <2>2, WriteReady
  <2> QED BY <2>1, <2>2
<1> QED BY <1>1, DriverSafe, PTL

\* A seek to a byte of a command takes reads to that byte of that command, for
\* every number of slots and wherever the ring has wrapped.
THEOREM SeektoCorrect == Spec => SeektoAgreesWithRead
<1> DEFINE Agrees(p, cmd, off) ==
             /\ FoundAt(circular_buf, f_pos'[FileOf[p]], cmd)
             /\ EntryOffset(circular_buf, f_pos'[FileOf[p]], cmd) = off
<1>1. ASSUME DriverInv, NEW p \in Proc, NEW cmd \in Slots, NEW off \in SeekOff \cap Nat,
             aesd_ioctl(p, cmd, off),
             off < circular_buf.entry[SlotAt(circular_buf, cmd)].size
      PROVE  Agrees(p, cmd, off)
  <2> DEFINE b == circular_buf
             len == ComposedLength(circular_buf)
  <2>0. N \in Nat /\ cmd \in 0..N /\ cmd + 1 \in 0..N
    BY SlotWraps DEF Slots
  <2>1. b.out_offs \in Slots /\ \A i \in Slots : b.entry[i].size \in Nat
    BY <1>1, RingTyped DEF DriverInv
  <2>2. /\ len \in [0..N -> Nat]
        /\ len[cmd + 1] = len[cmd] + b.entry[SlotAt(b, cmd)].size
    BY <2>1, ComposedLengthSum
  <2>3. f_pos'[FileOf[p]] = len[cmd] + off
    <3>1. SkippedBytes(b, SlotAt(b, cmd)) = len[cmd]
      BY <2>1, SkippedBytesSum
    <3>2. f_pos' = [f_pos EXCEPT ![FileOf[p]] = SkippedBytes(b, SlotAt(b, cmd)) + off]
      BY <1>1 DEF aesd_ioctl, SeektoPos
    <3>3. f_pos \in [File -> Nat] /\ FileOf[p] \in File
      BY <1>1, DriverAssumption DEF DriverInv, TypeOK
    <3> QED BY <3>1, <3>2, <3>3
  <2>4. \A j \in 0..(cmd - 1) : len[j + 1] <= len[cmd]
    <3>1. \A j \in 0..(cmd - 1) : j + 1 \in 0..N /\ j + 1 <= cmd
      BY <2>0
    <3> QED BY <2>0, <2>1, <3>1, ComposedLengthMonotone
  <2> HIDE DEF len, b
  <2>5. b.entry[SlotAt(b, cmd)].size \in Nat /\ off < b.entry[SlotAt(b, cmd)].size
    BY <1>1, <2>1, SlotAtInjective DEF b
  <2>6. len[cmd + 1] > len[cmd] + off /\ len[cmd] \in Nat /\ off \in Nat
    BY <2>0, <2>2, <2>5
  <2>7. \A j \in 0..(cmd - 1) : len[j + 1] <= len[cmd] + off
    <3>1. \A j \in 0..(cmd - 1) : j + 1 \in 0..N
      BY <2>0
    <3>2. \A j \in 0..(cmd - 1) : len[j + 1] \in Nat
      BY <2>2, <3>1
    <3> QED BY <2>4, <2>6, <3>2
  <2> QED BY <2>3, <2>6, <2>7 DEF FoundAt, EntryOffset, len, b
<1>2. DriverInv =>
        [\A p \in Proc, cmd \in Slots, off \in SeekOff \cap Nat :
           /\ aesd_ioctl(p, cmd, off)
           /\ off < circular_buf.entry[SlotAt(circular_buf, cmd)].size
           => Agrees(p, cmd, off)]_vars
  BY <1>1
<1> QED BY <1>2, DriverSafe, PTL DEF SeektoAgreesWithRead
=============================================================================
