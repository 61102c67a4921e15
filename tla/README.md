# A TLA+ model of the AESD socket server and character driver

The repository is coursework that adds up to a small system: a kernel module
that keeps the last ten commands written to `/dev/aesdchar`
(`aesd-char-driver/`), a multi-threaded TCP server that stores what its clients
send in that device (or, built differently, in a plain file with time stamps)
and sends the contents back (`server/`), and a number of exercises and scripts.
This directory models the driver, the server and the two exercises in which
processes or threads interact, checks them with TLC and proves the driver's
safety with TLAPS.

## The system

| component | state | operations | hard because |
|---|---|---|---|
| circular buffer (`aesd-circular-buffer.c`) | ten entries, `in_offs`, `out_offs`, `full` | init, add an entry, find the entry for a file position | wrapping, eviction, positions on entry boundaries |
| driver (`main.c`) | the ring, the command being written (`buf_entry`), one mutex, the blocks it owns, `f_pos` per open file | load, unload, open, release, read, write, llseek, ioctl | several processes; copies and allocations sleep and fail; the kernel keeps its own copy of `f_pos` |
| server (`aesdsocket.c`) | `is_active`, the listening socket, per connection `client_thread_data_t`, a thread and a stdio stream, `file_mutex` | accept, handle a connection, reap, clean up, signal handler | threads, signals at any point, memory shared between main and the threads, clients that stop or go away |
| thread queue (`thread_queue.c`) | a linked list of thread instances, its `head` | enqueue, dequeue, remove, get the head | elements are removed while the list is walked |
| timer (`aesdsocket.c`, file build) | a thread per expiry | append a time stamp every ten seconds | runs beside the handlers and beside main's exit; nobody joins it |
| system calls (`examples/systemcalls/`) | the caller's descriptors and its stdout buffer, a child per call | `do_system`, `do_exec`, `do_exec_redirect` | `fork` copies buffers, children outlive an interrupted `waitpid` |
| threading (`examples/threading/`) | a `thread_data` per thread, the caller's mutex | start a thread that takes the mutex; join | memory handed from starter to thread to joiner |
| `finder-app/`, `examples/autotest-validate/` | none | file utilities, constant functions | not modelled |
| scripts | none | build, boot, load, start | not modelled |

The server's handlers use the driver through stdio: `fopen(..., "a+")`,
`fwrite`, `ioctl`, `fread`, `fclose` on a stream of their own, all under
`file_mutex`. Main and a handler share the handler's `client_thread_data_t`;
main and the signal handler share `is_active` and `sockfd`.

What makes the components correct: the device is a queue of the last N commands
and nothing else (no byte lost, doubled or torn, no memory misused); a read
delivers a slice of it, a seek finds the byte it names; a client's packet stays
in one piece and comes back at the end of its reply; every client is served, a
signal ends the server, and each thread's data is freed once, after its last
use, and the list main keeps is the sequence of the threads not yet reaped; a
call of the exercises answers for its own child or thread and for no other.
`PROJECT.json` lists the hazards, line by line, with the properties that
are aimed at them.

## Modules

* `CircularBuffer` - `struct aesd_circular_buffer` as a record and the
  functions of `aesd-circular-buffer.c` as operators on it. The search loop is
  the recursive function `ComposedLength`; `FoundAt(b, pos, i)` says that round
  `i` returns. The `FOREACH` macro is modelled with the misuse `aesd_llseek`
  makes of it (`ForeachVisits`, `ForeachExit`).
* `CommandLog` - the abstract specification: a log of at most N commands and
  the unfinished one. `Write` appends or completes and evicts, `Forget` is what
  a failed allocation does to the unfinished command, `Reset` what unloading
  does.
* `AesdChar` - the driver. A system call is a sequence of steps of a process,
  cut where the code may sleep or another process may interfere: `vfs_call`
  (the kernel copies `f_pos`), the part under the mutex up to the copy
  (`aesd_read_found`, `aesd_write_alloc`), the copy and the rest
  (`aesd_read_copy`, `aesd_write_copy`), `vfs_store_pos`. `llseek` and `ioctl`
  wait for the mutex too and hold it for a step (`aesd_llseek_lock`, then
  `aesd_llseek`, which ends with the unlock; `aesd_ioctl_lock`, then
  `aesd_ioctl`); the kernel's `fixed_size_llseek` comes after the unlock. Error
  paths: `interrupted` (-ERESTARTSYS), `copy_fault` (-EFAULT),
  `aesd_write_enomem` (-ENOMEM), `aesd_ioctl_invalid` (-EINVAL, after the
  unlock). Calls that fail before they lock (-ENODEV, -ENOTTY) have no effect
  and are stuttering steps. Memory is explicit: `Ptr` are the blocks there are,
  `live` those allocated, `heap` their bytes; a byte nobody wrote is `Uninit`.
  `Log` and `Partial` map the driver's state to `CommandLog`.
* `ThreadQueue` - the list of `thread_queue.c` with its nodes, `next` pointers
  and `head`; `live` are the nodes `malloc` has given out. The loops of the
  functions are the rounds of `Walk`.
* `ThreadList` - the abstract specification of that list: a sequence that is
  appended to, walked with removal, and taken from at its head.
* `AesdSocket` - the server: `main` as a program counter, one handler per
  connection as another, one per expiry of the timer (`tick`), the stdio stream
  of each connection (`wbuf`, `f_pos`), the list of `ThreadQueue` with the
  reaping loop's cursor `node`, the signal handler. `USE_AESD_CHAR_DEVICE` is
  the variable `CharDevice`, chosen initially from the constant `Builds`: with
  it the data file is a `CommandLog`, without it a growing byte string
  (`partial`). What comes before the loop is three steps
  (`main_socket`, `main_listen`, `main_setup`), each of which may fail, the last
  with a socket that listens already; `timer_armed` says that the timer runs,
  from `main_setup` to `main_exit`. Main's end is three steps (`main_exit`,
  `main_remove`, `main_return`), because timer threads go on beside it: they may find the
  mutex destroyed, or write to a file that has lost its name (`unlinked`, with
  the streams in `orphans`, the stream of a cancelled thread among them). `main` = `"killed"` is the process ended by a signal
  it does not handle. Failures are switched on by the constant `Failures`.
* `SystemCalls` - `systemcalls.c`: a caller that makes up to `MaxCalls` calls,
  the child of each call with its state, its standard output, its copy of the
  caller's stdout buffer and its wait status, and the one file redirections go
  to. `system` is external and modelled as fork, command and wait.
* `Threading` - `threading.c`: the threads, the mutex, and the blocks that
  `malloc` hands out for `thread_data` and hands out again once the joiner has
  freed them (`live`, `arg`), with what `thread_complete_success` holds in each
  (`success`: the thread that set it). Unlock, store and return of `threadfunc`
  are steps of their own. The caller that joins and frees is not in the
  repository; the comments of `threading.h` say what it does.
* `CircularBufferProofs`, `AesdCharProofs` - the theorems.
* `MCAesdChar`, `MCAesdSocket` - values for the constants of the runs.

The two levels meet in `CommandLog`: the driver is shown to implement it, and
the server is checked on top of it. In the same way `AesdSocket` with its
pointers is shown to implement `ThreadList`.

Definitions named `Mut_...` are mutants: the definition that follows, changed
the way a plausible bug would change it. Nothing uses them; they are there to
show that each property can fail.

## Runs

| run | instance | shows |
|---|---|---|
| `driver_shared` | 2 processes on one file, 2 slots, 3 blocks, commands of one and three bytes, in one write and in two, offsets around the ends, failing allocations | `TypeOK`, `BlocksOwnedOnce`, `CopyInBounds`, the inductive `DriverInv`, `ImplementsCommandLog`, `ReadReturnsLogSlice`, `SeektoAgreesWithRead`, `SeekMatchesLog` (a seek command of the server's level succeeds on the ring when, and only when, it does on the log, and means the same) |
| `driver_liveness` | 2 processes, 1 slot, fairness | `EveryCallReturns` |
| `server_packets` | both builds, 2 connections, packets in up to 3 pieces, seeks, a time stamp, all failures | `TypeOK`, `QueueSound`, `PacketsContiguous`, `ReplyEndsInPacket` |
| `server_threads` | both builds, 3 connections, a time stamp, no failures | `MutexHeldByHandler`, `QueueSound`, `DataLiveWhileServing`, `NothingLeftAtExit`, `FileRemovedAtExit`, `ImplementsThreadList` |
| `server_liveness` | both builds, 2 connections, a time stamp, failing `fopen` in handlers, fairness | `EveryClientServed`, `SignalEndsServer` |
| `system_calls` | 3 calls of any kind, all failures | `TypeOK`, `ResultIsOfOwnCommand`, `FileHoldsOutput`, `EveryCallReturns` |
| `threading` | 3 threads and the caller, 2 blocks, threads that cannot be started | `HoldsMutexAlone`, `JoinerGetsOwnData`, `EveryThreadJoined` |
| `driver_seekto` | violation | the ioctl accepts an offset that is not within the write, the one behind its last byte |
| `driver_llseek` | violation | `aesd_llseek` skips members and computes a wrong size |
| `driver_enomem` | violation | after -ENOMEM, `buf_entry.size` counts bytes that are gone |
| `server_shutdown` | violation | the clean-up loop frees data its threads still use |
| `server_reset` | violation | SIGPIPE ends the server when a client goes away before its reply |

More was seen while modelling that has no run of its own. The models have all
of it.

* Unloading the module in the middle of a command leaks that command's block.
* A failed `malloc` of `thread_instance` is written through before it is checked
  (`main_no_instance`, the same effect as `server_reset`).
* After a failed `queue_enqueue` the thread is cancelled, possibly with
  `file_mutex` held, which is why `MutexHeldByHandler` and
  `DataLiveWhileServing` are checked without failing allocations.
* A timer thread whose `fopen` fails leaves without unlocking. No handler gets
  the mutex afterwards, so `EveryClientServed` holds only without `"timer_open"`.
* A timer thread that runs late creates the data file again after
  `remove_data_file`. `FileRemovedAtExit` is therefore about clients' bytes.
* `do_exec_redirect` never closes `outputfile` in the caller (`fds` only grows),
  although its comment says "This file will be closed at completion of the
  function call."
* `do_exec_redirect`'s child leaves with `exit(1)` when `execv` fails, which
  writes the caller's buffered text out again, into the file. An interrupted
  `waitpid` leaves a child that may write into the file of a later call.
* When `pthread_create` fails, `start_thread_obtaining_mutex` leaks its
  `thread_data`.

### Bounds

The constants are bounds. One or two slots instead of ten: the ring's code
depends on N only through the remainder, two slots already wrap and evict, and
the proofs do not depend on N. One block more than there are slots is what the
driver needs at most; with `AllocFailure` any allocation may fail, without it
only those that find no block. `MaxCommand` bounds how long an unfinished
command gets; a write that ends in a newline is always allowed. In
`driver_shared` it is 2, and the chunks are a lone newline and a newline
followed by another byte, which does not end the command: so commands have one
byte or three, come in one write or two, and entries of different lengths lie
side by side in the ring. In the
server, `BufSize` = 2 makes the stdio buffer overflow within a packet,
`PieceKind` says what one `recv` may deliver (a part, the newline, both, or a
newline and more), `MaxRecv` bounds the pieces of a packet before its newline,
`MaxTicks` = 1 is a time stamp at any point. There are as many list nodes as
connections, so that `queue_enqueue` fails only where `Failures` says so, and
nodes are used again after they are freed. Three threads and two blocks in
`threading`: a block comes back to a thread while another thread is at work.
Three connections are the least with
which the reaping loop removes a node that is neither first nor last. A client's
bytes are named after its connection, so a byte in the file tells who sent it.
Three calls let a child left behind by the first meet a redirection of the
second and a third. Symmetry is used for blocks, for processes that share a
file, for connections and for list nodes, and never in the liveness runs.

Deadlock is not checked in the runs of the server and of the exercises: those
programs end. The driver's runs check it.

### Fairness

Driver: a process inside a call keeps running (weak fairness of the steps that
need no lock), and the kernel mutex hands itself to its waiters (strong fairness
of the steps that take it). Nothing is assumed of new calls, failures or
interrupts.

Server: main, the handlers and the timer's threads run when they can (weak
fairness). That is enough for `file_mutex`, because a connection, and an expiry
of the timer, takes it only once: from some point on nobody competes. `ClientFairness` is an assumption about clients, not about the
code: a client with a connection goes on sending, and reading its reply, or
closes. It is needed, since `recv` is called with `file_mutex` held: one silent
client stops all others, and the shutdown too (main waits in `pthread_join`,
and closing a descriptor does not wake a `recv` on it). No fairness is assumed
of accepting, of failures, of signals and of the timer's expiry.

`SystemCalls`: the caller and its children run, and commands end, which is an
assumption about the commands. `Threading`: threads run, and the caller, once it
has the mutex, releases it, and joins what it started. Weak fairness is enough
for the same reason as in the server.

## Proofs

The theorems hold for every number of slots up to 255 (slot numbers are
`uint8_t`), every set of processes, files, blocks, bytes and chunks allowed by
`NAssumption` and `DriverAssumption`: chunks are non-empty and made of bytes,
the null pointer is no block.

* `DriverSafe`: `Spec => []DriverInv`. `BlocksOwnedOnce` and `CopyInBounds` are
  not inductive. `DriverInv` adds the shape of the ring (before it is full,
  entries lie in slots `0..in_offs-1` and `out_offs` is 0; once full, it stays
  full and `in_offs = out_offs`; a used slot's size is the length of its
  block), the lock discipline (the owner of the mutex is exactly the process
  between its lock and its unlock, in whichever of the four calls), and what the copying process knows about its block. There
  is one lemma per action; the interesting ones are `WriteAllocStep` (a block
  fresh from the allocator, or the old one grown, still has one owner) and
  `WriteCommandStep` (the block moves into the slot of the entry that is
  evicted, and exactly that entry's block is freed).
* `DriverTyped`, `DriverOwnsBlocksOnce`, `DriverCopiesInBounds`: the invariants
  of `driver_shared`, as consequences.
* `SeektoCorrect`: `Spec => SeektoAgreesWithRead`, for every N. The ioctl's loop
  (`SkippedBytes`) and the search loop of read (`ComposedLength`) are two
  recursive functions over the ring; `SkippedBytesSum` shows that they compute
  the same sums.

`CircularBufferProofs` has the facts about slots (`SlotAt` is injective, wraps
once) and about the running sums. Induction is done on sets of naturals
(`NatInductionSet`, from the library's well-foundedness theorems), because the
provers cannot instantiate an operator parameter.

Only model-checked: the refinement of `CommandLog`, `ReadReturnsLogSlice`, all
of the server with its refinement of `ThreadList`, `SystemCalls`, `Threading`,
and all liveness properties (temporal reasoning with fairness is
beyond the prover).

## Not modelled

* Writes of zero bytes to the device (the driver then reads the byte before the
  block), and commands longer than an `int` can count; a block is at most
  4 MiB, so the sum of ten stays far below 2^31.
* Errors of the device seen through the server's stdio streams, and other
  processes using the device beside the server.
* Short counts of `send`: a reply is sent in one step, completely or not.
* Descriptor numbers; a descriptor closed twice at shutdown.
* Signals before `sigaction`, the daemon's fork, and what `timer_delete` does
  with the uninitialised `timer_id` it gets when setting up fails before
  `timer_create` (the path is in the model, the timer's number is not).
* Logging, and with it the `%s` of `aesd-circular-buffer.c:52`, which prints
  past a block that has no NUL when the driver is built with debug output, and
  the lock inside `syslog` that the signal handler may
  find taken by the thread it interrupts.
* Where in a truncated file the output of a left-over child lands
  (`SystemCalls` appends it), and arguments of the commands.
* `finder-app/writer.c` and the scripts beside it: they run once, alone, and
  keep nothing; `writer.c` does not look at the result of `fclose`.
* `examples/autotest-validate`, unit tests, build, boot and load scripts: no
  state of their own.

## Plan

1. Done: `CircularBuffer`, `CommandLog`, `AesdChar`, `AesdSocket`, their runs,
   and the theorems above.
2. Done: `ThreadQueue` and `ThreadList`, the timer's threads and main's exit,
   both builds in one run, `SystemCalls`, `Threading`.
3. Proofs: the driver implements `CommandLog` (initial states, one lemma per
   action, eviction as the interesting case); `ReadReturnsLogSlice` for every N.
4. Proofs: the inductive invariants of `Threading` and `SystemCalls`, which are
   nearly inductive as they stand; an invariant for the server from which
   `TypeOK`, `MutexHeldByHandler` and `DataLiveWhileServing` follow, and, with a
   numbering of the reached nodes in place of `Walk`, `QueueSound`.
5. Device errors passed through stdio to the server.
