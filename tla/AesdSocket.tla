----------------------------- MODULE AesdSocket -----------------------------
(***************************************************************************)
(* The server, server/aesdsocket.c: main accepts connections, starts one   *)
(* connection_handler thread for each, keeps the threads in the list of    *)
(* thread_queue.c, reaps the completed ones after every accept, and cleans *)
(* up when SIGINT or SIGTERM has arrived.  Handlers take turns on the data *)
(* file under file_mutex.  The steps of a thread are cut where another     *)
(* thread, a client or a signal can make a difference.                     *)
(*                                                                         *)
(* Both builds are modelled.  With USE_AESD_CHAR_DEVICE the data file is   *)
(* the device of CommandLog, which AesdChar implements; without it, it is  *)
(* a plain file, whose bytes are partial, and each time a timer expires a  *)
(* thread appends a time stamp.                                            *)
(* A client's bytes are the connection itself: c sends bytes c and NL.     *)
(***************************************************************************)
EXTENDS ThreadQueue, Sequences

CONSTANTS
  Conn,        \* connections, each with its thread, thread_data and socket
  Builds,      \* the values of USE_AESD_CHAR_DEVICE that are looked at
  N,           \* commands the device keeps
  NL,          \* the newline byte
  Stamp,       \* the other bytes of a time stamp
  Uninit,      \* a byte of the device nobody wrote
  SeekCmd,     \* the write_cmd, write_cmd_offset pairs clients ask for
  PieceKind,   \* the kinds of pieces clients send: see Piece
  BufSize,     \* the size of a stdio buffer, larger than RECV_BUFFER_LEN
  Failures,    \* which failures happen: see Failure
  MaxRecv,     \* bound: a client sends its newline within this many pieces
  MaxTicks     \* bound: how often the timer expires

\* "alloc": malloc fails; "open": a handler's fopen fails; "timer_open": that
\* of the timer; "reset": the client is gone before its reply is sent;
\* "bad_seekto": a seek without its two numbers.
Failure == {"alloc", "open", "timer_open", "reset", "bad_seekto"}

ASSUME ServerAssumption ==
  /\ Builds \subseteq BOOLEAN
  /\ Failures \subseteq Failure
  /\ NULL \notin Conn /\ NL \notin Conn /\ Stamp \notin Conn
  /\ NULL \notin Node /\ IsFiniteSet(Node)
  /\ SeekCmd \subseteq Nat \X Nat /\ PieceKind \subseteq {"part", "end", "packet", "more"}
  /\ N \in Nat \ {0} /\ BufSize \in Nat \ {0, 1}
  /\ MaxRecv \in Nat /\ MaxTicks \in Nat

VARIABLES
  CharDevice,   \* USE_AESD_CHAR_DEVICE
  is_active,    \* the flag signal_handler clears
  timer_armed,  \* whether timer_settime has started the timer
  sockfd,       \* the listening socket: "none", "bound", "listening", "shut", "closed"
  main,         \* where main is
  current,      \* the connection main is adding or joining
  node,         \* the list node the reaping loop looks at next, or NULL
  list,         \* the list of thread_queue.c, with a connection in each node
  thread_data,  \* per connection: its client_thread_data_t
  fd_open,      \* per connection: whether its socket is open in this process
  pc,           \* per connection: where its connection_handler is
  cancelled,    \* the threads pthread_cancel was called for
  file_mutex,   \* its owner, or NULL, or "destroyed"
  wbuf,         \* per connection: bytes in the buffer of its data_file
  f_pos,        \* per connection: where the next read of its data_file starts
  recvs,        \* per connection: how often recv has returned data
  packet,       \* per connection: the bytes it has sent for the data file
  reply,        \* per connection: what has been sent back
  log, partial, \* the data file
  unlinked,     \* what the plain file held, and gets, once it is removed
  orphans,      \* the connections and ticks whose stream is on that file
  tick          \* per expiry of the timer: where its thread is

flags       == <<CharDevice, is_active, timer_armed>>
mainVars    == <<main, current, node, list>>
threadVars  == <<thread_data, fd_open, cancelled>>
fileVars    == <<wbuf, f_pos>>
clientVars  == <<recvs, packet, reply>>
deviceVars  == <<log, partial, unlinked, orphans>>

\* What no handler changes, and what main leaves to the threads.
envVars == <<flags, sockfd, mainVars, tick>>
workers == <<pc, file_mutex, fileVars, clientVars, deviceVars, tick>>

vars == <<flags, sockfd, mainVars, threadVars, pc, file_mutex, fileVars,
          clientVars, deviceVars, tick>>

Tick == 1..MaxTicks
Byte == Conn \cup {NL, Stamp}

Dev == INSTANCE CommandLog
         WITH Chunk <- UNION {[1..n -> Byte] : n \in 1..BufSize}

\* malloc'd, free'd, or not there yet; client_fd is a descriptor or -1.
NoData == [mem |-> "none", has_fd |-> FALSE, thread_completed |-> FALSE]

Init ==
  /\ CharDevice \in Builds
  /\ is_active = TRUE
  /\ timer_armed = FALSE
  /\ sockfd = "none"
  /\ main = "start"
  /\ current = NULL /\ node = NULL /\ list = EmptyList
  /\ thread_data = [c \in Conn |-> NoData]
  /\ fd_open = [c \in Conn |-> FALSE]
  /\ cancelled = {}
  /\ pc = [c \in Conn |-> "none"]
  /\ file_mutex = NULL
  /\ wbuf = [c \in Conn |-> <<>>]
  /\ f_pos = [c \in Conn |-> 0]
  /\ recvs = [c \in Conn |-> 0]
  /\ packet = [c \in Conn |-> <<>>]
  /\ reply = [c \in Conn |-> <<>>]
  /\ log = <<>> /\ partial = <<>>
  /\ unlinked = <<>> /\ orphans = {}
  /\ tick = [t \in Tick |-> "none"]

\* The process exists: threads run until main returns or a signal kills it.
Up == main \notin {"exited", "killed"}

At(c, label)   == Up /\ pc[c] = label
Goto(c, label) == pc' = [pc EXCEPT ![c] = label]
Ends(bytes, b) == bytes # <<>> /\ bytes[Len(bytes)] = b
Has(bytes, b)  == \E i \in 1..Len(bytes) : bytes[i] = b

-----------------------------------------------------------------------------
(***************************************************************************)
(* The data file, through stdio: fwrite fills the buffer and writes it out *)
(* when it overflows; a read after a write, fseek and fclose flush it.     *)
(***************************************************************************)
file_write(stream, bytes) ==
  /\ IF CharDevice
     THEN Dev!Write(bytes) /\ UNCHANGED unlinked
     ELSE /\ IF stream \in orphans
             THEN unlinked' = unlinked \o bytes /\ UNCHANGED partial
             ELSE partial' = partial \o bytes /\ UNCHANGED unlinked
          /\ UNCHANGED log
  /\ UNCHANGED orphans

fwrite(c, bytes) ==
  LET all == wbuf[c] \o bytes
  IN  IF Len(all) <= BufSize
      THEN wbuf' = [wbuf EXCEPT ![c] = all] /\ UNCHANGED deviceVars
      ELSE /\ file_write(c, SubSeq(all, 1, BufSize))
           /\ wbuf' = [wbuf EXCEPT ![c] = SubSeq(all, BufSize + 1, Len(all))]

fflush(c) ==
  /\ IF wbuf[c] = <<>> THEN UNCHANGED deviceVars ELSE file_write(c, wbuf[c])
  /\ wbuf' = [wbuf EXCEPT ![c] = <<>>]

\* Mutant of Readable: reads what the file held before the flush.
Mut_Readable(c) ==
  IF CharDevice
  THEN SubSeq(Dev!Contents(log), f_pos[c] + 1, Len(Dev!Contents(log)))
  ELSE partial

\* What fread delivers up to end of file once the buffer is flushed: the
\* device from the position the ioctl left, the file, after fseek, from 0.
Readable(c) ==
  IF CharDevice
  THEN SubSeq(Dev!Contents(log'), f_pos[c] + 1, Len(Dev!Contents(log')))
  ELSE IF c \in orphans THEN unlinked' ELSE partial'

-----------------------------------------------------------------------------
(***************************************************************************)
(* connection_handler.  Labels are the next thing the thread does.         *)
(***************************************************************************)
\* Mutant of handler_lock: does not wait for the mutex.
Mut_handler_lock(c) ==
  /\ At(c, "lock")
  /\ file_mutex' = c
  /\ Goto(c, "recv")
  /\ UNCHANGED <<envVars, threadVars, fileVars, clientVars, deviceVars>>

handler_lock(c) ==
  /\ At(c, "lock")
  /\ file_mutex = NULL
  /\ file_mutex' = c
  /\ \/ Goto(c, "recv")
     \/ "open" \in Failures /\ Goto(c, "unlock")
  /\ UNCHANGED <<envVars, threadVars, fileVars, clientVars, deviceVars>>

\* pthread_mutex_lock fails: main is leaving and has destroyed the mutex.
handler_lock_fails(c) ==
  /\ At(c, "lock")
  /\ file_mutex = "destroyed"
  /\ Goto(c, "unlock")
  /\ UNCHANGED <<envVars, threadVars, file_mutex, fileVars, clientVars, deviceVars>>

\* What one recv may return to the handler of c: a part of a packet, its end,
\* all of it, or its end and more.
Piece(c) ==
  [part |-> <<c>>, end |-> <<NL>>, packet |-> <<c, NL>>, more |-> <<NL, c>>]

Pieces(c) == {Piece(c)[k] : k \in PieceKind}

\* recv returns data that is not a seek command.
recv_data(c, bytes) ==
  /\ At(c, "recv")
  /\ Has(bytes, NL) \/ recvs[c] < MaxRecv
  /\ recvs' = [recvs EXCEPT ![c] = @ + 1]
  /\ packet' = [packet EXCEPT ![c] = @ \o bytes]
  /\ fwrite(c, bytes)
  /\ Goto(c, IF Has(bytes, NL) THEN "send" ELSE "recv")
  /\ UNCHANGED <<envVars, threadVars, file_mutex, f_pos, reply>>

\* Mutant of recv_seekto: takes the two numbers to count from one.
Mut_recv_seekto(c, cmd, offset, newline) ==
  /\ At(c, "recv")
  /\ CharDevice
  /\ newline \/ recvs[c] < MaxRecv
  /\ recvs' = [recvs EXCEPT ![c] = @ + 1]
  /\ f_pos' = IF Dev!SeekOk(cmd, offset)
              THEN [f_pos EXCEPT ![c] = Dev!SeekPos(cmd, offset) - 1]
              ELSE f_pos
  /\ Goto(c, IF newline THEN "send" ELSE "recv")
  /\ UNCHANGED <<envVars, threadVars, file_mutex, wbuf, packet, reply, deviceVars>>

\* recv returns a seek command, with its newline or not.
recv_seekto(c, cmd, offset, newline) ==
  /\ At(c, "recv")
  /\ CharDevice
  /\ newline \/ recvs[c] < MaxRecv
  /\ recvs' = [recvs EXCEPT ![c] = @ + 1]
  /\ f_pos' = IF Dev!SeekOk(cmd, offset)
              THEN [f_pos EXCEPT ![c] = Dev!SeekPos(cmd, offset)]
              ELSE f_pos
  /\ Goto(c, IF newline THEN "send" ELSE "recv")
  /\ UNCHANGED <<envVars, threadVars, file_mutex, wbuf, packet, reply, deviceVars>>

\* A seek command without its numbers: strtok_r returns NULL and atoi reads it.
recv_bad_seekto(c) ==
  /\ At(c, "recv")
  /\ CharDevice /\ "bad_seekto" \in Failures
  /\ main' = "killed"
  /\ UNCHANGED <<flags, sockfd, current, node, list, threadVars, workers>>

\* recv returns 0, or -1: a signal came, the client is gone, or main has
\* closed the socket while cleaning up.
recv_end(c) ==
  /\ At(c, "recv")
  /\ Goto(c, "close_file")
  /\ UNCHANGED <<envVars, threadVars, file_mutex, fileVars, clientVars, deviceVars>>

send_reply(c) ==
  /\ At(c, "send")
  /\ fd_open[c]
  /\ fflush(c)
  /\ reply' = [reply EXCEPT ![c] = Readable(c)]
  /\ Goto(c, "close_file")
  /\ UNCHANGED <<envVars, threadVars, file_mutex, f_pos, recvs, packet>>

\* send fails half way: closed socket, interrupted, or connection reset.
send_error(c) ==
  /\ At(c, "send")
  /\ ~fd_open[c] \/ ~is_active \/ "reset" \in Failures
  /\ fflush(c)
  /\ Goto(c, "close_file")
  /\ UNCHANGED <<envVars, threadVars, file_mutex, f_pos, clientVars>>

\* Sending to a connection the client has reset: SIGPIPE, which the server
\* neither ignores nor handles.
send_sigpipe(c) ==
  /\ At(c, "send")
  /\ "reset" \in Failures
  /\ fflush(c)
  /\ main' = "killed"
  /\ UNCHANGED <<flags, sockfd, current, node, list, threadVars, pc, file_mutex, f_pos,
                 clientVars, tick>>

handler_fclose(c) ==
  /\ At(c, "close_file")
  /\ fflush(c)
  /\ Goto(c, "unlock")
  /\ UNCHANGED <<envVars, threadVars, file_mutex, f_pos, clientVars>>

\* Mutant of handler_unlock: forgets the unlock.
Mut_handler_unlock(c) ==
  /\ At(c, "unlock")
  /\ Goto(c, "close")
  /\ UNCHANGED <<envVars, threadVars, file_mutex, fileVars, clientVars, deviceVars>>

\* Unlocking a destroyed mutex is an error that nobody looks at.
handler_unlock(c) ==
  /\ At(c, "unlock")
  /\ file_mutex' = IF file_mutex = "destroyed" THEN file_mutex ELSE NULL
  /\ Goto(c, "close")
  /\ UNCHANGED <<envVars, threadVars, fileVars, clientVars, deviceVars>>

\* Mutant of handler_close: reports completion before client_fd is reset.
Mut_handler_close(c) ==
  /\ At(c, "close")
  /\ fd_open' = [fd_open EXCEPT ![c] = FALSE]
  /\ thread_data' = [thread_data EXCEPT ![c].thread_completed = TRUE]
  /\ Goto(c, "complete")
  /\ UNCHANGED <<envVars, cancelled, file_mutex, fileVars, clientVars, deviceVars>>

handler_close(c) ==
  /\ At(c, "close")
  /\ fd_open' = [fd_open EXCEPT ![c] = FALSE]
  /\ Goto(c, "complete")
  /\ UNCHANGED <<envVars, thread_data, cancelled, file_mutex, fileVars, clientVars,
                 deviceVars>>

handler_complete(c) ==
  /\ At(c, "complete")
  /\ thread_data' = [thread_data EXCEPT ![c].has_fd = FALSE, ![c].thread_completed = TRUE]
  /\ Goto(c, "done")
  /\ UNCHANGED <<envVars, fd_open, cancelled, file_mutex, fileVars, clientVars,
                 deviceVars>>

\* pthread_cancel takes effect in a cancellation point: pthread_mutex_lock is
\* none, but every step after it makes a call that is one, syslog at the
\* least.  Nothing unlocks or closes.
handler_cancelled(c) ==
  /\ Up
  /\ c \in cancelled
  /\ pc[c] \notin {"none", "dropped", "lock", "done"}
  /\ Goto(c, "done")
  /\ UNCHANGED <<envVars, threadVars, file_mutex, fileVars, clientVars, deviceVars>>

-----------------------------------------------------------------------------
(***************************************************************************)
(* main.                                                                   *)
(***************************************************************************)
main_socket ==
  /\ main = "start"
  /\ main' = "bind"
  /\ sockfd' = "bound"
  /\ UNCHANGED <<flags, current, node, list, threadVars, workers>>

main_listen ==
  /\ main = "bind"
  /\ main' = "setup"
  /\ sockfd' = "listening"
  /\ UNCHANGED <<flags, current, node, list, threadVars, workers>>

\* pthread_mutex_init and, in the file build, timer_create, timer_settime.
main_setup ==
  /\ main = "setup"
  /\ main' = "loop"
  /\ timer_armed' = ~CharDevice
  /\ UNCHANGED <<CharDevice, is_active, sockfd, current, node, list, threadVars, workers>>

\* One of the calls before the loop fails, those after listen with a socket
\* that listens; the first, getaddrinfo, returns without the clean-up.
main_setup_fails ==
  /\ \/ main \in {"start", "bind", "setup"} /\ main' = "exit"
     \/ main = "start" /\ main' = "return"
  /\ UNCHANGED <<flags, sockfd, current, node, list, threadVars, workers>>

\* while(is_active)
main_loop ==
  /\ main = "loop"
  /\ main' = IF is_active THEN "accept" ELSE "cleanup"
  /\ UNCHANGED <<flags, sockfd, current, node, list, threadVars, workers>>

\* accept returns a connection; both mallocs and pthread_create succeed.
main_accept(c) ==
  /\ main = "accept"
  /\ sockfd = "listening"
  /\ pc[c] = "none"
  /\ thread_data' = [thread_data EXCEPT ![c] =
       [mem |-> "live", has_fd |-> TRUE, thread_completed |-> FALSE]]
  /\ fd_open' = [fd_open EXCEPT ![c] = TRUE]
  /\ Goto(c, "lock")
  /\ main' = "enqueue"
  /\ current' = c
  /\ UNCHANGED <<flags, sockfd, node, list, cancelled, file_mutex, fileVars, clientVars,
                 deviceVars, tick>>

\* accept returns -1: the socket was shut down, or a signal interrupted it.
main_accept_fails ==
  /\ main = "accept"
  /\ sockfd # "listening"
  /\ main' = "loop"
  /\ UNCHANGED <<flags, sockfd, current, node, list, threadVars, workers>>

\* No thread_data, or no thread: the connection is closed again.
main_drop(c) ==
  /\ main = "accept"
  /\ sockfd = "listening"
  /\ pc[c] = "none"
  /\ "alloc" \in Failures
  /\ Goto(c, "dropped")
  /\ main' = "loop"
  /\ UNCHANGED <<flags, sockfd, current, node, list, threadVars, file_mutex, fileVars,
                 clientVars, deviceVars, tick>>

\* No thread_instance: memset writes through NULL before the check.
main_no_instance ==
  /\ main = "accept"
  /\ sockfd = "listening"
  /\ \E c \in Conn : pc[c] = "none"
  /\ "alloc" \in Failures
  /\ main' = "killed"
  /\ UNCHANGED <<flags, sockfd, current, node, list, threadVars, workers>>

main_enqueue ==
  /\ main = "enqueue"
  /\ \E new_node \in Node \ list.live : list' = queue_enqueue(list, new_node, current)
  /\ node' = queue_get_head(list')
  /\ current' = NULL
  /\ main' = "reap"
  /\ UNCHANGED <<flags, sockfd, threadVars, workers>>

\* queue_enqueue finds no memory: listener_kill_thread and the labels after.
main_enqueue_fails ==
  /\ main = "enqueue"
  /\ "alloc" \in Failures
  /\ cancelled' = cancelled \cup {current}
  /\ thread_data' = [thread_data EXCEPT ![current].mem = "freed"]
  /\ fd_open' = [fd_open EXCEPT ![current] = FALSE]
  /\ current' = NULL
  /\ main' = "loop"
  /\ UNCHANGED <<flags, sockfd, node, list, workers>>

\* One round of the do-while loop.  A thread that has set thread_completed
\* only returns, so pthread_join does not block.  The tests for NULL are left
\* out: QueueSound shows that they never succeed.
main_reap ==
  LET c == list.data[node]
  IN  /\ main = "reap"
      /\ node' = list.next[node]
      /\ main' = IF node' = NULL THEN "loop" ELSE "reap"
      /\ IF thread_data[c].thread_completed
         THEN /\ fd_open' = [fd_open EXCEPT ![c] = @ /\ ~thread_data[c].has_fd]
              /\ thread_data' = [thread_data EXCEPT ![c].mem = "freed"]
              /\ list' = queue_remove(list, c)
         ELSE UNCHANGED <<fd_open, thread_data, list>>
      /\ UNCHANGED <<flags, sockfd, current, cancelled, workers>>

\* The clean-up loop: queue_dequeue, close, free, and only then pthread_join.
main_dequeue ==
  LET c == list.data[list.head]
  IN  /\ main = "cleanup"
      /\ list.head # NULL
      /\ current' = c
      /\ list' = queue_dequeue(list)
      /\ fd_open' = [fd_open EXCEPT ![c] = @ /\ ~thread_data[c].has_fd]
      /\ thread_data' = [thread_data EXCEPT ![c].mem = "freed"]
      /\ main' = "join"
      /\ UNCHANGED <<flags, sockfd, node, cancelled, workers>>

\* Mutant of main_join: goes on without waiting for the thread.
Mut_main_join ==
  /\ main = "join"
  /\ current' = NULL
  /\ main' = "cleanup"
  /\ UNCHANGED <<flags, sockfd, node, list, threadVars, workers>>

main_join ==
  /\ main = "join"
  /\ pc[current] = "done"
  /\ current' = NULL
  /\ main' = "cleanup"
  /\ UNCHANGED <<flags, sockfd, node, list, threadVars, workers>>

main_cleaned ==
  /\ main = "cleanup"
  /\ list.head = NULL
  /\ main' = "exit"
  /\ UNCHANGED <<flags, sockfd, current, node, list, threadVars, workers>>

\* exit: the timer is deleted, which leaves the threads it has started, and
\* the mutex destroyed, unless somebody has it; the socket is closed.
main_exit ==
  /\ main = "exit"
  /\ main' = "remove"
  /\ sockfd' = "closed"
  /\ timer_armed' = FALSE
  /\ file_mutex' = IF ~CharDevice /\ file_mutex = NULL THEN "destroyed" ELSE file_mutex
  /\ UNCHANGED <<CharDevice, is_active, current, node, list, threadVars, pc, fileVars,
                 clientVars, deviceVars, tick>>

\* Streams that are open go on with the file that has lost its name, the one
\* a cancelled thread has left with bytes in its buffer among them.
main_remove ==
  /\ main = "remove"
  /\ main' = "return"
  /\ IF CharDevice
     THEN UNCHANGED deviceVars
     ELSE /\ partial' = <<>>
          /\ unlinked' = partial
          /\ orphans' = {c \in Conn : pc[c] \in {"recv", "send", "close_file"} \/ wbuf[c] # <<>>}
                          \cup {t \in Tick : tick[t] = "write"}
          /\ UNCHANGED log
  /\ UNCHANGED <<flags, sockfd, current, node, list, threadVars, pc, file_mutex,
                 fileVars, clientVars, tick>>

\* The process ends and flushes the stream that a cancelled thread has left.
main_return ==
  /\ main = "return"
  /\ main' = "exited"
  /\ \/ (\A c \in Conn : wbuf[c] = <<>>) /\ UNCHANGED <<deviceVars, wbuf>>
     \/ \E c \in Conn : wbuf[c] # <<>> /\ fflush(c)
  /\ UNCHANGED <<flags, sockfd, current, node, list, threadVars, pc, file_mutex, f_pos,
                 clientVars, tick>>

-----------------------------------------------------------------------------
\* Mutant of signal_handler: clears the flag, does not shut the socket down.
Mut_signal_handler ==
  /\ Up
  /\ is_active' = FALSE
  /\ UNCHANGED <<CharDevice, timer_armed, sockfd, mainVars, threadVars, workers>>

\* SIGINT or SIGTERM, in whichever thread it is delivered to.
signal_handler ==
  /\ Up
  /\ is_active' = FALSE
  /\ sockfd' = IF sockfd = "listening" THEN "shut" ELSE sockfd
  /\ UNCHANGED <<CharDevice, timer_armed, mainVars, threadVars, workers>>

(***************************************************************************)
(* The timer of the file build.  Every expiry has a thread of its own for  *)
(* timer_expired_handler; one that fails before its lock does nothing.     *)
(***************************************************************************)
TimerAt(t, label)   == Up /\ tick[t] = label
TimerGoto(t, label) == tick' = [tick EXCEPT ![t] = label]

timer_expire(t) ==
  /\ timer_armed
  /\ TimerAt(t, "none")
  /\ \A u \in Tick : u < t => tick[u] # "none"
  /\ TimerGoto(t, "lock")
  /\ UNCHANGED <<flags, sockfd, mainVars, threadVars, pc, file_mutex, fileVars,
                 clientVars, deviceVars>>

timer_lock(t) ==
  /\ TimerAt(t, "lock")
  /\ \/ file_mutex = NULL /\ file_mutex' = "timer" /\ TimerGoto(t, "open")
     \/ file_mutex = "destroyed" /\ UNCHANGED file_mutex /\ TimerGoto(t, "done")
  /\ UNCHANGED <<flags, sockfd, mainVars, threadVars, pc, fileVars, clientVars,
                 deviceVars>>

\* A failing fopen leaves without the unlock.
timer_open(t) ==
  /\ TimerAt(t, "open")
  /\ \/ TimerGoto(t, "write")
     \/ "timer_open" \in Failures /\ TimerGoto(t, "done")
  /\ UNCHANGED <<flags, sockfd, mainVars, threadVars, pc, file_mutex, fileVars,
                 clientVars, deviceVars>>

timer_write(t) ==
  /\ TimerAt(t, "write")
  /\ file_write(t, <<Stamp, NL>>)
  /\ file_mutex' = NULL
  /\ TimerGoto(t, "done")
  /\ UNCHANGED <<flags, sockfd, mainVars, threadVars, pc, fileVars, clientVars>>

timer_expired_handler(t) == timer_lock(t) \/ timer_open(t) \/ timer_write(t)

-----------------------------------------------------------------------------
\* What a thread does whatever its client does, and what waits for the client.
handler_own(c) ==
  \/ handler_lock(c) \/ handler_lock_fails(c) \/ send_error(c)
  \/ handler_fclose(c) \/ handler_unlock(c) \/ handler_close(c)
  \/ handler_complete(c) \/ handler_cancelled(c)

handler_client(c) ==
  \/ \E bytes \in Pieces(c) : recv_data(c, bytes)
  \/ \E s \in SeekCmd, newline \in BOOLEAN : recv_seekto(c, s[1], s[2], newline)
  \/ recv_end(c)
  \/ send_reply(c)

handler_killed(c) == recv_bad_seekto(c) \/ send_sigpipe(c)

main_step ==
  \/ main_socket \/ main_listen \/ main_setup \/ main_setup_fails
  \/ main_loop \/ main_accept_fails \/ main_no_instance
  \/ \E c \in Conn : main_accept(c) \/ main_drop(c)
  \/ main_enqueue \/ main_enqueue_fails \/ main_reap
  \/ main_dequeue \/ main_join \/ main_cleaned
  \/ main_exit \/ main_remove \/ main_return

Next ==
  \/ main_step
  \/ signal_handler
  \/ \E t \in Tick : timer_expire(t) \/ timer_expired_handler(t)
  \/ \E c \in Conn : handler_own(c) \/ handler_client(c) \/ handler_killed(c)

Spec == Init /\ [][Next]_vars

(***************************************************************************)
(* Fairness: runnable threads run.  A connection and an expiry of the      *)
(* timer take file_mutex once, so weak fairness is enough for the lock.    *)
(* Nothing is assumed of clients that want to connect, of failures, of     *)
(* signals and of the timer's expiry; ClientFairness says that a client    *)
(* with a connection goes on sending, and reading its reply, or closes.    *)
(***************************************************************************)
main_own ==
  \/ main_socket \/ main_listen \/ main_setup \/ main_loop \/ main_accept_fails
  \/ main_enqueue \/ main_reap
  \/ main_dequeue \/ main_join \/ main_cleaned
  \/ main_exit \/ main_remove \/ main_return

ThreadFairness ==
  /\ WF_vars(main_own)
  /\ \A c \in Conn : WF_vars(handler_own(c))
  /\ \A t \in Tick : WF_vars(timer_expired_handler(t))

ClientFairness == \A c \in Conn : WF_vars(handler_client(c))

FairSpec == Spec /\ ThreadFairness /\ ClientFairness

-----------------------------------------------------------------------------
(***************************************************************************)
(* Properties.                                                             *)
(***************************************************************************)
Label == {"none", "dropped", "lock", "recv", "send", "close_file", "unlock",
          "close", "complete", "done"}

\* Type invariant: the globals, main's locals, the thread data, the stdio
\* streams and the data file have their types; the list holds connections.
TypeOK ==
  /\ CharDevice \in BOOLEAN /\ is_active \in BOOLEAN /\ timer_armed \in BOOLEAN
  /\ sockfd \in {"none", "bound", "listening", "shut", "closed"}
  /\ main \in {"start", "bind", "setup", "loop", "accept", "enqueue", "reap",
               "cleanup", "join", "exit", "remove", "return", "exited", "killed"}
  /\ current \in Conn \cup {NULL}
  /\ node \in Node \cup {NULL}
  /\ list \in [head : Node \cup {NULL}, next : [Node -> Node \cup {NULL}],
               data : [Node -> Conn \cup {NULL}], live : SUBSET Node]
  /\ thread_data \in [Conn -> [mem : {"none", "live", "freed"}, has_fd : BOOLEAN,
                               thread_completed : BOOLEAN]]
  /\ fd_open \in [Conn -> BOOLEAN]
  /\ cancelled \in SUBSET Conn
  /\ pc \in [Conn -> Label]
  /\ file_mutex \in Conn \cup {NULL, "timer", "destroyed"}
  /\ wbuf \in [Conn -> Seq(Byte)]
  /\ f_pos \in [Conn -> Nat]
  /\ recvs \in [Conn -> Nat]
  /\ packet \in [Conn -> Seq(Byte)]
  /\ reply \in [Conn -> Seq(Byte)]
  /\ log \in Seq(Seq(Byte))
  /\ partial \in Seq(Byte) /\ unlinked \in Seq(Byte)
  /\ orphans \subseteq Conn \cup Tick
  /\ tick \in [Tick -> {"none", "lock", "open", "write", "done"}]

\* The labels between a thread's lock and its unlock.
Critical == {"recv", "send", "close_file", "unlock"}

\* file_mutex is held by the one handler that is between its lock and its
\* unlock, and by nobody when there is none: no path of connection_handler
\* keeps it.
MutexHeldByHandler ==
  \A c \in Conn : file_mutex = c <=> pc[c] \in Critical

\* The linked list is well formed: walking it ends and comes by every node
\* that is allocated and by no other.  No connection is in it twice, and what
\* is in it the reaping and the clean-up loop may still free; while the
\* reaping loop runs, node points into the list.  So nodes, thread_data and
\* thread_instance are freed once and not used afterwards.
QueueSound ==
  /\ WellFormed(list)
  /\ \A m, n \in list.live : list.data[m] = list.data[n] => m = n
  /\ \A n \in list.live : thread_data[list.data[n]].mem = "live"
  /\ main = "reap" => node \in list.live

\* The pointers of thread_queue.c implement the sequence main relies on:
\* threads stay in the order in which they came, the walk of the reaping loop
\* visits each one once although it removes nodes on its way, and the
\* clean-up takes them out in order.
TL == INSTANCE ThreadList
        WITH Item <- Conn, queue <- Items(list),
             node <- IF node = NULL THEN NULL ELSE list.data[node]

ImplementsThreadList == TL!Spec

\* Where main is while it serves clients: in while(is_active).
Serving == {"loop", "accept", "enqueue", "reap"}

\* Until main cleans up, thread_data outlives the last use its handler makes
\* of it: the reaping loop frees it before pthread_join, but not before the
\* handler has written thread_completed.
DataLiveWhileServing ==
  main \in Serving =>
    \A c \in Conn :
      pc[c] \notin {"none", "dropped", "done"} => thread_data[c].mem = "live"

\* When main returns after a signal it has joined every thread, closed every
\* socket and freed every client_thread_data_t and every node of the list,
\* completed threads and those the signal found at work alike.
NothingLeftAtExit ==
  main = "exited" =>
    /\ list.live = {}
    /\ \A c \in Conn :
         /\ pc[c] \in {"none", "dropped", "done"}
         /\ ~fd_open[c]
         /\ thread_data[c].mem # "live"

\* The file build removes its data file for good: nothing a client sent is in
\* a file of that name when the process has ended, because remove_data_file
\* comes after the join of the last handler.  (A time stamp may be: the timer's
\* threads are joined by nobody.)
FileRemovedAtExit ==
  main = "exited" /\ ~CharDevice => \A c \in Conn : ~Has(partial, c)

\* The bytes of one client are never torn apart by those of another client or
\* by a time stamp, in however many pieces they were received and however
\* often the stdio buffer overflowed meanwhile.
PacketsContiguous ==
  LET bytes == Dev!Contents(log) \o partial
  IN  \A i, k \in 1..Len(bytes) :
        bytes[i] \in Conn /\ bytes[k] = bytes[i] =>
          \A j \in i..k : bytes[j] \in {bytes[i], NL}

\* A client that is answered, did not seek and sent its newline last gets a
\* reply that ends in the packet it sent: the reply is read after the packet
\* has left the stdio buffer, and before anybody else writes.
ReplyEndsInPacket ==
  [][\A c \in Conn :
       reply'[c] # reply[c] /\ f_pos[c] = 0 /\ Ends(packet[c], NL) =>
         /\ Len(reply'[c]) >= Len(packet[c])
         /\ SubSeq(reply'[c], Len(reply'[c]) - Len(packet[c]) + 1, Len(reply'[c]))
              = packet[c]]_vars

\* Every connection that has got a thread is served to the end, whatever the
\* others do, as long as clients go on or close.
EveryClientServed ==
  \A c \in Conn : pc[c] = "lock" ~> pc[c] = "done"

\* After SIGINT or SIGTERM, at whatever point of main it arrives, main leaves
\* accept, joins the threads and returns.
SignalEndsServer == ~is_active ~> main = "exited"

-----------------------------------------------------------------------------
(***************************************************************************)
(* What the code says of itself and does not keep.                         *)
(***************************************************************************)
\* "Thread completed. Joining and freeing resources": a thread's data is
\* freed when the thread no longer uses it, at shutdown too.
DataLive ==
  Up => \A c \in Conn :
    pc[c] \notin {"none", "dropped", "done"} => thread_data[c].mem = "live"

\* A malloc or a send that fails is logged and costs its connection: main
\* leaves the loop that serves clients only after a signal.
OnlySignalStopsServer ==
  [][(main \in Serving /\ main' \notin Serving) => ~is_active]_vars
=============================================================================
