----------------------------- MODULE Threading ------------------------------
(***************************************************************************)
(* examples/threading/threading.c: start_thread_obtaining_mutex starts     *)
(* threads that all take the caller's mutex, one after the other, and      *)
(* return their thread_data for the joiner to free, after which malloc may *)
(* hand the same block to the next thread.  The caller, which is not in    *)
(* the repository, joins each thread and may take the mutex itself.        *)
(***************************************************************************)
EXTENDS Integers

CONSTANTS
  Thread,   \* the threads the caller starts
  Caller,   \* the caller
  Block,    \* the blocks malloc can hand out: the memory there is
  NULL,     \* nobody
  Failures  \* which calls fail: "malloc", "pthread_create"

ASSUME ThreadingAssumption ==
  /\ Caller \notin Thread /\ NULL \notin Thread /\ NULL # Caller /\ NULL \notin Block
  /\ Failures \subseteq {"malloc", "pthread_create"}

VARIABLES
  pc,      \* per thread, and for the caller: where it is
  mutex,   \* the owner of the mutex, or NULL
  live,    \* the blocks that are allocated
  arg,     \* per thread: its thread_param, the block its thread_data is in
  success, \* per block: the thread that has set thread_complete_success in it
  started  \* per thread: what start_thread_obtaining_mutex returned

vars == <<pc, mutex, live, arg, success, started>>

\* Neither malloc nor the code clears thread_complete_success: a block that is
\* handed out again still says what its last thread has stored.
Init ==
  /\ pc = [t \in Thread \cup {Caller} |-> "none"]
  /\ mutex = NULL
  /\ live = {}
  /\ arg = [t \in Thread |-> NULL]
  /\ success = [q \in Block |-> NULL]
  /\ started = [t \in Thread |-> "none"]

\* Thread t, or the caller, goes from one label to the next.
Goes(t, from, to) ==
  /\ pc[t] = from
  /\ pc' = [pc EXCEPT ![t] = to]

-----------------------------------------------------------------------------
\* Thread t runs with a block of its own, whatever that holds.
start_thread_obtaining_mutex(t) ==
  /\ started[t] = "none"
  /\ Goes(t, "none", "obtain")
  /\ \E q \in Block \ live :
       /\ arg' = [arg EXCEPT ![t] = q]
       /\ live' = live \cup {q}
  /\ started' = [started EXCEPT ![t] = "true"]
  /\ UNCHANGED <<mutex, success>>

\* malloc fails, or pthread_create, and then data is not freed.
start_fails(t) ==
  /\ started[t] = "none"
  /\ \/ ("malloc" \in Failures \/ live = Block) /\ UNCHANGED live
     \/ "pthread_create" \in Failures /\ \E q \in Block \ live : live' = live \cup {q}
  /\ started' = [started EXCEPT ![t] = "false"]
  /\ UNCHANGED <<pc, mutex, arg, success>>

\* Mutant of threadfunc_lock: takes no notice of the owner.
Mut_threadfunc_lock(t) ==
  Goes(t, "obtain", "release") /\ mutex' = t /\ UNCHANGED <<live, arg, success, started>>

\* After the first usleep.
threadfunc_lock(t) ==
  /\ Goes(t, "obtain", "release")
  /\ mutex = NULL /\ mutex' = t
  /\ UNCHANGED <<live, arg, success, started>>

\* Mutant of threadfunc_unlock: returns with the mutex locked.
Mut_threadfunc_unlock(t) ==
  Goes(t, "release", "complete") /\ UNCHANGED <<mutex, live, arg, success, started>>

\* After the second.
threadfunc_unlock(t) ==
  /\ Goes(t, "release", "complete")
  /\ mutex' = NULL
  /\ UNCHANGED <<live, arg, success, started>>

\* Mutant of threadfunc_complete: leaves the flag as malloc handed it out.
Mut_threadfunc_complete(t) ==
  Goes(t, "complete", "return") /\ UNCHANGED <<mutex, live, arg, success, started>>

\* The store, which comes after the unlock.
threadfunc_complete(t) ==
  /\ Goes(t, "complete", "return")
  /\ success' = [success EXCEPT ![arg[t]] = t]
  /\ UNCHANGED <<mutex, live, arg, started>>

threadfunc_return(t) ==
  Goes(t, "return", "returned") /\ UNCHANGED <<mutex, live, arg, success, started>>

threadfunc(t) ==
  \/ threadfunc_lock(t) \/ threadfunc_unlock(t)
  \/ threadfunc_complete(t) \/ threadfunc_return(t)

-----------------------------------------------------------------------------
\* The caller joins a thread, looks at its success and frees its data.
caller_joins(t) ==
  /\ Goes(t, "returned", "joined")
  /\ live' = live \ {arg[t]}
  /\ UNCHANGED <<mutex, arg, success, started>>

\* It holds the mutex once for a while.
caller_locks ==
  /\ Goes(Caller, "none", "release")
  /\ mutex = NULL /\ mutex' = Caller
  /\ UNCHANGED <<live, arg, success, started>>

caller_unlocks ==
  /\ Goes(Caller, "release", "done")
  /\ mutex' = NULL
  /\ UNCHANGED <<live, arg, success, started>>

Next ==
  \/ \E t \in Thread :
       start_thread_obtaining_mutex(t) \/ start_fails(t) \/ threadfunc(t) \/ caller_joins(t)
  \/ caller_locks
  \/ caller_unlocks

\* Threads run, and the caller lets go of the mutex and joins.  Everybody
\* takes the mutex once, so that weak fairness is enough for it.
Fairness ==
  /\ \A t \in Thread : WF_vars(threadfunc(t)) /\ WF_vars(caller_joins(t))
  /\ WF_vars(caller_unlocks)

Spec == Init /\ [][Next]_vars /\ Fairness

-----------------------------------------------------------------------------
\* Between the two usleeps of a thread, it and nobody else has the mutex: not
\* another thread and not the caller, who shares it.
HoldsMutexAlone ==
  \A t \in Thread \cup {Caller} : pc[t] = "release" <=> mutex = t

\* What a thread hands its joiner is a live block that no other thread works
\* on, although malloc hands blocks out again, and thread_complete_success in
\* it was set by this very thread: not left there by an earlier one, and not
\* still to be written when the joiner reads it (threadfunc stores it after
\* the unlock and before it returns).
Unjoined == {t \in Thread : pc[t] \notin {"none", "joined"}}

JoinerGetsOwnData ==
  \A t \in Unjoined :
    /\ arg[t] \in live
    /\ \A u \in Unjoined \ {t} : arg[u] # arg[t]
    /\ pc[t] = "returned" => success[arg[t]] = t

\* Every thread that was started gets the mutex, returns and is joined.
EveryThreadJoined ==
  \A t \in Thread : started[t] = "true" ~> pc[t] = "joined"
=============================================================================
