---------------------------- MODULE SystemCalls -----------------------------
(***************************************************************************)
(* examples/systemcalls/systemcalls.c: a program calls do_system, do_exec  *)
(* and do_exec_redirect one after the other, each of which starts a child  *)
(* process, runs a command in it and waits for its end.  The steps of the  *)
(* caller and of its children interleave; a child whose waitpid failed     *)
(* goes on beside the calls that follow.  All redirections go to one file. *)
(***************************************************************************)
EXTENDS Integers, Sequences

CONSTANTS
  Failures,  \* the system calls that fail: see Failure
  MaxCalls   \* bound: how many calls the program makes

\* waitpid fails when a signal interrupts it.
Failure == {"open", "fork", "dup2", "execv", "waitpid"}

ASSUME CallsAssumption == Failures \subseteq Failure /\ MaxCalls \in Nat

Call == 1..MaxCalls

VARIABLES
  pc,        \* where the caller is: "idle", or in call number call
  call,
  kind,      \* per call: the function called
  fds,       \* the calls whose outputfile is open in the caller
  proc,      \* per call: its child process
  result,    \* per call: what it has returned
  buffered,  \* whether the caller's stdout holds text not yet written out
  contents   \* who has written to the file, 0 being the text of the caller

vars == <<pc, call, kind, fds, proc, result, buffered, contents>>

\* state, where stdout goes, whether the copied stdout buffer holds text of
\* the caller, and the status for waitpid.
NoProc == [state |-> "none", stdout |-> "terminal", text |-> FALSE, status |-> "none"]

Init ==
  /\ pc = "idle" /\ call = 0
  /\ kind = [k \in Call |-> "none"]
  /\ fds = {}
  /\ proc = [k \in Call |-> NoProc]
  /\ result = [k \in Call |-> "none"]
  /\ buffered = FALSE
  /\ contents = <<>>

-----------------------------------------------------------------------------
(***************************************************************************)
(* The caller.                                                             *)
(***************************************************************************)
\* Between calls it prints, or its stdout is flushed.
caller_prints ==
  /\ pc = "idle"
  /\ buffered' = ~buffered
  /\ UNCHANGED <<pc, call, kind, fds, proc, result, contents>>

Enter(function, label) ==
  /\ pc = "idle"
  /\ call < MaxCalls
  /\ call' = call + 1
  /\ kind' = [kind EXCEPT ![call'] = function]
  /\ pc' = label
  /\ UNCHANGED <<fds, proc, result, buffered, contents>>

do_system == Enter("do_system", "fork")
do_exec == Enter("do_exec", "fork")
do_exec_redirect == Enter("do_exec_redirect", "open")

Return(value) ==
  /\ pc' = "idle"
  /\ result' = [result EXCEPT ![call] = value]

\* Mutant of open_outputfile: without O_TRUNC.
Mut_open_outputfile ==
  /\ pc = "open"
  /\ fds' = fds \cup {call}
  /\ pc' = "fork"
  /\ UNCHANGED <<call, kind, proc, result, buffered, contents>>

open_outputfile ==
  /\ pc = "open"
  /\ fds' = fds \cup {call}
  /\ contents' = <<>>
  /\ pc' = "fork"
  /\ UNCHANGED <<call, kind, proc, result, buffered>>

\* Mutant of open_fails: goes on with the descriptor -1.
Mut_open_fails ==
  /\ pc = "open"
  /\ "open" \in Failures
  /\ fds' = fds \cup {-1}
  /\ pc' = "fork"
  /\ UNCHANGED <<call, kind, proc, result, buffered, contents>>

open_fails ==
  /\ pc = "open"
  /\ "open" \in Failures
  /\ Return("false")
  /\ UNCHANGED <<call, kind, fds, proc, buffered, contents>>

\* system forks too, and its child goes on to the shell, and the command, at
\* once: whatever fails there is a status of the command.
fork ==
  /\ pc = "fork"
  /\ proc' = [proc EXCEPT ![call].text = buffered, ![call].state =
       CASE kind[call] = "do_system"        -> "command"
         [] kind[call] = "do_exec"          -> "execv"
         [] kind[call] = "do_exec_redirect" -> "dup2"]
  /\ pc' = "wait"
  /\ UNCHANGED <<call, kind, fds, result, buffered, contents>>

\* The outputfile stays open.
fork_fails ==
  /\ pc = "fork"
  /\ "fork" \in Failures
  /\ Return("false")
  /\ UNCHANGED <<call, kind, fds, proc, buffered, contents>>

Succeeded(status) == status = "exit0"

\* Mutant of waitpid: takes whichever child has ended.
Mut_waitpid ==
  /\ pc = "wait"
  /\ \E k \in Call :
       /\ proc[k].state = "zombie"
       /\ proc' = [proc EXCEPT ![k].state = "reaped"]
       /\ Return(IF Succeeded(proc[k].status) THEN "true" ELSE "false")
  /\ UNCHANGED <<call, kind, fds, buffered, contents>>

waitpid ==
  /\ pc = "wait"
  /\ proc[call].state = "zombie"
  /\ proc' = [proc EXCEPT ![call].state = "reaped"]
  /\ Return(IF Succeeded(proc[call].status) THEN "true" ELSE "false")
  /\ UNCHANGED <<call, kind, fds, buffered, contents>>

\* The child stays; system would try again.
waitpid_fails ==
  /\ pc = "wait"
  /\ kind[call] # "do_system"
  /\ "waitpid" \in Failures
  /\ Return("false")
  /\ UNCHANGED <<call, kind, fds, proc, buffered, contents>>

-----------------------------------------------------------------------------
(***************************************************************************)
(* A child.  Where the output of a child that is left over lands in a file *)
(* that was truncated meanwhile is not told apart from its end.            *)
(***************************************************************************)
Ends(k, status) == proc' = [proc EXCEPT ![k].state = "zombie", ![k].status = status]

Writes(k, who) ==
  contents' = IF proc[k].stdout = "file" THEN Append(contents, who) ELSE contents

\* exit(1), which writes out the copy of the caller's stdout buffer.
child_exit(k) ==
  /\ Ends(k, "exit1")
  /\ IF proc[k].text THEN Writes(k, 0) ELSE UNCHANGED contents

child_dup2(k) ==
  /\ proc[k].state = "dup2"
  /\ \/ /\ proc' = [proc EXCEPT ![k].state = "execv", ![k].stdout = "file"]
        /\ UNCHANGED contents
     \/ "dup2" \in Failures /\ child_exit(k)
  /\ UNCHANGED <<pc, call, kind, fds, result, buffered>>

\* Mutant of child_execv: goes on in the caller's code when execv fails.
Mut_child_execv(k) ==
  /\ proc[k].state = "execv"
  /\ \/ proc' = [proc EXCEPT ![k].state = "command"]
     \/ "execv" \in Failures /\ proc' = [proc EXCEPT ![k].state = "none"]
  /\ UNCHANGED <<pc, call, kind, fds, result, buffered, contents>>

child_execv(k) ==
  /\ proc[k].state = "execv"
  /\ \/ /\ proc' = [proc EXCEPT ![k].state = "command"]
        /\ UNCHANGED contents
     \/ "execv" \in Failures /\ child_exit(k)
  /\ UNCHANGED <<pc, call, kind, fds, result, buffered>>

\* The command writes its output and ends.
child_command(k) ==
  /\ proc[k].state = "command"
  /\ \E status \in {"exit0", "exit1", "signal"} : Ends(k, status)
  /\ Writes(k, k)
  /\ UNCHANGED <<pc, call, kind, fds, result, buffered>>

child(k) == child_dup2(k) \/ child_execv(k) \/ child_command(k)

-----------------------------------------------------------------------------
Next ==
  \/ caller_prints
  \/ do_system \/ do_exec \/ do_exec_redirect
  \/ open_outputfile \/ open_fails
  \/ fork \/ fork_fails
  \/ waitpid \/ waitpid_fails
  \/ \E k \in Call : child(k)

\* The caller and its children run, and commands end.
Fairness ==
  /\ WF_vars(open_outputfile \/ fork \/ waitpid)
  /\ \A k \in Call : WF_vars(child(k))

Spec == Init /\ [][Next]_vars /\ Fairness

-----------------------------------------------------------------------------
\* Type invariant of the caller's locals, its descriptors, its children and
\* the output file.
TypeOK ==
  /\ pc \in {"idle", "open", "fork", "wait"}
  /\ call \in 0..MaxCalls
  /\ kind \in [Call -> {"none", "do_system", "do_exec", "do_exec_redirect"}]
  /\ fds \subseteq Call
  /\ proc \in [Call -> [state : {"none", "dup2", "execv", "command", "zombie", "reaped"},
                        stdout : {"terminal", "file"}, text : BOOLEAN,
                        status : {"none", "exit0", "exit1", "signal"}]]
  /\ result \in [Call -> {"none", "true", "false"}]
  /\ buffered \in BOOLEAN
  /\ contents \in Seq(0..MaxCalls)

\* A call returns true exactly when the child it started itself has ended
\* with status 0 and was waited for, whatever children earlier calls have
\* left behind; that child's output then went where it was asked to.
ResultIsOfOwnCommand ==
  \A k \in Call :
    /\ result[k] = "true" =>
         /\ proc[k].state = "reaped" /\ proc[k].status = "exit0"
         /\ proc[k].stdout = IF kind[k] = "do_exec_redirect" THEN "file" ELSE "terminal"
    /\ result[k] = "false" => ~(proc[k].state = "reaped" /\ proc[k].status = "exit0")

\* Children of calls that have returned and not waited for them.
LeftOver == {k \in Call : result[k] # "none" /\ proc[k].state \notin {"none", "reaped"}}

\* When do_exec_redirect returns true, the file holds the output of its
\* command and nothing else: nothing of earlier calls, and no text the caller
\* had buffered when it forked, which only a failed execv writes out again.
\* Children that earlier calls have left may still write, so there are none.
FileHoldsOutput ==
  [][\A k \in Call :
       result'[k] # result[k] /\ result'[k] = "true" /\ kind[k] = "do_exec_redirect"
         /\ LeftOver = {} => contents = <<k>>]_vars

\* Every call returns when commands end: on none of its paths does a child
\* stay that the caller waits for in vain.
EveryCallReturns == pc # "idle" ~> pc = "idle"
=============================================================================
