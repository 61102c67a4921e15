----------------------------- MODULE CommandLog -----------------------------
(***************************************************************************)
(* What /dev/aesdchar promises to those who write to it: it keeps the last *)
(* N commands, a command being everything written up to a write that ends  *)
(* in a newline, and the command that is still being written.  Commands    *)
(* never change once they are complete; the oldest goes when one too many  *)
(* arrives.  AesdChar, the model of the driver, implements this.           *)
(***************************************************************************)
EXTENDS Integers, Sequences

CONSTANTS
  N,       \* how many commands are kept
  NL,      \* the newline byte
  Uninit,  \* a byte nobody wrote
  Chunk    \* what one write may carry: non-empty sequences of bytes

VARIABLES
  log,     \* the commands kept, oldest first
  partial  \* the command still being written

vars == <<log, partial>>

Init == log = <<>> /\ partial = <<>>

Write(c) ==
  IF c[Len(c)] = NL
  THEN /\ log' = Append(IF Len(log) = N THEN Tail(log) ELSE log, partial \o c)
       /\ partial' = <<>>
  ELSE /\ partial' = partial \o c
       /\ UNCHANGED log

\* A write that finds no memory loses the bytes of the command under way,
\* but not their number.
Forget ==
  /\ partial' = [i \in 1..Len(partial) |-> Uninit]
  /\ UNCHANGED log

\* Unloading the module, or loading it again, empties the device.
Reset == log' = <<>> /\ partial' = <<>>

\* All commands end to end: what a file position is an index of.
Contents(l) ==
  LET cat[i \in 0..Len(l)] == IF i = 0 THEN <<>> ELSE cat[i - 1] \o l[i]
  IN  cat[Len(l)]

\* The seeks that are accepted, to byte offset of command number cmd, both
\* counted from zero, and the position they go to.  The device also accepts
\* the offset just behind the command's last byte.
SeekOk(cmd, offset) == cmd < Len(log) /\ offset <= Len(log[cmd + 1])

SeekPos(cmd, offset) == Len(Contents(SubSeq(log, 1, cmd))) + offset

Next ==
  \/ \E c \in Chunk : Write(c)
  \/ Forget
  \/ Reset

Spec == Init /\ [][Next]_vars
=============================================================================
