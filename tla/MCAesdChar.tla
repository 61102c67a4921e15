----------------------------- MODULE MCAesdChar -----------------------------
(***************************************************************************)
(* Instances of AesdChar for TLC: which bytes are written and who shares   *)
(* which file.                                                             *)
(***************************************************************************)
EXTENDS AesdChar, TLC

CONSTANTS p1, p2, f1, f2, a

MCByte == {a, NL}

\* A write of a newline, and one whose newline is not its last byte, which
\* only begins a command.
MCChunk == {<<NL>>, <<NL, a>>}

\* Writes of the smaller instances.
MCFewChunks == {<<a>>, <<a, NL>>}

\* Offsets passed to lseek and, when not negative, to the ioctl.
MCNoOff   == {0}
MCSeekOff == {0, 1}
MCManyOff == {-1, 0, 1, 2}

\* Who has which file: one each, one for both, one process alone.
OwnFiles == p1 :> f1 @@ p2 :> f2
OneFile  == p1 :> f1 @@ p2 :> f1
SoleFile == p1 :> f1

\* Processes that share a file, and blocks, are interchangeable.
PtrSymmetry  == Permutations(Ptr)
FileSymmetry == Permutations(Ptr) \cup Permutations(Proc)
=============================================================================
