---------------------------- MODULE MCAesdSocket ----------------------------
(***************************************************************************)
(* Instances of AesdSocket for TLC.                                        *)
(***************************************************************************)
EXTENDS AesdSocket, TLC

\* A seek to the first byte of the first command, to its second byte, and to
\* a command that is seldom there.
MCSeekCmd == {<<0, 0>>, <<0, 1>>, <<1, 0>>}

\* One seek, and none, for the smaller instances.
MCOneSeek == {<<0, 1>>}
MCNoSeek  == {}

\* Connections are interchangeable, and so are the blocks of the list.
ServerSymmetry == Permutations(Conn) \cup Permutations(Node)
=============================================================================
