---------------------------- MODULE MCFileCache ----------------------------
(***************************************************************************)
(* Instances of FileCache for TLC.                                         *)
(***************************************************************************)
EXTENDS FileCache, TLC

MCLength  == [v \in Version |-> v]           \* the bodies differ in length
MCShrinking == [v \in Version |-> 3 - v]    \* the later body is the shorter
MCWithEmpty == [v \in Version |-> 4 - 2 * v]  \* version 2 is an empty file

MCNoRequests == {}
MCOneRequest == {<<2, 0>>}
MCRequestsAndNone == {<<2, 0>>, <<2, 1>>, <<1, 3>>, <<0, 1>>}
MCRequestsToEnd == {<<1, 0>>, <<2, 1>>, <<1, 3>>}

Symmetric == Permutations(Buf)
SymmetricThreads == Permutations(Buf) \cup Permutations(Threads)

(* The histories result, reply and seen, which no step reads, are left out.  *)
MemoryView == <<status, server, entryVars, heap, pc, file, req, rd>>
=============================================================================
