--------------------------- MODULE MCMemoryBatch ---------------------------
(* Model values for MemoryBatch: two files, one of them large.             *)
EXTENDS MemoryBatch

CONSTANTS a, b

MCFiles == {a, b}
MCBig == {b}
MCEdited == {a}
MCShared == {b}
=============================================================================
