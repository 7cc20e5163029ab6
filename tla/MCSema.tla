------------------------------- MODULE MCSema -------------------------------
(***************************************************************************)
(* The bounds of the run of Sema: the semaphore of the lists of streams    *)
(* and that of one stream, which flushall takes under it.                  *)
(***************************************************************************)
EXTENDS Sema

CONSTANTS IOBSemaphore, FileSemaphore
MCLocks == {IOBSemaphore, FileSemaphore}
MCUnder == {<<IOBSemaphore, FileSemaphore>>}
=============================================================================
