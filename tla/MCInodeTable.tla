---------------------------- MODULE MCInodeTable ----------------------------
(* Constants of InodeTable for TLC. *)
EXTENDS InodeTable

\* A hash that sends both devices' inode 0 to 0, which collides after the
\* reserved numbers are skipped with the inode hashed to 2.
MCMix == [k \in Key |-> IF k.ino = 0 THEN 0 ELSE k.ino + k.dev]
=============================================================================
