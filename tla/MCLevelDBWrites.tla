--------------------------- MODULE MCLevelDBWrites ---------------------------
(* Two plain writers, one that syncs and has more to write, a compaction. *)
EXTENDS LevelDBWrites, TLC

CONSTANTS plain, other, synced, compact

MCWriter == {plain, other, synced, compact}
MCSync == {synced}
MCCompact == {compact}
MCSymmetry == Permutations({plain, other})
MCSize == (plain :> 1 @@ other :> 1 @@ synced :> 2 @@ compact :> 0)
=============================================================================
