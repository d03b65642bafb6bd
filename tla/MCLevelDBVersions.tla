-------------------------- MODULE MCLevelDBVersions --------------------------
(* Workloads: two keys are put, one of them is deleted and the first is    *)
(* put again; and one order of writes for the run that flushes in the      *)
(* middle of a manual compaction.                                          *)
EXTENDS LevelDBVersions

Put(key) == [key |-> key, delete |-> FALSE]
Delete(key) == [key |-> key, delete |-> TRUE]

MCKey == 1..2
MCWorkload == << {Put(1)}, {Put(2)}, {Delete(2), Delete(1)}, {Put(1)} >>

MCThreeKeys == 1..3
MCOneOrder == << {Put(1)}, {Put(1)}, {Put(3)}, {Put(3)}, {Put(2)} >>
=============================================================================
