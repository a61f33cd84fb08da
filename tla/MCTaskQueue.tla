---------------------------- MODULE MCTaskQueue ----------------------------
(* Instances of TaskQueue for TLC. *)
EXTENDS TaskQueue, TLC

\* Cache files at start-up: none, the magnet file of any task, any file at all.
NoFiles     == {}
MagnetFiles == [ih : Hash, tp : {"magnet"}]
AllFiles    == Elem

Symmetry == Permutations(Hash) \cup Permutations(Obj) \cup Permutations(Api) \cup Permutations(Proc)
=============================================================================
