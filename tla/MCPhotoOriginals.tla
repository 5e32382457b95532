-------------------------- MODULE MCPhotoOriginals --------------------------
(* PhotoOriginals on small instances: the .cfg files choose which jobs run. *)
EXTENDS PhotoOriginals, TLC

\* Photos, Drive file ids and the jobs of one kind are interchangeable.
Symmetry ==
  Permutations(Photos) \cup Permutations(Files) \cup Permutations(BackupJobs)
    \cup Permutations(ReclaimJobs) \cup Permutations(BackupSweeps)

=============================================================================
