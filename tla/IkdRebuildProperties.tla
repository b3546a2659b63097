------------------------- MODULE IkdRebuildProperties -------------------------
(* What the background rebuild promises to those who use the tree.          *)
EXTENDS IkdRebuild

\* multi_thread_rebuild, 231-272: whatever the odometry inserts and deletes
\* while a subtree is copied, built, brought up to date and put in place, the
\* tree holds exactly the points the operations leave, each as often; and a
\* rebuild finds the log empty when it begins (the check of line 199).
\* The exception is an operation that was logged between the end of a rebuild
\* and the reset of its flag (291-293).
NothingLost ==
  fate = "running" /\ ~late =>
    /\ Content = map
    /\ rebuild \in {"idle", "begin"} => logger = <<>>

\* "Lock Search", 212: no searcher is inside the subtree while it is copied or
\* replaced, and none inside the old one when it is deleted.  The exception is
\* Search_by_range when the subtree is the root's: Add_Points calls it without
\* a lock (430).
SearchExcluded ==
  /\ rebuild \in {"flatten", "flattened", "swap", "swapped"} =>
       \A s \in Searchers : searcher[s] # "in"
  /\ fate = "freed" => place = "root" /\ stale = {"user"}

\* multi_thread_rebuild: a rebuild that was requested comes to its end, although
\* it waits for searchers twice and for the odometry's log to run dry.
RebuildEnds == requested ~> (~requested \/ fate # "running")
=============================================================================
