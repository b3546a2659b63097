--------------------------- MODULE MCFrameAssembly ---------------------------
(***************************************************************************)
(* The packets of the run of FrameAssembly: a few of either kind from two  *)
(* lidars, or a longer stream from one lidar that is synchronised, so that *)
(* a frame can span an interval.                                           *)
(***************************************************************************)
EXTENDS FrameAssemblyProperties

CONSTANTS l1, l2, MaxMixed

Mixed(t) == packets < MaxMixed /\ t \in {2, 3}

Stream(l, sync, known) ==
  l = l1 /\ sync /\ known /\ ~unsynced /\ count[l2] = 0 /\ now = 0

MCNext ==
  \/ \E l \in Lidars, sync \in Syncs, known \in BOOLEAN, t \in Stamps, d \in Lengths :
       (Mixed(t) \/ Stream(l, sync, known)) /\ Receive(l, sync, known, t, d)
  \/ packets < MaxMixed /\ \E sync \in Syncs : ReceiveImu(sync)
  \/ RawDataProcess
  \/ RequestExit
  \/ packets <= MaxMixed /\ Tick

MCSpec == Init /\ [][MCNext]_vars /\ WF_vars(RawDataProcess)
=============================================================================
