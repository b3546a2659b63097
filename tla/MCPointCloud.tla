----------------------------- MODULE MCPointCloud -----------------------------
(***************************************************************************)
(* Setups for the runs of PointCloudPipeline.                              *)
(***************************************************************************)
EXTENDS PointCloudProperties

Setup(format, delay, stream) ==
  [xfer_format |-> format, store_buffer |-> delay, streaming |-> stream]

\* A machine with store buffers, for what must hold of the ring whatever comes.
Delaying == {Setup("cloud2", TRUE, FALSE)}

\* Lidars that may fall silent, where no store is delayed; lidars that keep
\* sending, where stores are; the same with the format that takes no frame.
Served == {Setup("custom", FALSE, FALSE), Setup("custom", TRUE, TRUE),
           Setup("pcl", TRUE, TRUE)}
=============================================================================
