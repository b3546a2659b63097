---------------------------- MODULE MCLidarConfig ----------------------------
(***************************************************************************)
(* Config files for the runs of LidarConfig.                               *)
(***************************************************************************)
EXTENDS LidarConfigProperties, TLC

CONSTANTS whole, stranger, visitor

\* An entry that asks for a data type and a pattern.
File == [h \in Defined |-> {"data_type", "scan_pattern"}]

\* The lidars without an entry are interchangeable.
Strangers == Permutations({stranger, visitor})
=============================================================================
