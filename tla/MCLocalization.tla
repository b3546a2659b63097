---------------------------- MODULE MCLocalization ----------------------------
(***************************************************************************)
(* Parameter files for the run of Localization.                            *)
(***************************************************************************)
EXTENDS LocalizationProperties

\* localization.yaml as it is installed, and one that differs in each.
Installed == [use_pcd_map |-> TRUE, set_initial_pose |-> TRUE, use_odom |-> FALSE,
              enable_map_odom_tf |-> FALSE, enable_timer_publishing |-> FALSE]
Files == {Installed,
          [Installed EXCEPT !.enable_map_odom_tf = TRUE],
          [Installed EXCEPT !.enable_timer_publishing = TRUE],
          [Installed EXCEPT !.use_pcd_map = FALSE, !.set_initial_pose = FALSE,
                            !.use_odom = TRUE]}
=============================================================================
