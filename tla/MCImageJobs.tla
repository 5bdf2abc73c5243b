--------------------------------- MODULE MCImageJobs ---------------------------------
(* ImageJobs for TLC. *)
EXTENDS ImageJobs

CONSTANTS a1

StudioAndPortal == {[desk |-> "studio", managed |-> TRUE, assets |-> {a1}],
                    [desk |-> "portal", managed |-> FALSE, assets |-> Assets]}
LocalStudio == {[desk |-> "studio", managed |-> FALSE, assets |-> {a1}]}
=======================================================================================
