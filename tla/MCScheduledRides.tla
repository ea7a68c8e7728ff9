-------------------------- MODULE MCScheduledRides --------------------------
(* One booking, a job runner, and two recovery scans that may overlap; the *)
(* second attempt of a job is its last.                                    *)
EXTENDS ScheduledRides
=============================================================================
