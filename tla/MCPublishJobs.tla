---------------------------- MODULE MCPublishJobs ----------------------------
(* PublishJobs on small instances.                                         *)
EXTENDS PublishJobs
=============================================================================
