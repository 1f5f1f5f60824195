---------------------------- MODULE MCJobManager ----------------------------
(* The job manager with one training job and one video job.                  *)
EXTENDS JobManager

CONSTANTS t1, v1

TwoJobs == {t1, v1}
OneTraining == {t1}
OneJob == {t1}

=============================================================================
