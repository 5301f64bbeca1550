--------------------- MODULE MCServiceExecutionCapacity ---------------------
(* ServiceExecutionCapacity on small sets of tasks, for TLC. *)
EXTENDS ServiceExecutionCapacity

CONSTANTS t1, t2

TwoTasks == {t1, t2}
OneBilled == {t1}
=============================================================================
