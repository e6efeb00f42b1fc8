------------------------------ MODULE MCSched ------------------------------
(* Small instances of the scheduler for model checking.                    *)
EXTENDS Sched

OneCPU  == {"cpu0"}
TwoCPUs == {"cpu0", "cpu1"}
=============================================================================
