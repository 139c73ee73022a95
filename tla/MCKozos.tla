------------------------------ MODULE MCKozos ------------------------------
(* The kernel with one small pool, from which messages, the serial handler and
   the threads all allocate, and the applications of the runs. *)
EXTENDS KozosRefinement

OnePool    == <<32>>
TwoBlocks  == <<2>>
ThreeBlocks == <<3>>

(* The applications of the scheduling runs: everything but messages. *)
SchedCalls    == {"RUN", "EXIT", "WAIT", "SLEEP", "WAKEUP", "GETID", "CHPRI",
                  "SETINTR", "SOFTERR", "CCR"}
MsgCalls      == {"RUN", "WAIT", "SLEEP", "WAKEUP", "KMALLOC", "KMFREE", "SEND",
                  "RECV", "SETINTR", "CCR"}
RunCalls      == {"RUN", "WAIT"}
PlainCalls    == {"RUN", "SLEEP", "WAKEUP", "KMALLOC", "KMFREE", "SEND", "RECV", "SETINTR"}
RoughCalls    == {"RUN", "EXIT", "WAKEUP", "CHPRI", "SEND", "RECV", "SETINTR", "CCR"}
Priorities    == Priority
LowPriority   == {PRIORITY_NUM - 1}
OddPriorities == Priority \cup {-1, PRIORITY_NUM}
Small         == {8}
NoNumbers     == {}
SerialOnly    == {SERINTR}
AnyVector     == {SERINTR, -1, SOFTVEC_TYPE_NUM}
NoBoxes       == {}
BothHandlers  == {"SEND", "WAKEUP"}
WakeHandler   == {"NONE", "WAKEUP"}
SendHandler   == {"SEND"}
=============================================================================
