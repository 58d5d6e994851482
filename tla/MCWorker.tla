------------------------------ MODULE MCWorker ------------------------------
(* Two tasks of a caller, each kind of task of the library beside one of     *)
(* them, and a command beside the signals.                                   *)
EXTENDS WorkerTasks

CONSTANTS a, b, cmd1, sig, http
MCTasks == {a, b, cmd1, sig, http}
MCCmds == {cmd1}
MCSigTasks == {sig}
MCServers == {http}
MCTaskSets == {{a, b}, {a, sig}, {a, http}, {cmd1, sig}}
=============================================================================
