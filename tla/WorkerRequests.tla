---------------------------- MODULE WorkerRequests ----------------------------
(***************************************************************************)
(* What a parent asks of a worker process: the parameters of WorkerProcess *)
(* and what is assumed of them.                                            *)
(***************************************************************************)
EXTENDS Naturals

CONSTANTS
    WorkerJobs,  \* the calls: see WorkerJob
    MaxLength,   \* the longest answer, in pieces
    MaxOutput    \* max_output_bytes of the plugins, max_result_bytes of the gate

(* answer: what the worker would say; length: in how many pieces; hangs: it never gets that far;
   deaf: it ignores SIGTERM; mortal: the system may end it (memory, CPU time). *)
WorkerJob ==
    [runner : {"plugin", "ids"}, admitted : BOOLEAN, answer : {"ok", "failure"}, length : 1..MaxLength,
     hangs : BOOLEAN, deaf : BOOLEAN, mortal : BOOLEAN]

ASSUME BoundAssumption == MaxLength \in Nat /\ MaxOutput \in Nat \ {0}
ASSUME JobAssumption == WorkerJobs \subseteq WorkerJob
=============================================================================
