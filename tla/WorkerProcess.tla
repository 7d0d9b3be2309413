------------------------------ MODULE WorkerProcess ------------------------------
(***************************************************************************)
(* A worker process and its parent: IsolatedPluginRunner.run with          *)
(* plugin_worker.main, and _execute_worker and _invoke_worker of the gate  *)
(* with _ids_worker.main.  The parent sends the request, waits with a      *)
(* timeout, kills what is late, reaps it and judges what is in the output  *)
(* file; the worker computes, writes its answer piece by piece and exits,  *)
(* or hangs, or dies at any point.                                         *)
(*                                                                         *)
(* An answer is a number of pieces: it parses when all of them are there.  *)
(***************************************************************************)
EXTENDS WorkerRequests

VARIABLES
    job,
    pc,        \* where the parent is
    worker,    \* "none", "started", "computing", "writing", "exited" (a zombie) or "reaped"
    code,      \* how the worker ended: "none", "success", "error" or "signal"
    output,    \* the pieces in the output file
    signal,    \* the last signal sent to the worker
    timedOut,
    outcome

process == <<worker, code, output, signal, timedOut>>
vars == <<job, pc, process, outcome>>

Alive == worker \in {"started", "computing", "writing"}

Init ==
    /\ job \in WorkerJobs
    /\ pc = "check"
    /\ worker = "none" /\ code = "none" /\ output = 0
    /\ signal = "none" /\ timedOut = FALSE
    /\ outcome = "running"

(***************************************************************************)
(* The parent.                                                             *)
(***************************************************************************)
Refuse ==
    /\ pc = "check" /\ ~job.admitted
    /\ pc' = "done" /\ outcome' = "refused"
    /\ UNCHANGED <<job, process>>

Spawn ==
    /\ pc = "check" /\ job.admitted
    /\ pc' = "send" /\ worker' = "started"
    /\ UNCHANGED <<job, code, output, signal, timedOut, outcome>>

(* communicate: the request is written while the worker reads it; a closed pipe is no error. *)
Send ==
    /\ pc = "send" /\ worker # "started"
    /\ pc' = "wait"
    /\ UNCHANGED <<job, process, outcome>>

Reap ==
    /\ pc = "wait" /\ worker = "exited"
    /\ pc' = "judge" /\ worker' = "reaped"
    /\ UNCHANGED <<job, code, output, signal, timedOut, outcome>>

(* TimeoutExpired: the worker may have exited since it was looked at last, but is not reaped. *)
Timeout ==
    /\ pc \in {"send", "wait"}
    /\ timedOut' = TRUE
    /\ pc' = IF job.runner = "plugin" THEN "kill" ELSE "terminate"
    /\ UNCHANGED <<job, worker, code, output, signal, outcome>>

Terminate ==
    /\ pc = "terminate"
    /\ signal' = "TERM"
    /\ pc' = "grace"
    /\ UNCHANGED <<job, worker, code, output, timedOut, outcome>>

(* process.wait(timeout=2) *)
ReapInGraceUnreaped ==
    /\ pc = "grace" /\ worker = "exited"
    /\ pc' = "judge"
    /\ UNCHANGED <<job, process, outcome>>

ReapInGrace ==
    /\ pc = "grace" /\ worker = "exited"
    /\ pc' = "judge" /\ worker' = "reaped"
    /\ UNCHANGED <<job, code, output, signal, timedOut, outcome>>

GraceOverWaiting ==
    /\ pc = "grace"
    /\ pc' = "killed"
    /\ UNCHANGED <<job, process, outcome>>

GraceOver ==
    /\ pc = "grace"
    /\ pc' = "kill"
    /\ UNCHANGED <<job, process, outcome>>

Kill ==
    /\ pc = "kill"
    /\ signal' = "KILL"
    /\ pc' = "killed"
    /\ UNCHANGED <<job, worker, code, output, timedOut, outcome>>

ReapKilled ==
    /\ pc = "killed" /\ worker = "exited"
    /\ pc' = "judge" /\ worker' = "reaped"
    /\ UNCHANGED <<job, code, output, signal, timedOut, outcome>>

Whole == output = job.length
(* A plugin's parent catches a JSONDecodeError; an answer that is cut in the middle of a character escapes it. *)
PluginVerdicts ==
    IF timedOut THEN {"timeout"}
    ELSE IF output >= MaxOutput THEN {"output_limit"}
    ELSE IF ~Whole THEN {"invalid", "UnicodeDecodeError"}
    ELSE IF job.answer = "failure" THEN {"failed"} ELSE {"result"}
IdsVerdict ==
    IF timedOut THEN "timeout"
    ELSE IF code # "success" THEN "crash"
    ELSE IF output > MaxOutput THEN "output_limit"
    ELSE IF ~Whole THEN "invalid" ELSE "result"

Judge ==
    /\ pc = "judge"
    /\ pc' = "done"
    /\ outcome' \in IF job.runner = "plugin" THEN PluginVerdicts ELSE {IdsVerdict}
    /\ UNCHANGED <<job, process>>

(***************************************************************************)
(* The worker.                                                             *)
(***************************************************************************)
Read ==
    /\ worker = "started"
    /\ worker' = "computing"
    /\ UNCHANGED <<job, pc, code, output, signal, timedOut, outcome>>

(* The worker of the gate writes nothing when it fails. *)
Compute ==
    /\ worker = "computing" /\ ~job.hangs
    /\ worker' = "writing"
    /\ UNCHANGED <<job, pc, code, output, signal, timedOut, outcome>>

Silent == job.runner = "ids" /\ job.answer = "failure"
(* RLIMIT_FSIZE bounds the files of a plugin. *)
Blocked == job.runner = "plugin" /\ output = MaxOutput

WritePiece ==
    /\ worker = "writing" /\ ~Silent /\ ~Blocked /\ output < job.length
    /\ output' = output + 1
    /\ UNCHANGED <<job, pc, worker, code, signal, timedOut, outcome>>

Exit ==
    /\ worker = "writing" /\ (Silent \/ Blocked \/ output = job.length)
    /\ worker' = "exited"
    /\ code' = IF job.answer = "ok" /\ output = job.length THEN "success" ELSE "error"
    /\ UNCHANGED <<job, pc, output, signal, timedOut, outcome>>

Die ==
    /\ Alive
    /\ \/ job.mortal
       \/ signal = "KILL"
       \/ signal = "TERM" /\ ~job.deaf
    /\ worker' = "exited" /\ code' = "signal"
    /\ UNCHANGED <<job, pc, output, signal, timedOut, outcome>>

Parent ==
    \/ Refuse \/ Spawn \/ Send \/ Reap \/ Timeout \/ Terminate \/ ReapInGrace \/ GraceOver \/ Kill \/ ReapKilled \/ Judge
Worker == Read \/ Compute \/ WritePiece \/ Exit \/ Die
Next == Parent \/ Worker

Killed == signal = "KILL" /\ Die

(* The parent goes on and its timers expire; a SIGKILL is delivered.  The worker owes nothing. *)
Fairness == WF_vars(Parent) /\ WF_vars(Killed)
Spec == Init /\ [][Next]_vars /\ Fairness

----------------------------------------------------------------------------
TypeOK ==
    /\ job \in WorkerJobs
    /\ pc \in {"check", "send", "wait", "terminate", "grace", "kill", "killed", "judge", "done"}
    /\ worker \in {"none", "started", "computing", "writing", "exited", "reaped"}
    /\ code \in {"none", "success", "error", "signal"}
    /\ output \in 0..MaxLength
    /\ signal \in {"none", "TERM", "KILL"}
    /\ timedOut \in BOOLEAN
    /\ outcome \in {"running", "refused", "timeout", "output_limit", "invalid", "UnicodeDecodeError", "failed", "crash", "result"}

(***************************************************************************)
(* A result is the whole answer of a worker that ended in time: never what *)
(* its parent killed or a crash cut short, and never a late answer, even   *)
(* one that was complete when the deadline hit.                            *)
(***************************************************************************)
ResultIsTheAnswer ==
    outcome = "result" =>
        /\ ~timedOut /\ signal = "none"
        /\ output = job.length /\ job.answer = "ok"

(***************************************************************************)
(* However the call ends, its worker is dead and reaped before the output  *)
(* is read and before the call returns; only what was late is killed, and  *)
(* the gate's worker only after it was asked to end.                       *)
(***************************************************************************)
NothingRunsOn ==
    /\ pc \in {"judge", "done"} => worker = "reaped" \/ (worker = "none" /\ outcome = "refused")
    /\ signal # "none" => timedOut
    /\ timedOut /\ pc = "done" => outcome = "timeout"

(***************************************************************************)
(* Every call returns, whatever its worker does: also when it hangs, when  *)
(* it ignores SIGTERM and when it never reads its request.                 *)
(***************************************************************************)
CallsReturn == <>(pc = "done")

=============================================================================
