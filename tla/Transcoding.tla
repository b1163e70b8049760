----------------------------- MODULE Transcoding -----------------------------
(***************************************************************************)
(* TranscodingQueue (ictv/storage/transcoding_queue.py): requests put jobs *)
(* in a queue; one thread takes them, runs ffmpeg for each, and calls back *)
(* the plugin that asked for it with the outcome.  Whatever is raised      *)
(* while a job runs is taken for its failure, what the callback of a       *)
(* success raises too; but nothing handles what the callback of a failure  *)
(* raises, which ends the thread.                                          *)
(***************************************************************************)
EXTENDS Sequences, SequencesExt

CONSTANTS
    Jobs,       \* calls of enqueue_task
    Paths,      \* output files
    Output,     \* Output[j]: that of a job
    NoJob

ASSUME TranscodingAssumption == Output \in [Jobs -> Paths] /\ NoJob \notin Jobs

VARIABLES
    taskQueue,  \* the jobs that wait
    enqueued,   \* enqueued[j]: "no", "put" in the queue, or "yes", once its progress is 0
    progress,   \* the entry of a path in _pending_tasks: "none", "zero", "some"
    running,    \* _running
    worker,     \* the thread: "get", "run", "succeeded", "failed", "dead" or "stopped"
    job,        \* the job it runs
    ffmpeg,     \* jobs whose ffmpeg runs
    called      \* called[j]: the outcomes that its callback was given

queueVars == <<taskQueue, enqueued, progress, running, worker, job, ffmpeg, called>>

QueueInit ==
    /\ taskQueue = <<>>
    /\ enqueued = [j \in Jobs |-> "no"]
    /\ progress = [p \in Paths |-> "none"]
    /\ running = TRUE
    /\ worker = "get" /\ job = NoJob
    /\ ffmpeg = {}
    /\ called = [j \in Jobs |-> {}]

Worker(from, to) == worker = from /\ worker' = to

\* enqueue_task: the job is in the queue before its progress is reset.
Put(j) ==
    /\ enqueued[j] = "no"
    /\ enqueued' = [enqueued EXCEPT ![j] = "put"]
    /\ taskQueue' = Append(taskQueue, j)
    /\ UNCHANGED <<progress, running, worker, job, ffmpeg, called>>

ResetProgress(j) ==
    /\ enqueued[j] = "put"
    /\ enqueued' = [enqueued EXCEPT ![j] = "yes"]
    /\ progress' = [progress EXCEPT ![Output[j]] = "zero"]
    /\ UNCHANGED <<taskQueue, running, worker, job, ffmpeg, called>>

\* The thread takes the next job and starts its ffmpeg,
Get ==
    /\ running /\ taskQueue # <<>>
    /\ Worker("get", "run")
    /\ job' = Head(taskQueue)
    /\ taskQueue' = Tail(taskQueue)
    /\ ffmpeg' = ffmpeg \cup {job'}
    /\ UNCHANGED <<enqueued, progress, running, called>>

\* or fails to (the video cannot be parsed).
GetFails ==
    /\ running /\ taskQueue # <<>>
    /\ Worker("get", "failed")
    /\ job' = Head(taskQueue)
    /\ taskQueue' = Tail(taskQueue)
    /\ UNCHANGED <<enqueued, progress, running, ffmpeg, called>>

\* It reads what ffmpeg prints,
UpdateProgress ==
    /\ worker = "run"
    /\ progress' = [progress EXCEPT ![Output[job]] = "some"]
    /\ UNCHANGED <<taskQueue, enqueued, running, worker, job, ffmpeg, called>>

\* Mutant of Decode: an ffmpeg whose output is not read any more is taken for a success.
DecodeIgnored ==
    /\ Worker("run", "succeeded")
    /\ UNCHANGED <<taskQueue, enqueued, progress, running, job, ffmpeg, called>>

\* byte by byte: a character of several is one too many for decode, and the job is a
\* failure, whose ffmpeg goes on.
Decode ==
    /\ Worker("run", "failed")
    /\ UNCHANGED <<taskQueue, enqueued, progress, running, job, ffmpeg, called>>

\* Its return code says how it ended.
FfmpegEnds ==
    /\ worker = "run" /\ job \in ffmpeg
    /\ worker' \in {"succeeded", "failed"}
    /\ ffmpeg' = ffmpeg \ {job}
    /\ UNCHANGED <<taskQueue, enqueued, progress, running, job, called>>

\* Nobody waits for an ffmpeg that was given up.
LostFfmpegEnds(j) ==
    /\ ffmpeg' = ffmpeg \ {j} /\ j \in ffmpeg
    /\ ~(worker = "run" /\ job = j)
    /\ UNCHANGED <<taskQueue, enqueued, progress, running, worker, job, called>>

Call(from, outcome) ==
    /\ worker = from
    /\ called' = [called EXCEPT ![job] = @ \cup {outcome}]
    /\ UNCHANGED <<taskQueue, enqueued, progress, running, ffmpeg>>

\* callback(True) returns, or raises, and the job is a failure after all;
CallSuccess == Call("succeeded", "success") /\ worker' = "get" /\ job' = NoJob
CallSuccessRaises == Call("succeeded", "success") /\ worker' = "failed" /\ UNCHANGED job

\* Mutant of CallFailure: the failure is only logged.
CallFailureLogged ==
    /\ Worker("failed", "get") /\ job' = NoJob
    /\ UNCHANGED <<taskQueue, enqueued, progress, running, ffmpeg, called>>

\* callback(False) returns, or raises, and the thread is no more.
CallFailure == Call("failed", "failure") /\ worker' = "get" /\ job' = NoJob
CallFailureRaises == Call("failed", "failure") /\ worker' = "dead" /\ job' = NoJob

\* close_app: the thread ends when its job is over, and what is in the queue stays there.
Stop ==
    /\ running /\ running' = FALSE
    /\ UNCHANGED <<taskQueue, enqueued, progress, worker, job, ffmpeg, called>>

Exit ==
    /\ ~running /\ Worker("get", "stopped")
    /\ UNCHANGED <<taskQueue, enqueued, progress, running, job, ffmpeg, called>>

-----------------------------------------------------------------------------

Works ==
    \/ Get \/ GetFails \/ FfmpegEnds \/ Decode
    \/ CallSuccess \/ CallSuccessRaises \/ CallFailure \/ CallFailureRaises \/ Exit

QueueNext ==
    \/ \E j \in Jobs : Put(j) \/ ResetProgress(j) \/ LostFfmpegEnds(j)
    \/ Works \/ UpdateProgress \/ Stop

QueueSpec == QueueInit /\ [][QueueNext]_queueVars

-----------------------------------------------------------------------------
(* Properties. *)

\* Who enqueued a job is called back, unless the application is stopped, or the callback of
\* a failure has raised, which no later job survives.
JobsAreAnswered ==
    \A j \in Jobs : (enqueued[j] # "no") ~> (called[j] # {} \/ ~running \/ worker = "dead")

\* A job that is reported as a success has written its file whole; another ffmpeg can still
\* be writing it only if a job for the same file was reported as a failure before.
SuccessIsWhole ==
    \A j \in Jobs : (worker = "succeeded" /\ job = j) \/ "success" \in called[j] =>
        /\ j \notin ffmpeg
        /\ \A k \in ffmpeg : Output[k] = Output[j] =>
               job = k \/ "failure" \in called[k]
=============================================================================
