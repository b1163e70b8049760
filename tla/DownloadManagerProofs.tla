----------------------- MODULE DownloadManagerProofs -----------------------
(***************************************************************************)
(* Proofs about the jobs that run in the background: DownloadManager, for  *)
(* every number of assets, readers and restarts (an asset in flight is     *)
(* accounted for; and, when one thread serves the requests and the         *)
(* application is not restarted, the links that are written are served),   *)
(* and Transcoding, for every number of jobs. The two share no state.      *)
(***************************************************************************)
EXTENDS DownloadManager, Transcoding, TLAPS

USE DownloadAssumption DEF life

\* The queue of the post-processing thread: what is appended and taken.
LEMMA QueueAppended ==
    ASSUME NEW a \in Assets, queue \in Seq(Assets)
    PROVE  /\ Append(queue, a) \in Seq(Assets)
           /\ \E i \in 1..Len(Append(queue, a)) : Append(queue, a)[i] = a
           /\ \A b \in Assets : InQueue(b) =>
                \E i \in 1..Len(Append(queue, a)) : Append(queue, a)[i] = b
           /\ \A b \in Assets : b # a =>
                \A i \in 1..Len(Append(queue, a)) : Append(queue, a)[i] = b => InQueue(b)
  <1>1. Append(queue, a)[Len(queue) + 1] = a /\ Len(Append(queue, a)) = Len(queue) + 1
    OBVIOUS
  <1>2. \A i \in 1..Len(queue) : Append(queue, a)[i] = queue[i]
    OBVIOUS
  <1> QED BY <1>1, <1>2 DEF InQueue

LEMMA QueueTaken ==
    ASSUME queue \in Seq(Assets), queue # <<>>
    PROVE  /\ Head(queue) \in Assets
           /\ InQueue(Head(queue))
           /\ Tail(queue) \in Seq(Assets)
           /\ \A b \in Assets : InQueue(b) /\ b # Head(queue) =>
                \E i \in 1..Len(Tail(queue)) : Tail(queue)[i] = b
           /\ \A b \in Assets : \A i \in 1..Len(Tail(queue)) : Tail(queue)[i] = b => InQueue(b)
  <1>1. Len(queue) \in Nat \ {0} /\ Head(queue) = queue[1] /\ Len(Tail(queue)) = Len(queue) - 1
    OBVIOUS
  <1>2. \A i \in 1..Len(Tail(queue)) : Tail(queue)[i] = queue[i + 1]
    OBVIOUS
  <1>3. \A i \in 1..Len(queue) :
          i = 1 \/ (i - 1 \in 1..Len(Tail(queue)) /\ Tail(queue)[i - 1] = queue[i])
    BY <1>1, <1>2
  <1> QED BY <1>1, <1>2, <1>3 DEF InQueue

\* What the done callback does to the queue.
LEMMA CallbackRun ==
    ASSUME NEW a \in Assets, TypeOK, RunCallback(a)
    PROVE  /\ queue' \in Seq(Assets)
           /\ task[a] = "done" => InQueue(a)'
           /\ \A b \in Assets : InQueue(b) => InQueue(b)'
           /\ \A b \in Assets : InQueue(b)' => InQueue(b) \/ (b = a /\ task[a] = "done")
  <1>1. queue \in Seq(Assets)
    BY DEF TypeOK
  <1>2. CASE task[a] = "done"
    BY <1>1, <1>2, QueueAppended DEF RunCallback, InQueue
  <1>3. CASE task[a] # "done"
    BY <1>1, <1>3 DEF RunCallback, InQueue
  <1> QED BY <1>2, <1>3

-----------------------------------------------------------------------------
(* The type. *)

LEMMA TypeStep == TypeOK /\ [Next]_vars => TypeOK'
  <1> SUFFICES ASSUME TypeOK, [Next]_vars PROVE TypeOK'
    OBVIOUS
  <1> USE DEF TypeOK, EnqueueStages
  <1>1. ASSUME NEW a \in Assets, Create(a) PROVE TypeOK'
    BY <1>1 DEF Create, Advance, rowVars, loopVars, readerVars
  <1>2. ASSUME NEW a \in Assets, Submit(a) PROVE TypeOK'
    BY <1>2 DEF Submit, Advance, rowVars, loopVars, readerVars
  <1>3. ASSUME NEW a \in Assets, MarkInFlight(a) PROVE TypeOK'
    BY <1>3 DEF MarkInFlight, Advance, rowVars, loopVars, readerVars
  <1>4. ASSUME NEW a \in Assets, AddCallback(a) PROVE TypeOK'
    <2>1. CASE task[a] \in {"done", "failed"}
      <3>1. RunCallback(a) /\ Advance(a, "marked", "watched")
            /\ UNCHANGED <<rowVars, task, pending, readerVars, life>>
        BY <1>4, <2>1 DEF AddCallback
      <3>2. callback' = [callback EXCEPT ![a] = "called"]
        BY <3>1 DEF RunCallback
      <3> QED BY <2>1, <3>1, <3>2, CallbackRun DEF Advance, rowVars, loopVars, readerVars
    <2>2. CASE task[a] \notin {"done", "failed"}
      BY <1>4, <2>2 DEF AddCallback, Advance, rowVars, loopVars, readerVars
    <2> QED BY <2>1, <2>2
  <1>5. ASSUME NEW a \in Assets, Register(a) PROVE TypeOK'
    BY <1>5 DEF Register, Advance, rowVars, loopVars, readerVars
  <1>6. ASSUME NEW a \in Assets, Download(a) PROVE TypeOK'
    BY <1>6 DEF Download, rowVars, loopVars, readerVars
  <1>7. ASSUME NEW a \in Assets, DownloadRaises(a) PROVE TypeOK'
    BY <1>7 DEF DownloadRaises, rowVars, loopVars, readerVars
  <1>8. ASSUME NEW a \in Assets, Notify(a) PROVE TypeOK'
    <2>1. RunCallback(a) /\ callback[a] = "added" /\ task[a] \in {"done", "failed"}
          /\ UNCHANGED <<stage, rowVars, task, pending, readerVars, life>>
      BY <1>8 DEF Notify
    <2>2. callback' = [callback EXCEPT ![a] = "called"]
      BY <2>1 DEF RunCallback
    <2> QED BY <2>1, <2>2, CallbackRun DEF rowVars, loopVars, readerVars
  <1>9. CASE PostProcess
    BY <1>9, QueueTaken DEF PostProcess, rowVars, loopVars, readerVars
  <1>10. ASSUME NEW r \in Readers, NEW a \in Assets, Link(r, a) PROVE TypeOK'
    BY <1>10 DEF Link, Move, rowVars, loopVars, readerVars
  <1>11. ASSUME NEW r \in Readers, OpenPage(r) PROVE TypeOK'
    BY <1>11 DEF OpenPage, Move, rowVars, loopVars, readerVars
  <1>12. ASSUME NEW r \in Readers, TaskOver(r) PROVE TypeOK'
    BY <1>12 DEF TaskOver, Move, rowVars, loopVars, readerVars
  <1>13. ASSUME NEW r \in Readers, ForcePath(r) PROVE TypeOK'
    BY <1>13 DEF ForcePath, Move, rowVars, loopVars, readerVars
  <1>14. ASSUME NEW r \in Readers, Fetch(r) PROVE TypeOK'
    BY <1>14 DEF Fetch, Move, rowVars, loopVars, readerVars
  <1>15. CASE Restart
    BY <1>15 DEF Restart, rowVars, loopVars, readerVars
  <1>16. CASE UNCHANGED vars
    BY <1>16 DEF vars, rowVars, loopVars, readerVars
  <1> QED
    BY <1>1, <1>2, <1>3, <1>4, <1>5, <1>6, <1>7, <1>8, <1>9,
       <1>10, <1>11, <1>12, <1>13, <1>14, <1>15, <1>16
    DEF Next, Enqueue, Loop, Serve

\* The variables keep their types.
THEOREM TypeCorrect == Spec => []TypeOK
  <1>1. Init => TypeOK
    BY DEF Init, TypeOK, EnqueueStages
  <1> QED BY <1>1, TypeStep, PTL DEF Spec

-----------------------------------------------------------------------------
(* An asset in flight is accounted for. *)

LEMMA InFlightStep == InFlightInv /\ [Next]_vars => InFlightInv'
  <1> SUFFICES ASSUME InFlightInv, [Next]_vars PROVE InFlightInv'
    OBVIOUS
  <1> TypeOK /\ TypeOK'
    BY TypeStep DEF InFlightInv
  <1> USE DEF InFlightInv, TypeOK, EnqueueStages
  <1>1. ASSUME NEW a \in Assets, Create(a) PROVE InFlightInv'
    BY <1>1 DEF Create, Advance, rowVars, loopVars, readerVars, InQueue
  <1>2. ASSUME NEW a \in Assets, Submit(a) PROVE InFlightInv'
    BY <1>2 DEF Submit, Advance, rowVars, loopVars, readerVars, InQueue
  <1>3. ASSUME NEW a \in Assets, MarkInFlight(a) PROVE InFlightInv'
    BY <1>3 DEF MarkInFlight, Advance, rowVars, loopVars, readerVars, InQueue
  <1>4. ASSUME NEW a \in Assets, AddCallback(a) PROVE InFlightInv'
    <2>1. CASE task[a] \in {"done", "failed"}
      <3>1. RunCallback(a) /\ Advance(a, "marked", "watched")
            /\ UNCHANGED <<rowVars, task, pending, readerVars, life>>
        BY <1>4, <2>1 DEF AddCallback
      <3>2. callback' = [callback EXCEPT ![a] = "called"]
        BY <3>1 DEF RunCallback
      <3> QED BY <2>1, <3>1, <3>2, CallbackRun DEF Advance, rowVars, loopVars, readerVars
    <2>2. CASE task[a] \notin {"done", "failed"}
      BY <1>4, <2>2 DEF AddCallback, Advance, rowVars, loopVars, readerVars, InQueue
    <2> QED BY <2>1, <2>2
  <1>5. ASSUME NEW a \in Assets, Register(a) PROVE InFlightInv'
    BY <1>5 DEF Register, Advance, rowVars, loopVars, readerVars, InQueue
  <1>6. ASSUME NEW a \in Assets, Download(a) PROVE InFlightInv'
    BY <1>6 DEF Download, rowVars, loopVars, readerVars, InQueue
  <1>7. ASSUME NEW a \in Assets, DownloadRaises(a) PROVE InFlightInv'
    BY <1>7 DEF DownloadRaises, rowVars, loopVars, readerVars, InQueue
  <1>8. ASSUME NEW a \in Assets, Notify(a) PROVE InFlightInv'
    <2>1. RunCallback(a) /\ callback[a] = "added" /\ task[a] \in {"done", "failed"}
          /\ UNCHANGED <<stage, inFlight, file, task, pending, reader, target, life>>
      BY <1>8 DEF Notify, rowVars, loopVars, readerVars
    <2>2. callback' = [callback EXCEPT ![a] = "called"]
      BY <2>1 DEF RunCallback
    <2>3. (task[a] = "done" => InQueue(a)') /\ \A b \in Assets : InQueue(b) => InQueue(b)'
      BY <2>1, CallbackRun
    <2> QED BY <2>1, <2>2, <2>3
  <1>9. CASE PostProcess
    BY <1>9, QueueTaken DEF PostProcess, rowVars, loopVars, readerVars, InQueue
  <1>10. ASSUME NEW r \in Readers, NEW a \in Assets, Link(r, a) PROVE InFlightInv'
    BY <1>10 DEF Link, Move, rowVars, loopVars, readerVars, InQueue
  <1>11. ASSUME NEW r \in Readers, OpenPage(r) PROVE InFlightInv'
    BY <1>11 DEF OpenPage, Move, rowVars, loopVars, readerVars, InQueue
  <1>12. ASSUME NEW r \in Readers, TaskOver(r) PROVE InFlightInv'
    BY <1>12 DEF TaskOver, Move, rowVars, loopVars, readerVars, InQueue
  <1>13. ASSUME NEW r \in Readers, ForcePath(r) PROVE InFlightInv'
    BY <1>13 DEF ForcePath, Move, rowVars, loopVars, readerVars, InQueue
  <1>14. ASSUME NEW r \in Readers, Fetch(r) PROVE InFlightInv'
    BY <1>14 DEF Fetch, Move, rowVars, loopVars, readerVars, InQueue
  <1>15. CASE Restart
    BY <1>15 DEF Restart, rowVars, loopVars, readerVars, InQueue
  <1>16. CASE UNCHANGED vars
    BY <1>16 DEF vars, rowVars, loopVars, readerVars, InQueue
  <1> QED
    BY <1>1, <1>2, <1>3, <1>4, <1>5, <1>6, <1>7, <1>8, <1>9,
       <1>10, <1>11, <1>12, <1>13, <1>14, <1>15, <1>16
    DEF Next, Enqueue, Loop, Serve

\* Whatever the threads, the failures and the restarts, an asset is in flight only
\* while something is still to clear in_flight, or its download raised, or the process
\* that started it is gone.
THEOREM Accounted == Spec => []InFlightIsAccounted
  <1>1. Init => InFlightInv
    BY DEF Init, InFlightInv, TypeOK, EnqueueStages
  <1>2. InFlightInv => InFlightIsAccounted
    BY DEF InFlightInv, InFlightIsAccounted, TypeOK, EnqueueStages
  <1> QED BY <1>1, <1>2, InFlightStep, PTL DEF Spec

-----------------------------------------------------------------------------
(* Links, with one thread and no restart. *)

\* The deployment does not change, and a restart is counted.
LEMMA LifeGoesOn ==
    ASSUME TypeOK, [Next]_vars
    PROVE  singleThread' = singleThread /\ (restarts' = 0 => restarts = 0)
  <1>1. CASE UNCHANGED life
    BY <1>1
  <1>2. CASE Restart
    BY <1>2 DEF Restart, TypeOK
  <1> QED
    BY <1>1, <1>2 DEF Next, Enqueue, Create, Submit, MarkInFlight, AddCallback, Register, Loop,
       Download, DownloadRaises, Notify, PostProcess, Serve, OpenPage, TaskOver, ForcePath, Fetch,
       Move, Link, vars

LEMMA LinkStep ==
    ASSUME TypeOK, LinkInv, singleThread, restarts = 0, restarts' = 0, [Next]_vars
    PROVE  LinkInv'
  <1> TypeOK'
    BY TypeStep
  <1> USE DEF LinkInv, TypeOK, EnqueueStages, ThreadFree
  <1>1. ASSUME NEW a \in Assets, Create(a) PROVE LinkInv'
    BY <1>1 DEF Create, Advance, rowVars, loopVars, readerVars, InQueue
  <1>2. ASSUME NEW a \in Assets, Submit(a) PROVE LinkInv'
    BY <1>2 DEF Submit, Advance, rowVars, loopVars, readerVars, InQueue
  <1>3. ASSUME NEW a \in Assets, MarkInFlight(a) PROVE LinkInv'
    BY <1>3 DEF MarkInFlight, Advance, rowVars, loopVars, readerVars, InQueue
  <1>4. ASSUME NEW a \in Assets, AddCallback(a) PROVE LinkInv'
    <2>1. /\ stage[a] = "marked" /\ stage' = [stage EXCEPT ![a] = "watched"]
          /\ UNCHANGED <<inFlight, file, task, pending, reader, target, life>>
      BY <1>4 DEF AddCallback, Advance, rowVars, loopVars, readerVars
    <2>2. \A b \in Assets : InQueue(b)' => InQueue(b) \/ (b = a /\ task[a] = "done")
      BY <1>4, CallbackRun DEF AddCallback, InQueue
    <2>3. ASSUME NEW b \in Assets
          PROVE  /\ stage'[b] # "left"
                 /\ stage'[b] = "listed" => b \in pending'
                 /\ task'[b] = "done" \/ InQueue(b)' => file'[b]
                 /\ stage'[b] \in {"marked", "watched", "listed"} /\ ~inFlight'[b] => file'[b]
      BY <2>1, <2>2
    <2>4. ASSUME NEW r \in Readers
          PROVE  /\ reader'[r] \notin {"missing", "lost"}
                 /\ reader'[r] \in {"file", "forcing", "redirected"} => file'[target'[r]]
                 /\ reader'[r] = "page" => stage'[target'[r]] = "listed"
      BY <2>1
    <2> QED BY <2>1, <2>3, <2>4
  <1>5. ASSUME NEW a \in Assets, Register(a) PROVE LinkInv'
    BY <1>5 DEF Register, Advance, rowVars, loopVars, readerVars, InQueue
  <1>6. ASSUME NEW a \in Assets, Download(a) PROVE LinkInv'
    BY <1>6 DEF Download, rowVars, loopVars, readerVars, InQueue
  <1>7. ASSUME NEW a \in Assets, DownloadRaises(a) PROVE LinkInv'
    BY <1>7 DEF DownloadRaises, rowVars, loopVars, readerVars, InQueue
  <1>8. ASSUME NEW a \in Assets, Notify(a) PROVE LinkInv'
    <2>1. RunCallback(a) /\ callback[a] = "added" /\ task[a] \in {"done", "failed"}
          /\ UNCHANGED <<stage, rowVars, task, pending, readerVars, life>>
      BY <1>8 DEF Notify
    <2>2. callback' = [callback EXCEPT ![a] = "called"]
      BY <2>1 DEF RunCallback
    <2> QED BY <2>1, <2>2, CallbackRun DEF rowVars, loopVars, readerVars
  <1>9. CASE PostProcess
    BY <1>9, QueueTaken DEF PostProcess, rowVars, loopVars, readerVars, InQueue
  <1>10. ASSUME NEW r \in Readers, NEW a \in Assets, Link(r, a) PROVE LinkInv'
    BY <1>10 DEF Link, Move, rowVars, loopVars, readerVars, InQueue
  <1>11. ASSUME NEW r \in Readers, OpenPage(r) PROVE LinkInv'
    BY <1>11 DEF OpenPage, Move, rowVars, loopVars, readerVars, InQueue
  <1>12. ASSUME NEW r \in Readers, TaskOver(r) PROVE LinkInv'
    <2>1. /\ UNCHANGED <<stage, inFlight, file, task, queue, pending, target>>
          /\ reader[r] = "waiting"
          /\ \/ task[target[r]] = "done" /\ reader' = [reader EXCEPT ![r] = "forcing"]
             \/ reader' = [reader EXCEPT ![r] = "error"]
      BY <1>12 DEF TaskOver, Move, rowVars, loopVars
    <2>2. \A q \in Readers : q # r => reader'[q] = reader[q]
      BY <2>1
    <2>3. reader'[r] = "error" \/ (reader'[r] = "forcing" /\ file[target[r]])
      BY <2>1
    <2> QED BY <2>1, <2>2, <2>3 DEF InQueue
  <1>13. ASSUME NEW r \in Readers, ForcePath(r) PROVE LinkInv'
    BY <1>13 DEF ForcePath, Move, rowVars, loopVars, readerVars, InQueue
  <1>14. ASSUME NEW r \in Readers, Fetch(r) PROVE LinkInv'
    <2>1. /\ UNCHANGED <<stage, inFlight, file, task, queue, pending, target>>
          /\ reader[r] \in {"file", "redirected"}
          /\ file[target[r]] => reader' = [reader EXCEPT ![r] = "served"]
      BY <1>14 DEF Fetch, Move, rowVars, loopVars
    <2> QED BY <2>1 DEF InQueue
  <1>15. CASE Restart
    BY <1>15 DEF Restart
  <1>16. CASE UNCHANGED vars
    BY <1>16 DEF vars, rowVars, loopVars, readerVars, InQueue
  <1> QED
    BY <1>1, <1>2, <1>3, <1>4, <1>5, <1>6, <1>7, <1>8, <1>9,
       <1>10, <1>11, <1>12, <1>13, <1>14, <1>15, <1>16
    DEF Next, Enqueue, Loop, Serve

\* A page never has a link to a file that is not there, and CachePage never redirects
\* to one: with a single request thread and no restart.
THEOREM LinksServed == Spec => []LinksAreServed
  <1> DEFINE Inv == TypeOK /\ (singleThread /\ restarts = 0 => LinkInv)
  <1>1. Init => Inv
    BY DEF Init, LinkInv, TypeOK, EnqueueStages, InQueue
  <1>2. Inv => LinksAreServed
    BY DEF LinkInv, LinksAreServed
  <1>3. Inv /\ [Next]_vars => Inv'
    <2> SUFFICES ASSUME Inv, [Next]_vars, singleThread', restarts' = 0 PROVE LinkInv'
      BY TypeStep
    <2>1. singleThread /\ restarts = 0
      BY LifeGoesOn
    <2> QED BY <2>1, LinkStep
  <1> QED BY <1>1, <1>2, <1>3, PTL DEF Spec

-----------------------------------------------------------------------------
(* The transcoding queue: what is reported as a success. *)

HIDE DownloadAssumption DEF life

QueueTypeOK ==
    /\ taskQueue \in Seq(Jobs)
    /\ enqueued \in [Jobs -> {"no", "put", "yes"}]
    /\ progress \in [Paths -> {"none", "zero", "some"}]
    /\ running \in BOOLEAN
    /\ worker \in {"get", "run", "succeeded", "failed", "dead", "stopped"}
    /\ job \in IF worker \in {"run", "succeeded", "failed"} THEN Jobs ELSE {NoJob}
    /\ ffmpeg \subseteq Jobs
    /\ called \in [Jobs -> SUBSET {"success", "failure"}]

\* A job that waits has never been taken, and waits once.
WaitingInv ==
    /\ \A i \in 1 .. Len(taskQueue) :
        /\ enqueued[taskQueue[i]] # "no"
        /\ taskQueue[i] # job /\ taskQueue[i] \notin ffmpeg /\ called[taskQueue[i]] = {}
    /\ \A h, i \in 1 .. Len(taskQueue) : taskQueue[h] = taskQueue[i] => h = i

\* One that was taken was put; it is called back once its ffmpeg has ended or is given up,
\* for its failure: no ffmpeg runs for a job that was a success.
TakenInv ==
    /\ \A j \in Jobs : j = job \/ j \in ffmpeg \/ called[j] # {} => enqueued[j] # "no"
    /\ worker \in {"run", "succeeded"} => called[job] = {}
    /\ \A j \in ffmpeg :
        /\ (job = j /\ worker \in {"run", "failed"}) \/ "failure" \in called[j]
        /\ "success" \notin called[j]

JobInv == QueueTypeOK /\ WaitingInv /\ TakenInv

LEMMA JobInvInit == QueueInit => JobInv
  BY TranscodingAssumption DEF QueueInit, JobInv, QueueTypeOK, WaitingInv, TakenInv

LEMMA PutKeeps ==
    ASSUME JobInv, NEW j \in Jobs, Put(j)
    PROVE  JobInv'
  <1>1. /\ enqueued[j] = "no" /\ taskQueue' = Append(taskQueue, j)
        /\ enqueued' = [enqueued EXCEPT ![j] = "put"]
        /\ UNCHANGED <<progress, running, worker, job, ffmpeg, called>>
    BY DEF Put
  <1>2. QueueTypeOK'
    BY <1>1 DEF JobInv, QueueTypeOK
  <1>3. /\ j # job /\ j \notin ffmpeg /\ called[j] = {}
        /\ \A i \in 1 .. Len(taskQueue) : taskQueue[i] # j /\ taskQueue[i] \in Jobs
    BY <1>1 DEF JobInv, TakenInv, WaitingInv, QueueTypeOK
  <1>4. /\ Len(taskQueue') = Len(taskQueue) + 1 /\ Len(taskQueue) \in Nat
        /\ \A i \in 1 .. Len(taskQueue) : taskQueue'[i] = taskQueue[i]
        /\ taskQueue'[Len(taskQueue) + 1] = j
    BY <1>1 DEF JobInv, QueueTypeOK
  <1>5. WaitingInv'
    BY <1>1, <1>3, <1>4 DEF JobInv, WaitingInv, QueueTypeOK
  <1>6. TakenInv'
    BY <1>1 DEF JobInv, TakenInv, QueueTypeOK
  <1> QED BY <1>2, <1>5, <1>6 DEF JobInv

LEMMA GetKeeps ==
    ASSUME JobInv, Get \/ GetFails
    PROVE  JobInv'
  <1>1. /\ taskQueue # <<>> /\ job' = Head(taskQueue) /\ taskQueue' = Tail(taskQueue)
        /\ worker = "get" /\ worker' \in {"run", "failed"}
        /\ ffmpeg' = ffmpeg \/ (ffmpeg' = ffmpeg \cup {job'} /\ worker' = "run")
        /\ UNCHANGED <<enqueued, progress, running, called>>
    BY DEF Get, GetFails, Worker
  <1>2. /\ Len(taskQueue) \in Nat \ {0} /\ Len(taskQueue') = Len(taskQueue) - 1
        /\ \A i \in 1 .. Len(taskQueue') :
              i + 1 \in 2 .. Len(taskQueue) /\ taskQueue'[i] = taskQueue[i + 1]
        /\ job' = taskQueue[1] /\ taskQueue' \in Seq(Jobs)
        /\ job' \in Jobs /\ job = NoJob
    BY <1>1 DEF JobInv, QueueTypeOK
  <1>3. /\ enqueued[job'] # "no" /\ job' \notin ffmpeg /\ called[job'] = {}
    BY <1>2 DEF JobInv, WaitingInv
  <1>4. QueueTypeOK'
    BY <1>1, <1>2 DEF JobInv, QueueTypeOK
  <1>5. \A i \in 1 .. Len(taskQueue') :
            /\ enqueued'[taskQueue'[i]] # "no"
            /\ taskQueue'[i] # job' /\ taskQueue'[i] \notin ffmpeg' /\ called'[taskQueue'[i]] = {}
    <2> TAKE i \in 1 .. Len(taskQueue')
    <2>1. i + 1 \in 1 .. Len(taskQueue) /\ 1 \in 1 .. Len(taskQueue) /\ i + 1 # 1
          /\ taskQueue'[i] = taskQueue[i + 1]
      BY <1>2
    <2>2. taskQueue[i + 1] # taskQueue[1]
      BY <2>1 DEF JobInv, WaitingInv
    <2> QED BY <1>1, <1>2, <2>1, <2>2 DEF JobInv, WaitingInv
  <1>6. \A h, i \in 1 .. Len(taskQueue') : taskQueue'[h] = taskQueue'[i] => h = i
    <2> TAKE h, i \in 1 .. Len(taskQueue')
    <2>1. h + 1 \in 1 .. Len(taskQueue) /\ i + 1 \in 1 .. Len(taskQueue)
          /\ taskQueue'[h] = taskQueue[h + 1] /\ taskQueue'[i] = taskQueue[i + 1]
          /\ (h + 1 = i + 1 => h = i)
      BY <1>2
    <2> QED BY <2>1 DEF JobInv, WaitingInv
  <1>7. TakenInv'
    BY <1>1, <1>2, <1>3 DEF JobInv, TakenInv, QueueTypeOK
  <1> QED BY <1>4, <1>5, <1>6, <1>7 DEF JobInv, WaitingInv

\* The other steps leave the queue alone.
LEMMA WaitingKept ==
    ASSUME JobInv, UNCHANGED <<taskQueue>>,
           \A j \in Jobs : enqueued[j] # "no" => enqueued'[j] # "no",
           job' \in {job, NoJob}, ffmpeg' \subseteq ffmpeg,
           \A j \in Jobs : j # job => called'[j] = called[j]
    PROVE  WaitingInv'
  <1>1. \A i \in 1 .. Len(taskQueue) : taskQueue[i] \in Jobs
    BY DEF JobInv, QueueTypeOK
  <1> QED BY <1>1, TranscodingAssumption DEF JobInv, WaitingInv, QueueTypeOK

LEMMA OtherStepsKeep ==
    ASSUME JobInv,
           \/ \E j \in Jobs : ResetProgress(j) \/ LostFfmpegEnds(j)
           \/ FfmpegEnds \/ Decode \/ CallSuccess \/ CallSuccessRaises
           \/ CallFailure \/ CallFailureRaises \/ Exit \/ UpdateProgress \/ Stop
    PROVE  JobInv'
  <1>1. CASE \E j \in Jobs : ResetProgress(j) \/ LostFfmpegEnds(j)
    <2>1. PICK j \in Jobs : ResetProgress(j) \/ LostFfmpegEnds(j)
      BY <1>1
    <2>2. QueueTypeOK'
      BY <2>1, TranscodingAssumption DEF JobInv, QueueTypeOK, ResetProgress, LostFfmpegEnds
    <2>3. TakenInv'
      BY <2>1 DEF JobInv, TakenInv, QueueTypeOK, ResetProgress, LostFfmpegEnds
    <2>4. WaitingInv'
      BY <2>1, WaitingKept DEF JobInv, QueueTypeOK, ResetProgress, LostFfmpegEnds
    <2> QED BY <2>2, <2>3, <2>4 DEF JobInv
  <1>2. CASE FfmpegEnds \/ Decode \/ Exit \/ UpdateProgress \/ Stop
    <2>1. QueueTypeOK'
      BY <1>2, TranscodingAssumption
      DEF JobInv, QueueTypeOK, FfmpegEnds, Decode, Exit, UpdateProgress, Stop, Worker
    <2>2. TakenInv'
      BY <1>2 DEF JobInv, TakenInv, QueueTypeOK, FfmpegEnds, Decode, Exit, UpdateProgress, Stop, Worker
    <2>3. WaitingInv'
      BY <1>2, WaitingKept DEF FfmpegEnds, Decode, Exit, UpdateProgress, Stop, Worker
    <2> QED BY <2>1, <2>2, <2>3 DEF JobInv
  <1>3. CASE CallSuccess \/ CallSuccessRaises
    <2>1. /\ worker = "succeeded" /\ job \in Jobs
          /\ called' = [called EXCEPT ![job] = @ \cup {"success"}]
          /\ UNCHANGED <<taskQueue, enqueued, progress, running, ffmpeg>>
          /\ \/ worker' = "get" /\ job' = NoJob
             \/ worker' = "failed" /\ job' = job
      BY <1>3 DEF CallSuccess, CallSuccessRaises, Call, JobInv, QueueTypeOK
    <2>2. job \notin ffmpeg
      BY <2>1 DEF JobInv, TakenInv
    <2>3. QueueTypeOK'
      BY <2>1 DEF JobInv, QueueTypeOK
    <2>4. TakenInv'
      BY <2>1, <2>2, TranscodingAssumption DEF JobInv, TakenInv, QueueTypeOK
    <2>5. WaitingInv'
      BY <2>1, WaitingKept DEF JobInv, QueueTypeOK
    <2> QED BY <2>3, <2>4, <2>5 DEF JobInv
  <1>4. CASE CallFailure \/ CallFailureRaises
    <2>1. /\ worker = "failed" /\ job \in Jobs
          /\ called' = [called EXCEPT ![job] = @ \cup {"failure"}]
          /\ UNCHANGED <<taskQueue, enqueued, progress, running, ffmpeg>>
          /\ worker' \in {"get", "dead"} /\ job' = NoJob
      BY <1>4 DEF CallFailure, CallFailureRaises, Call, JobInv, QueueTypeOK
    <2>2. QueueTypeOK'
      BY <2>1 DEF JobInv, QueueTypeOK
    <2>3. TakenInv'
      BY <2>1, TranscodingAssumption DEF JobInv, TakenInv, QueueTypeOK
    <2>4. WaitingInv'
      BY <2>1, WaitingKept DEF JobInv, QueueTypeOK
    <2> QED BY <2>2, <2>3, <2>4 DEF JobInv
  <1> QED BY <1>1, <1>2, <1>3, <1>4

LEMMA JobStep == JobInv /\ [QueueNext]_queueVars => JobInv'
  <1> SUFFICES ASSUME JobInv, [QueueNext]_queueVars PROVE JobInv'
    OBVIOUS
  <1>1. CASE UNCHANGED queueVars
    BY <1>1 DEF queueVars, JobInv, QueueTypeOK, WaitingInv, TakenInv
  <1>2. CASE QueueNext
    BY <1>2, PutKeeps, GetKeeps, OtherStepsKeep DEF QueueNext, Works
  <1> QED BY <1>1, <1>2

\* Nothing writes to the file of a job that is reported as a success any more, unless it is
\* another job's, which runs now or was given up as a failure: a job is taken once, and a
\* success is only called after its own ffmpeg has ended (TranscodingQueue.run).
THEOREM WholeSuccess == QueueSpec => []SuccessIsWhole
  <1>1. JobInv => SuccessIsWhole
    BY DEF JobInv, QueueTypeOK, TakenInv, SuccessIsWhole
  <1> QED BY <1>1, JobInvInit, JobStep, PTL DEF QueueSpec
=============================================================================
