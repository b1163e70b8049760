------------------------------ MODULE MCStorage ------------------------------
(***************************************************************************)
(* Small instances of Storage and Transcoding for TLC.  They share no      *)
(* state: each is explored from the initial state of the other, which      *)
(* stays there.                                                            *)
(***************************************************************************)
EXTENDS Storage, Transcoding, TLC

CONSTANTS j1, j2, j3, p1, p2
MCOutput == j1 :> p1 @@ j2 :> p1 @@ j3 :> p2

Init == StorageInit /\ QueueInit

Next ==
    \/ QueueInit /\ StorageNext /\ UNCHANGED queueVars
    \/ StorageInit /\ QueueNext /\ UNCHANGED storageVars

Spec == Init /\ [][Next]_<<storageVars, queueVars>>

\* Days go by, the thread of the scheduler runs, and requests end; the thread of the queue is
\* scheduled, and ffmpeg ends.  Once one of the two components has moved, the other stays in
\* its initial state, and fairness asks nothing of it.
FairSpec ==
    /\ Spec
    /\ WF_<<storageVars, queueVars>>(QueueInit /\ NextDay /\ UNCHANGED queueVars)
    /\ WF_<<storageVars, queueVars>>(QueueInit /\ (Cleanup \/ CleanupRaises) /\ UNCHANGED queueVars)
    /\ \A r \in Requests :
          WF_<<storageVars, queueVars>>(QueueInit /\ Continues(r) /\ UNCHANGED queueVars)
    /\ WF_<<storageVars, queueVars>>(StorageInit /\ Works /\ UNCHANGED storageVars)
=============================================================================
