------------------------------- MODULE MCImages -------------------------------
(***************************************************************************)
(* Small instances of CacheManager and DownloadManager for TLC: the locks  *)
(* under which requests create the row of an image, and its download.      *)
(* They share no state: one of them moves, and the other stays in an       *)
(* initial state.                                                          *)
(***************************************************************************)
EXTENDS CacheManager, DownloadManager

FirstAsset == CHOOSE a \in Assets : TRUE

VARIABLE part      \* the component that moves
MCVars == <<part, vars, cacheVars>>

MCInit ==
    /\ part \in {"locks", "downloads"}
    /\ CacheInit /\ Init
    /\ part = "locks" => singleThread /\ \A r \in Readers : target[r] = FirstAsset

Locks(A) == part = "locks" /\ A /\ UNCHANGED <<part, vars>>
Downloads(A) == part = "downloads" /\ A /\ UNCHANGED <<part, cacheVars>>

MCNext == Locks(CacheNext) \/ Downloads(Next)

\* The fairness of each component, for the one that moves.
MCSpec ==
    /\ MCInit /\ [][MCNext]_MCVars
    /\ \A t \in Threads : WF_MCVars(Locks(Progress(t))) /\ SF_MCVars(Locks(Wait(t)))
    /\ \A a \in Assets : /\ WF_MCVars(Downloads(stage[a] # "absent" /\ Enqueue(a)))
                         /\ WF_MCVars(Downloads(Loop(a)))
    /\ WF_MCVars(Downloads(PostProcess))
    /\ \A r \in Readers : WF_MCVars(Downloads(Serve(r)))
=============================================================================
