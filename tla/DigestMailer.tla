---------------------------- MODULE DigestMailer ----------------------------
(***************************************************************************)
(* What the e-mail digester of the plugin manager promises, without its    *)
(* threads, lock and scheduler: every user has a box of pending messages,  *)
(* a message is in a box at most once, and a box is mailed as a whole, at  *)
(* most once per Interval (class docstring, email_digester.py:45-60).      *)
(***************************************************************************)
EXTENDS Naturals

CONSTANTS
    Users,      \* ids of the users who may receive a digest
    Hashes,     \* hashes that identify the messages
    Interval    \* minimum time between two mails to the same user

VARIABLES
    box,        \* box[u]: hashes of the messages waiting to be mailed to u
    since       \* since[u]: time since the last mail to u, Interval or more
                \* being all the same

vars == <<box, since>>

Init ==
    /\ box = [u \in Users |-> {}]
    /\ since = [u \in Users |-> Interval]

\* A message that is not waiting already is put in the user's box.
Submit(u, h) ==
    /\ h \notin box[u]
    /\ box' = [box EXCEPT ![u] = @ \cup {h}]
    /\ UNCHANGED since

\* The whole box is mailed, Interval at least after the previous mail.
Mail(u) ==
    /\ box[u] # {}
    /\ since[u] = Interval
    /\ box' = [box EXCEPT ![u] = {}]
    /\ since' = [since EXCEPT ![u] = 0]

Tick ==
    /\ since' = [u \in Users |-> IF since[u] < Interval
                                 THEN since[u] + 1 ELSE Interval]
    /\ UNCHANGED box

Next ==
    \/ \E u \in Users : Mail(u) \/ \E h \in Hashes : Submit(u, h)
    \/ Tick

Spec == Init /\ [][Next]_vars
=============================================================================
