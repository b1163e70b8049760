---------------------------- MODULE EmailDigester ----------------------------
(***************************************************************************)
(* ictv/plugin_manager/email_digester.py.                                  *)
(*                                                                         *)
(* Request threads call add_email; one scheduler thread runs _run_sched,   *)
(* which calls _send_email for the events that are due.  Both methods run  *)
(* under one lock, taken with acquire() and given back with release() at   *)
(* the end of the method: no `with`, no `finally`.                         *)
(*                                                                         *)
(* Time is a Tick.  An event of the Python scheduler is the time it has    *)
(* left before it is due; an event stays at 0 until the thread pops it.    *)
(* since and failed are history variables: no code reads them.             *)
(***************************************************************************)
EXTENDS Naturals, Sequences, SequencesExt

CONSTANTS
    Users,          \* ids of the users who may receive a digest
    NoUser,         \* no user
    Hashes,         \* hashes that identify the messages
    WaitDelay,      \* wait_delay: time an idle user's first message waits
    Interval,       \* timedelta: minimum time between two mails to a user
    Outcomes        \* how web.sendmail may end: "sent", "refused" (it raises
                    \* an SMTPException), "raises" (it raises anything else).
                    \* The module does not import `web`, so that line 112 raises
                    \* NameError: {"raises"} is this commit, the other values are
                    \* what the rest of the try statement is written for

ASSUME DigesterAssumption ==
    /\ NoUser \notin Users
    /\ WaitDelay \in Nat \ {0}
    /\ Interval \in Nat \ {0}
    /\ Outcomes \subseteq {"sent", "refused", "raises"}

VARIABLES
    digest,         \* _digest[u]: the messages to mail to u, in order
    digestHashes,   \* _digest_hashes[u]
    lastEmail,      \* the keys of _last_email (no code reads its values)
    timers,         \* timers[u]: time left of each event of u in the scheduler
    stage,          \* where the scheduler thread is
    target,         \* user of the _send_email call in progress
    locked,         \* _lock
    running,        \* _running
    since,          \* history: time since the last mail to u, up to Interval
    failed          \* history: the users of whom an SMTP exchange was refused

history == <<since, failed>>
vars == <<digest, digestHashes, lastEmail, timers, stage, target, locked,
          running, history>>
boxVars == <<digest, digestHashes>>

Init ==
    /\ digest = [u \in Users |-> <<>>]
    /\ digestHashes = [u \in Users |-> {}]
    /\ lastEmail = {}
    /\ timers = [u \in Users |-> <<>>]
    /\ stage = "sleep"
    /\ target = NoUser
    /\ locked = FALSE
    /\ running = TRUE
    /\ since = [u \in Users |-> Interval]
    /\ failed = {}

\* s.enter: one more event for the user.
Enter(u, delay) == timers' = [timers EXCEPT ![u] = Append(@, delay)]

\* add_email, by a request thread, for a message whose hash is not pending (for
\* one that is, nothing changes).  Only a user with no entry in _last_email
\* gets an event; the entry then keeps later messages from adding one.
AddEmail(u, h) ==
    /\ ~locked
    /\ h \notin digestHashes[u]
    /\ digest' = [digest EXCEPT ![u] = Append(@, h)]
    /\ digestHashes' = [digestHashes EXCEPT ![u] = @ \cup {h}]
    /\ IF u \in lastEmail
       THEN UNCHANGED <<lastEmail, timers>>
       ELSE Enter(u, WaitDelay) /\ lastEmail' = lastEmail \cup {u}
    /\ UNCHANGED <<stage, target, locked, running, history>>

-----------------------------------------------------------------------------
(* The scheduler thread. *)

\* while self._running: self._s.run(blocking=False)
LoopTest ==
    /\ stage = "sleep"
    /\ stage' = IF running THEN "run" ELSE "exited"
    /\ UNCHANGED <<boxVars, lastEmail, timers, target, locked, running, history>>

\* The scheduler takes a due event off its queue and calls _send_email, which
\* starts by waiting for the lock.
PopEvent(u) ==
    /\ stage = "run"
    /\ \E i \in DOMAIN timers[u] :
        /\ timers[u][i] = 0
        /\ timers' = [timers EXCEPT ![u] = RemoveAt(@, i)]
    /\ stage' = "popped"
    /\ target' = u
    /\ UNCHANGED <<boxVars, lastEmail, locked, running, history>>

\* No event is due: run() returns, and the thread sleeps half a second.
RunReturns ==
    /\ stage = "run"
    /\ \A u \in Users : \A i \in DOMAIN timers[u] : timers[u][i] > 0
    /\ stage' = "sleep"
    /\ UNCHANGED <<boxVars, lastEmail, timers, target, locked, running, history>>

\* _send_email, no message pending: the user can be mailed at any moment again.
\* `del` of a missing key would kill the thread with the lock held.
ForgetUser ==
    /\ stage = "popped" /\ ~locked
    /\ digest[target] = <<>>
    /\ lastEmail' = lastEmail \ {target}
    /\ stage' = IF target \in lastEmail THEN "run" ELSE "dead"
    /\ locked' = (target \notin lastEmail)
    /\ target' = NoUser
    /\ UNCHANGED <<boxVars, timers, running, history>>

\* _send_email, messages pending: the SMTP exchange runs with the lock held.
StartSend ==
    /\ stage = "popped" /\ ~locked
    /\ digest[target] # <<>>
    /\ locked' = TRUE
    /\ stage' = "sending"
    /\ UNCHANGED <<boxVars, lastEmail, timers, target, running, history>>

\* Mutant of MailSent: the next batch is scheduled after the short delay.
MailSentEarlyBatch ==
    /\ stage = "sending" /\ "sent" \in Outcomes
    /\ digest' = [digest EXCEPT ![target] = <<>>]
    /\ digestHashes' = [digestHashes EXCEPT ![target] = {}]
    /\ lastEmail' = lastEmail \cup {target}
    /\ Enter(target, WaitDelay)
    /\ since' = [since EXCEPT ![target] = 0]
    /\ locked' = FALSE
    /\ stage' = "run"
    /\ target' = NoUser
    /\ UNCHANGED <<running, failed>>

\* web.sendmail returns, which needs a name `web`: the digest is emptied and the next
\* batch scheduled.
MailSent ==
    /\ stage = "sending" /\ "sent" \in Outcomes
    /\ digest' = [digest EXCEPT ![target] = <<>>]
    /\ digestHashes' = [digestHashes EXCEPT ![target] = {}]
    /\ lastEmail' = lastEmail \cup {target}
    /\ Enter(target, Interval)
    /\ since' = [since EXCEPT ![target] = 0]
    /\ locked' = FALSE
    /\ stage' = "run"
    /\ target' = NoUser
    /\ UNCHANGED <<running, failed>>

\* web.sendmail raises an SMTPException, which needs a name `web` too: it is logged and
\* nothing else is done.
MailRefused ==
    /\ stage = "sending" /\ "refused" \in Outcomes
    /\ locked' = FALSE
    /\ stage' = "run"
    /\ target' = NoUser
    /\ failed' = failed \cup {target}
    /\ UNCHANGED <<boxVars, lastEmail, timers, running, since>>

\* Anything else is raised, as the NameError of `web` is: the thread dies with the lock
\* held.
MailRaises ==
    /\ stage = "sending" /\ "raises" \in Outcomes
    /\ stage' = "dead"
    /\ target' = NoUser
    /\ UNCHANGED <<boxVars, lastEmail, timers, locked, running, history>>

-----------------------------------------------------------------------------
\* stop(), called when the application closes.
Stop ==
    /\ running
    /\ running' = FALSE
    /\ UNCHANGED <<boxVars, lastEmail, timers, stage, target, locked, history>>

Tick ==
    /\ timers' = [u \in Users |-> [i \in DOMAIN timers[u] |->
                     IF timers[u][i] > 0 THEN timers[u][i] - 1 ELSE 0]]
    /\ since' = [u \in Users |-> IF since[u] < Interval
                                 THEN since[u] + 1 ELSE Interval]
    /\ UNCHANGED <<boxVars, lastEmail, stage, target, locked, running, failed>>

Thread == LoopTest \/ RunReturns \/ ForgetUser \/ StartSend \/ MailSent
            \/ MailRefused \/ MailRaises

Next ==
    \/ \E u \in Users, h \in Hashes : AddEmail(u, h)
    \/ Thread
    \/ \E u \in Users : PopEvent(u)
    \/ Stop
    \/ Tick

Spec == Init /\ [][Next]_vars

\* The thread runs and time passes; the scheduler's heap hands out the event
\* that has been due longest, so no due event waits forever.
Fairness == WF_vars(Thread) /\ WF_vars(Tick) /\ \A u \in Users : SF_vars(PopEvent(u))
FairSpec == Spec /\ Fairness

-----------------------------------------------------------------------------
(* Properties. *)

TypeOK ==
    /\ digest \in [Users -> Seq(Hashes)]
    /\ digestHashes \in [Users -> SUBSET Hashes]
    /\ lastEmail \in SUBSET Users
    /\ timers \in [Users -> Seq(Nat)]
    /\ stage \in {"sleep", "run", "popped", "sending", "dead", "exited"}
    /\ target \in Users \cup {NoUser}
    /\ target \in Users <=> stage \in {"popped", "sending"}
    /\ locked \in BOOLEAN
    /\ running \in BOOLEAN
    /\ since \in [Users -> 0..Interval]
    /\ failed \in SUBSET Users

\* The _send_email call in progress is for u.
InCall(u) == stage \in {"popped", "sending"} /\ target = u

\* A user has at most one future or current call of _send_email.  One who has no entry
\* in _last_email has none, and no message waiting; one who has an entry has one: the
\* entry that add_email leaves behind, and tests, keeps a burst of messages from
\* scheduling a mail each, and would strand them if it outlived the call it stands for.
\* It does outlive it after an exception of the SMTP exchange.
OneCallPerUser ==
    \A u \in Users :
        /\ Len(timers[u]) <= 1
        /\ InCall(u) => Len(timers[u]) = 0
        /\ u \notin lastEmail => /\ ~InCall(u)
                                 /\ Len(timers[u]) = 0
                                 /\ digest[u] = <<>>
        /\ u \in lastEmail /\ u \notin failed /\ stage # "dead" =>
                InCall(u) \/ Len(timers[u]) = 1

\* A digest holds each message once and _digest_hashes says exactly which: the
\* two dictionaries change together, in add_email and in _send_email.
DigestIsFaithful ==
    \A u \in Users :
        /\ \A i, j \in DOMAIN digest[u] : digest[u][i] = digest[u][j] => i = j
        /\ digestHashes[u] = {digest[u][i] : i \in DOMAIN digest[u]}

\* The lock is held between two steps only by an SMTP exchange in progress, whose
\* digest cannot be emptied meanwhile, or by a scheduler thread that died in one:
\* add_email blocks in these cases only.
LockHeldOnlyBySender ==
    /\ locked <=> stage \in {"sending", "dead"}
    /\ stage = "sending" => digest[target] # <<>>

\* An event is never due, and a call never in progress, for a user mailed less
\* than Interval ago.
CallsRespectInterval ==
    \A u \in Users :
        /\ \A i \in DOMAIN timers[u] : since[u] + timers[u][i] >= Interval
        /\ InCall(u) \/ u \notin lastEmail => since[u] = Interval

\* The conjunction that is inductive.
IInv ==
    /\ TypeOK
    /\ OneCallPerUser
    /\ DigestIsFaithful
    /\ LockHeldOnlyBySender
    /\ CallsRespectInterval

\* Two mails to the same user are Interval apart, whatever the threads do
\* (docstring: "The minimum interval between two mails received by an user").
MailsAreSpaced ==
    [][\A u \in Users : (Len(digest'[u]) < Len(digest[u])) => since[u] = Interval]_vars

\* The digester implements its abstract specification.
Mailer == INSTANCE DigestMailer WITH box <- digestHashes, since <- since
ImplementsMailer == Mailer!Spec

\* Docstring of the class (email_digester.py:53-55): the messages added during the interval
\* are digested, "And after that period, they will be all sent in a single digested
\* email".  As long as the application is not stopped, a pending message is mailed.
AllAreMailed ==
    \A u \in Users : digest[u] # <<>> ~> digest[u] = <<>> \/ ~running
=============================================================================
