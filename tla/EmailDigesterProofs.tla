------------------------- MODULE EmailDigesterProofs -------------------------
(***************************************************************************)
(* Proofs about EmailDigester, for every set of users and of messages, all *)
(* delays and every behaviour of web.sendmail.                             *)
(***************************************************************************)
EXTENDS EmailDigester, TLAPS, SequenceTheorems

\* Taking the only element out of a sequence leaves none.
LEMMA RemoveOnly ==
    ASSUME NEW s \in Seq(Nat), Len(s) <= 1, NEW i \in DOMAIN s
    PROVE  RemoveAt(s, i) = <<>> /\ Len(s) = 1
<1>1. i = 1 /\ Len(s) = 1
    <2>1. Len(s) \in Nat /\ DOMAIN s = 1..Len(s)
        BY LenProperties
    <2>2. i \in 1..Len(s)
        BY <2>1
    <2>3. QED
        BY <2>1, <2>2
<1>2. SubSeq(s, 1, 0) = <<>> /\ SubSeq(s, 2, 1) = <<>>
    BY <1>1
<1>3. QED
    BY <1>1, <1>2 DEF RemoveAt

\* A message that is not in a digest can be added at its end.
LEMMA AppendFresh ==
    ASSUME NEW S, NEW s \in Seq(S), NEW h \in S,
           \A i, j \in DOMAIN s : s[i] = s[j] => i = j,
           h \notin {s[i] : i \in DOMAIN s}
    PROVE  LET t == Append(s, h) IN
           /\ t \in Seq(S)
           /\ t # <<>>
           /\ \A i, j \in DOMAIN t : t[i] = t[j] => i = j
           /\ {t[i] : i \in DOMAIN t} = {s[i] : i \in DOMAIN s} \cup {h}
<1> DEFINE t == Append(s, h)
<1>1. t \in Seq(S) /\ Len(t) = Len(s) + 1 /\ t[Len(s) + 1] = h
    OBVIOUS
<1>2. DOMAIN t = DOMAIN s \cup {Len(s) + 1} /\ Len(s) + 1 \notin DOMAIN s
    BY <1>1
<1>3. \A i \in DOMAIN s : t[i] = s[i]
    OBVIOUS
<1> HIDE DEF t
<1>4. \A i, j \in DOMAIN t : t[i] = t[j] => i = j
    BY <1>1, <1>2, <1>3
<1>5. {t[i] : i \in DOMAIN t} = {s[i] : i \in DOMAIN s} \cup {h}
    BY <1>1, <1>2, <1>3
<1>6. t # <<>>
    BY <1>2
<1>7. QED
    BY <1>1, <1>4, <1>5, <1>6 DEF t
\* The passage of time keeps every event of a queue, one unit closer.
LEMMA TickQueue ==
    ASSUME NEW s \in Seq(Nat)
    PROVE  LET t == [i \in DOMAIN s |-> IF s[i] > 0 THEN s[i] - 1 ELSE 0] IN
           t \in Seq(Nat) /\ Len(t) = Len(s) /\ DOMAIN t = DOMAIN s
<1> DEFINE t == [i \in DOMAIN s |-> IF s[i] > 0 THEN s[i] - 1 ELSE 0]
<1>1. Len(s) \in Nat /\ DOMAIN s = 1..Len(s) /\ s \in [1..Len(s) -> Nat]
    BY LenProperties
<1>2. t \in [1..Len(s) -> Nat]
    BY <1>1
<1>3. t \in Seq(Nat) /\ Len(t) \in Nat /\ DOMAIN t = 1..Len(t)
    BY <1>1, <1>2
<1>4. Len(t) = Len(s)
    BY <1>1, <1>2, <1>3
<1>5. QED
    BY <1>1, <1>3, <1>4

-----------------------------------------------------------------------------

\* The initial state satisfies the inductive invariant.
LEMMA InitEstablishes == Init => IInv
<1> SUFFICES ASSUME Init PROVE IInv
    OBVIOUS
<1> USE DigesterAssumption DEF Init
<1>1. TypeOK
    <2>1. <<>> \in Seq(Hashes) /\ <<>> \in Seq(Nat) /\ Interval \in 0..Interval
        BY EmptySeq
    <2>2. digest \in [Users -> Seq(Hashes)] /\ timers \in [Users -> Seq(Nat)]
        BY <2>1
    <2>3. target \in Users <=> stage \in {"popped", "sending"}
        OBVIOUS
    <2>4. QED
        BY <2>1, <2>2, <2>3 DEF TypeOK
<1>2. OneCallPerUser
    BY DEF OneCallPerUser, InCall
<1>3. DigestIsFaithful
    BY DEF DigestIsFaithful
<1>4. LockHeldOnlyBySender
    BY DEF LockHeldOnlyBySender
<1>5. CallsRespectInterval
    BY DEF CallsRespectInterval, InCall
<1>6. QED
    BY <1>1, <1>2, <1>3, <1>4, <1>5 DEF IInv

\* Every step preserves the inductive invariant.
LEMMA StepPreserves == IInv /\ [Next]_vars => IInv'
<1> SUFFICES ASSUME IInv, [Next]_vars PROVE IInv'
    OBVIOUS
<1> USE DigesterAssumption
<1>1. ASSUME NEW u \in Users, NEW h \in Hashes, AddEmail(u, h) PROVE IInv'
    <2> USE <1>1 DEF AddEmail, history, IInv
    <2>1. /\ digest'[u] \in Seq(Hashes) /\ digest'[u] # <<>>
          /\ \A i, j \in DOMAIN digest'[u] : digest'[u][i] = digest'[u][j] => i = j
          /\ digestHashes'[u] = {digest'[u][i] : i \in DOMAIN digest'[u]}
        <3>1. /\ digest[u] \in Seq(Hashes)
              /\ \A i, j \in DOMAIN digest[u] : digest[u][i] = digest[u][j] => i = j
              /\ digestHashes[u] = {digest[u][i] : i \in DOMAIN digest[u]}
            BY DEF TypeOK, DigestIsFaithful
        <3>2. digest'[u] = Append(digest[u], h) /\ digestHashes'[u] = digestHashes[u] \cup {h}
            BY DEF TypeOK
        <3>3. h \notin {digest[u][i] : i \in DOMAIN digest[u]}
            BY <3>1
        <3> HIDE <1>1 DEF AddEmail, history, IInv
        <3>4. QED
            BY <3>1, <3>2, <3>3, AppendFresh, SMTT(30)
    <2>2. \A v \in Users \ {u} : digest'[v] = digest[v] /\ digestHashes'[v] = digestHashes[v]
        BY DEF TypeOK
    <2>3. DigestIsFaithful'
        BY <2>1, <2>2 DEF DigestIsFaithful
    <2>4. LockHeldOnlyBySender'
        BY DEF LockHeldOnlyBySender, TypeOK
    <2>5. CASE u \in lastEmail
        <3>1. timers' = timers /\ lastEmail' = lastEmail
            BY <2>5
        <3>2. TypeOK'
            BY <2>1, <3>1 DEF TypeOK
        <3>3. OneCallPerUser'
            BY <2>2, <2>5, <3>1 DEF OneCallPerUser, InCall
        <3>4. CallsRespectInterval'
            BY <3>1 DEF CallsRespectInterval, InCall
        <3>5. QED
            BY <2>3, <2>4, <3>2, <3>3, <3>4
    <2>6. CASE u \notin lastEmail
        <3>1. timers[u] \in Seq(Nat) /\ Len(timers[u]) = 0 /\ ~InCall(u)
            BY <2>6 DEF TypeOK, OneCallPerUser
        <3>2. timers' = [timers EXCEPT ![u] = Append(@, WaitDelay)] /\ lastEmail' = lastEmail \cup {u}
            BY <2>6 DEF Enter
        <3>3. /\ timers'[u] \in Seq(Nat) /\ Len(timers'[u]) = 1
              /\ DOMAIN timers'[u] = {1} /\ timers'[u][1] = WaitDelay
              /\ \A v \in Users \ {u} : timers'[v] = timers[v]
            BY <3>1, <3>2 DEF TypeOK
        <3>4. TypeOK'
            BY <2>1, <3>2, <3>3 DEF TypeOK
        <3>5. OneCallPerUser'
            BY <2>2, <3>1, <3>2, <3>3 DEF OneCallPerUser, InCall, TypeOK
        <3>6. CallsRespectInterval'
            BY <2>6, <3>1, <3>2, <3>3 DEF CallsRespectInterval, InCall, TypeOK
        <3>7. QED
            BY <2>3, <2>4, <3>4, <3>5, <3>6
    <2>7. QED
        BY <2>5, <2>6
<1>2. CASE LoopTest \/ RunReturns \/ Stop \/ UNCHANGED vars
    <2> USE <1>2 DEF LoopTest, RunReturns, Stop, vars, boxVars, history, IInv
    <2>1. TypeOK'
        BY DEF TypeOK
    <2>2. OneCallPerUser'
        BY DEF OneCallPerUser, InCall
    <2>3. DigestIsFaithful'
        BY DEF DigestIsFaithful
    <2>4. LockHeldOnlyBySender'
        BY DEF LockHeldOnlyBySender
    <2>5. CallsRespectInterval'
        BY DEF CallsRespectInterval, InCall
    <2>6. QED
        BY <2>1, <2>2, <2>3, <2>4, <2>5
<1>3. ASSUME NEW u \in Users, PopEvent(u) PROVE IInv'
    <2> USE <1>3 DEF PopEvent, boxVars, history, IInv
    <2>1. PICK i \in DOMAIN timers[u] :
            timers[u][i] = 0 /\ timers' = [timers EXCEPT ![u] = RemoveAt(@, i)]
        OBVIOUS
    <2>2. RemoveAt(timers[u], i) = <<>> /\ Len(timers[u]) = 1
        BY <2>1, RemoveOnly DEF TypeOK, OneCallPerUser
    <2>3. timers' = [timers EXCEPT ![u] = <<>>] /\ timers'[u] = <<>>
        BY <2>1, <2>2 DEF TypeOK
    <2>4. since[u] = Interval /\ u \in lastEmail
        <3>1. since[u] \in 0..Interval
            BY DEF TypeOK
        <3>2. QED
            BY <2>1, <2>2, <3>1 DEF OneCallPerUser, CallsRespectInterval
    <2>5. TypeOK'
        <3>1. timers' \in [Users -> Seq(Nat)]
            BY <2>3, EmptySeq DEF TypeOK
        <3>2. QED
            BY <3>1 DEF TypeOK
    <2>6. OneCallPerUser' /\ CallsRespectInterval'
        BY <2>3, <2>4 DEF OneCallPerUser, CallsRespectInterval, InCall, TypeOK
    <2>7. DigestIsFaithful' /\ LockHeldOnlyBySender'
        BY DEF DigestIsFaithful, LockHeldOnlyBySender
    <2>8. QED
        BY <2>5, <2>6, <2>7
<1>4. CASE ForgetUser
    <2> USE <1>4 DEF ForgetUser, boxVars, history, IInv
    <2>1. target \in Users /\ target \in lastEmail
        BY DEF TypeOK, OneCallPerUser, InCall
    <2>2. TypeOK'
        BY <2>1 DEF TypeOK
    <2>3. OneCallPerUser' /\ CallsRespectInterval'
        BY <2>1 DEF OneCallPerUser, CallsRespectInterval, InCall, TypeOK
    <2>4. DigestIsFaithful'
        BY DEF DigestIsFaithful
    <2>5. LockHeldOnlyBySender'
        <3>1. stage' = "run" /\ ~locked'
            BY <2>1
        <3>2. QED
            BY <3>1 DEF LockHeldOnlyBySender
    <2>6. QED
        BY <2>2, <2>3, <2>4, <2>5
<1>5. CASE StartSend \/ MailRefused \/ MailRaises
    <2> USE <1>5 DEF StartSend, MailRefused, MailRaises, boxVars, history, IInv
    <2>1. TypeOK'
        BY DEF TypeOK
    <2>2. OneCallPerUser'
        BY DEF OneCallPerUser, InCall, TypeOK
    <2>3. DigestIsFaithful'
        BY DEF DigestIsFaithful
    <2>4. LockHeldOnlyBySender'
        BY DEF LockHeldOnlyBySender, TypeOK
    <2>5. CallsRespectInterval'
        BY DEF CallsRespectInterval, InCall, TypeOK
    <2>6. QED
        BY <2>1, <2>2, <2>3, <2>4, <2>5
<1>6. CASE MailSent
    <2> USE <1>6 DEF MailSent, Enter, IInv
    <2>1. target \in Users /\ timers[target] = <<>>
        BY DEF TypeOK, OneCallPerUser, InCall
    <2>2. /\ timers'[target] = <<Interval>>
          /\ digest'[target] = <<>> /\ digestHashes'[target] = {} /\ since'[target] = 0
          /\ \A v \in Users \ {target} :
                /\ timers'[v] = timers[v] /\ digest'[v] = digest[v]
                /\ digestHashes'[v] = digestHashes[v] /\ since'[v] = since[v]
        BY <2>1 DEF TypeOK
    <2>3. TypeOK'
        <3>1. digest' \in [Users -> Seq(Hashes)] /\ digestHashes' \in [Users -> SUBSET Hashes]
            BY EmptySeq DEF TypeOK
        <3>2. timers' \in [Users -> Seq(Nat)]
            BY <2>1 DEF TypeOK
        <3>3. since' \in [Users -> 0..Interval] /\ lastEmail' \in SUBSET Users
            BY <2>1 DEF TypeOK
        <3>4. QED
            BY <3>1, <3>2, <3>3 DEF TypeOK
    <2>4. OneCallPerUser'
        <3>1. Len(timers'[target]) = 1 /\ target \in lastEmail'
            BY <2>2
        <3>2. \A u \in Users : ~InCall(u)'
            BY DEF InCall
        <3>3. \A v \in Users \ {target} : ~InCall(v)
            BY DEF InCall
        <3>4. \A v \in Users \ {target} : v \in lastEmail' <=> v \in lastEmail
            OBVIOUS
        <3>5. failed' = failed /\ stage # "dead"
            OBVIOUS
        <3>6. QED
            BY <2>1, <2>2, <3>1, <3>2, <3>3, <3>4, <3>5 DEF OneCallPerUser
    <2>7. CallsRespectInterval'
        BY <2>1, <2>2 DEF CallsRespectInterval, InCall, OneCallPerUser, TypeOK
    <2>5. DigestIsFaithful' /\ LockHeldOnlyBySender'
        BY <2>1, <2>2 DEF DigestIsFaithful, LockHeldOnlyBySender
    <2>6. QED
        BY <2>3, <2>4, <2>5, <2>7
<1>7. CASE Tick
    <2> USE <1>7 DEF Tick, boxVars, history, IInv
    <2>1. \A u \in Users : /\ timers'[u] \in Seq(Nat)
                           /\ Len(timers'[u]) = Len(timers[u])
                           /\ DOMAIN timers'[u] = DOMAIN timers[u]
        BY TickQueue DEF TypeOK
    <2>2. \A u \in Users : since'[u] \in 0..Interval
        BY DEF TypeOK
    <2>3. TypeOK'
        BY <2>1, <2>2 DEF TypeOK
    <2>4. OneCallPerUser'
        BY <2>1 DEF OneCallPerUser, InCall
    <2>5. CallsRespectInterval'
        <3>1. ASSUME NEW u \in Users, NEW i \in DOMAIN timers'[u]
              PROVE  since'[u] + timers'[u][i] >= Interval
            <4>1. /\ since[u] \in 0..Interval
                  /\ timers[u] \in Seq(Nat)
                  /\ i \in DOMAIN timers[u] /\ timers[u][i] \in Nat
                BY <2>1, <3>1 DEF TypeOK
            <4>2. /\ timers'[u][i] = IF timers[u][i] > 0 THEN timers[u][i] - 1 ELSE 0
                  /\ since'[u] = IF since[u] < Interval THEN since[u] + 1 ELSE Interval
                BY <4>1
            <4>3. since[u] + timers[u][i] >= Interval
                BY <4>1 DEF CallsRespectInterval
            <4>4. QED
                BY <4>1, <4>2, <4>3
        <3>2. \A u \in Users : since[u] = Interval => since'[u] = Interval
            BY DEF TypeOK
        <3>3. QED
            BY <3>1, <3>2 DEF CallsRespectInterval, InCall
    <2>6. DigestIsFaithful' /\ LockHeldOnlyBySender'
        BY DEF DigestIsFaithful, LockHeldOnlyBySender
    <2>7. QED
        BY <2>3, <2>4, <2>5, <2>6
<1>8. QED
    BY <1>1, <1>2, <1>3, <1>4, <1>5, <1>6, <1>7 DEF Next, Thread

\* The inductive invariant holds in every reachable state.
THEOREM DigesterInvariant == Spec => []IInv
<1>1. Init => IInv
    BY InitEstablishes
<1>2. IInv /\ [Next]_vars => IInv'
    BY StepPreserves
<1>3. QED
    BY <1>1, <1>2, PTL DEF Spec

\* Type correctness of the digester (email_digester.py), whatever the mail server does.
THEOREM TypeCorrect == Spec => []TypeOK
<1>1. IInv => TypeOK
    BY DEF IInv
<1>2. QED
    BY <1>1, DigesterInvariant, PTL

\* At most one event or call of _send_email per user, whatever the mail server does.
THEOREM OneCall == Spec => []OneCallPerUser
<1>1. IInv => OneCallPerUser
    BY DEF IInv
<1>2. QED
    BY <1>1, DigesterInvariant, PTL

\* No message is twice in a digest, and _digest_hashes agrees with _digest.
THEOREM FaithfulDigest == Spec => []DigestIsFaithful
<1>1. IInv => DigestIsFaithful
    BY DEF IInv
<1>2. QED
    BY <1>1, DigesterInvariant, PTL

-----------------------------------------------------------------------------
(* Each step of the digester is a step of DigestMailer, or a stutter. *)

LEMMA InitRefines == Init => Mailer!Init
BY DEF Init, Mailer!Init

LEMMA StepRefines == IInv /\ [Next]_vars => [Mailer!Next]_(Mailer!vars)
<1> SUFFICES ASSUME IInv, [Next]_vars PROVE [Mailer!Next]_(Mailer!vars)
    OBVIOUS
<1> USE DigesterAssumption DEF Mailer!Next, Mailer!vars
<1>1. ASSUME NEW u \in Users, NEW h \in Hashes, AddEmail(u, h)
      PROVE  Mailer!Submit(u, h)
    BY <1>1 DEF AddEmail, history, Mailer!Submit
<1>2. CASE MailSent
    <2>1. target \in Users /\ stage = "sending"
        BY <1>2 DEF MailSent, IInv, TypeOK
    <2>2. since[target] = Interval
        BY <2>1 DEF IInv, CallsRespectInterval, InCall
    <2>3. digestHashes[target] # {}
        <3>1. digest[target] # <<>> /\ digest[target] \in Seq(Hashes)
            BY <2>1 DEF IInv, LockHeldOnlyBySender, TypeOK
        <3>2. 1 \in DOMAIN digest[target]
            BY <3>1
        <3>3. QED
            BY <2>1, <3>2 DEF IInv, DigestIsFaithful
    <2>4. Mailer!Mail(target)
        BY <1>2, <2>2, <2>3 DEF MailSent, Mailer!Mail
    <2>5. QED
        BY <2>1, <2>4
<1>3. CASE Tick
    BY <1>3 DEF Tick, boxVars, history, Mailer!Tick
<1>4. CASE \/ LoopTest \/ RunReturns \/ ForgetUser \/ StartSend \/ MailRefused
           \/ MailRaises \/ Stop \/ UNCHANGED vars
    BY <1>4 DEF LoopTest, RunReturns, ForgetUser, StartSend, MailRefused, MailRaises, Stop,
        vars, boxVars, history
<1>5. ASSUME NEW u \in Users, PopEvent(u) PROVE UNCHANGED Mailer!vars
    BY <1>5 DEF PopEvent, boxVars, history
<1>6. QED
    BY <1>1, <1>2, <1>3, <1>4, <1>5 DEF Next, Thread

\* The digester implements DigestMailer: messages are kept until they are mailed,
\* all together, and no sooner than Interval after the previous mail.
THEOREM Refinement == Spec => ImplementsMailer
<1>1. Init => Mailer!Init
    BY InitRefines
<1>2. IInv /\ [Next]_vars => [Mailer!Next]_(Mailer!vars)
    BY StepRefines
<1>3. QED
    BY <1>1, <1>2, DigesterInvariant, PTL DEF Spec, ImplementsMailer, Mailer!Spec

\* Two mails to a user are Interval apart: only a mail shortens a digest.
THEOREM SpacedMails == Spec => MailsAreSpaced
<1>1. IInv /\ [Next]_vars
        => [\A u \in Users : (Len(digest'[u]) < Len(digest[u])) => since[u] = Interval]_vars
    <2> SUFFICES ASSUME IInv, [Next]_vars, NEW u \in Users, Len(digest'[u]) < Len(digest[u])
                 PROVE  since[u] = Interval
        OBVIOUS
    <2>1. digest \in [Users -> Seq(Hashes)]
        BY DEF IInv, TypeOK
    <2>2. ASSUME NEW v \in Users, NEW h \in Hashes, AddEmail(v, h) PROVE FALSE
        <3>1. digest'[u] = IF u = v THEN Append(digest[u], h) ELSE digest[u]
            BY <2>1, <2>2 DEF AddEmail, history
        <3>2. Len(digest[u]) \in Nat /\ Len(Append(digest[u], h)) = Len(digest[u]) + 1
            BY <2>1
        <3>3. QED
            BY <3>1, <3>2
    <2>3. CASE MailSent
        <3>1. u = target
            BY <2>1, <2>3 DEF MailSent
        <3>2. QED
            BY <2>3, <3>1 DEF MailSent, IInv, CallsRespectInterval, InCall
    <2>4. CASE digest' = digest
        BY <2>1, <2>4
    <2>5. QED
        BY <2>2, <2>3, <2>4 DEF Next, Thread, LoopTest, RunReturns, ForgetUser, StartSend,
            MailRefused, MailRaises, PopEvent, Stop, Tick, vars, boxVars, history
<1>2. QED
    BY <1>1, DigesterInvariant, PTL DEF Spec, MailsAreSpaced
=============================================================================
