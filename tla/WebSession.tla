----------------------------- MODULE WebSession -----------------------------
(***************************************************************************)
(* The session of one browser.  It is kept in a signed cookie, which each  *)
(* request reads when it begins and writes as a whole when it is answered; *)
(* the tabs of the browser make requests that overlap.  With it, the pages *)
(* that sign in and out (ictv/pages/local_login.py, shibboleth.py), LogAs  *)
(* (ictv/pages/utils.py), which lets an administrator see the application  *)
(* as another user, the messages that a page leaves for the next one       *)
(* (ictv/common/feedbacks.py), the processors around all requests          *)
(* (ictv/app.py), and the link that resets a password.                     *)
(***************************************************************************)
EXTENDS Naturals

CONSTANTS
    Accounts,   \* users who have an account
    Nobody,
    Tabs,       \* tabs of the browser, each with one request at a time
    Feedbacks,  \* messages
    MaxLevel    \* of a user: 0, of an administrator: 1, and of a super administrator: 2

ASSUME SessionAssumption == Nobody \notin Accounts /\ MaxLevel \in 0 .. 2

\* `user` is who the application serves, `real` who it is when logged as that user, `signed`
\* (history) who has signed in with this session.
Session == [user : Accounts \cup {Nobody}, real : Accounts \cup {Nobody},
            sidebar : Accounts \cup {Nobody}, signed : SUBSET Accounts,
            next : SUBSET Feedbacks, feedbacks : SUBSET Feedbacks]

Empty == [user |-> Nobody, real |-> Nobody, sidebar |-> Nobody, signed |-> {},
          next |-> {}, feedbacks |-> {}]

VARIABLES
    level,      \* level[u]
    cookie,     \* the session in the browser
    page, arg,  \* of a tab: the page that was asked for, with its argument
    session,    \* the session of its request
    link,       \* the link to reset a password that it is about: the "last" one, whose
                \* secret is the one of the account, an "old" one, or "none"
    account,    \* whether one with its secret was found: "unread", "yes" or "no"
    late,       \* history: another request was answered since it began
    reported,   \* history: the messages of the last request that was answered
    used        \* history: the password was changed with the last link

tabVars == <<page, arg, session, link, account, late>>
sessionVars == <<level, cookie, tabVars, reported, used>>

SessionInit ==
    /\ \E u \in Accounts : level = [v \in Accounts |-> IF v = u THEN MaxLevel ELSE 0]
    /\ cookie = Empty
    /\ page = [t \in Tabs |-> "none"] /\ arg = [t \in Tabs |-> Nobody]
    /\ session = [t \in Tabs |-> Empty]
    /\ link = [t \in Tabs |-> "none"] /\ account = [t \in Tabs |-> "unread"]
    /\ late = [t \in Tabs |-> FALSE]
    /\ reported = {} /\ used = FALSE

-----------------------------------------------------------------------------
(* Requests begin and end. *)

\* post_auth drops the sidebar, which is made again for the page.
PostAuth(s) == [s EXCEPT !.sidebar = Nobody]

Begin(t, p, a, l) ==
    /\ page[t] = "none"
    /\ page' = [page EXCEPT ![t] = p]
    /\ arg' = [arg EXCEPT ![t] = a]
    /\ link' = [link EXCEPT ![t] = l]
    /\ session' = [session EXCEPT ![t] = PostAuth(cookie)]
    /\ UNCHANGED <<level, cookie, account, late, reported, used>>

\* Mutant of Rotate: the messages are left for the next request too.
RotateAndKeep(s) == [s EXCEPT !.feedbacks = @ \cup s.next, !.next = {}]

\* rotate_feedbacks, after every request.
Rotate(s) == [s EXCEPT !.feedbacks = s.next, !.next = {}]

\* The request of t is answered with the session s, having reported some messages.
Respond(t, s, messages) ==
    /\ cookie' = Rotate(s)
    /\ page' = [page EXCEPT ![t] = "none"]
    /\ arg' = [arg EXCEPT ![t] = Nobody]
    /\ session' = [session EXCEPT ![t] = Empty]
    /\ account' = [account EXCEPT ![t] = "unread"]
    /\ late' = [v \in Tabs |-> v # t /\ page[v] # "none"]
    /\ reported' = messages

\* It changes nothing else,
Keep(t) == link' = [link EXCEPT ![t] = "none"] /\ UNCHANGED <<level, used>>

\* or it gives the account a new secret.
NewSecret(t) ==
    /\ link' = [v \in Tabs |-> IF v = t \/ link[v] = "none" THEN "none" ELSE "old"]
    /\ used' = FALSE
    /\ UNCHANGED level

Serving(t, p) == page[t] = p
In(t) == session[t].user # Nobody

\* add_feedback: a session without a user keeps only the last message.
AddFeedback(s, m) == [s EXCEPT !.next = IF s.user = Nobody THEN {m} ELSE @ \cup {m}]

-----------------------------------------------------------------------------
(* Pages that sign in and out. *)

\* LoginPage: who has signed in already is sent to the home page.
SignIn(t) ==
    /\ Serving(t, "login")
    /\ Respond(t, IF In(t) THEN session[t]
                 ELSE [session[t] EXCEPT !.user = arg[t], !.signed = @ \cup {arg[t]}], {})
    /\ Keep(t)

SignInFails(t) ==
    /\ Serving(t, "login") /\ ~In(t)
    /\ \E m \in Feedbacks : Respond(t, AddFeedback(session[t], m), {m})
    /\ Keep(t)

\* Shibboleth: the identity provider posts who signed in, in whatever session.
SignOn(t) ==
    /\ Serving(t, "shibboleth")
    /\ Respond(t, [session[t] EXCEPT !.user = arg[t], !.signed = @ \cup {arg[t]}], {})
    /\ Keep(t)

\* Mutant of Logout: only the user is taken out of the session.
LogoutUser(t) ==
    /\ Serving(t, "logout")
    /\ Respond(t, [session[t] EXCEPT !.user = Nobody, !.signed = {}], {})
    /\ Keep(t)

Logout(t) ==
    /\ Serving(t, "logout")
    /\ Respond(t, Empty, {})
    /\ Keep(t)

-----------------------------------------------------------------------------
(* Pages for those who have signed in; others are sent to the login page. *)

Redirect(t) == Respond(t, session[t], {}) /\ Keep(t)

\* PermissionGate, webapp_decorator and sidebar: who is logged as a user who has been given
\* more rights than its own goes to /logas/nobody.
Outranked(s) == s.real # Nobody /\ level[s.user] > level[s.real]

\* A page that is shown, with its sidebar.
View(t) ==
    /\ Serving(t, "view")
    /\ IF In(t) /\ ~Outranked(session[t])
       THEN /\ Respond(t, [session[t] EXCEPT !.sidebar = session[t].user], {})
            /\ Keep(t)
       ELSE Redirect(t)

\* A form that is sent, whose outcome is reported.
Post(t) ==
    /\ Serving(t, "post")
    /\ IF In(t) /\ ~Outranked(session[t])
       THEN /\ Respond(t, AddFeedback(session[t], arg[t]), {arg[t]})
            /\ Keep(t)
       ELSE Redirect(t)

Real(s) == IF s.real = Nobody THEN s.user ELSE s.real

\* LogAs: the gate is that of the user seen, the rights are those of the real one.
LogAs(t) ==
    /\ Serving(t, "logas")
    /\ LET s == session[t] IN
       IF In(t) /\ ~Outranked(s) /\ level[s.user] >= 1 /\ level[arg[t]] <= level[Real(s)]
       THEN /\ Respond(t, [s EXCEPT !.real = Real(s), !.user = arg[t]], {})
            /\ Keep(t)
       ELSE Redirect(t)

LogAsNobody(t) ==
    /\ Serving(t, "nobody")
    /\ LET s == session[t] IN
       IF In(t)
       THEN /\ Respond(t, [s EXCEPT !.user = Real(s), !.real = Nobody], {})
            /\ Keep(t)
       ELSE Redirect(t)

\* The users page.
SetLevel(u, l) ==
    /\ level' = [level EXCEPT ![u] = l]
    /\ UNCHANGED <<cookie, tabVars, reported, used>>

-----------------------------------------------------------------------------
(* The link that resets the password of an account. *)

GetResetLink(t) ==
    /\ Serving(t, "link")
    /\ IF In(t) THEN Respond(t, session[t], {}) /\ NewSecret(t) ELSE Redirect(t)

\* ResetPage looks for the account by the secret of the link,
FindAccount(t) ==
    /\ Serving(t, "reset") /\ account[t] = "unread"
    /\ account' = [account EXCEPT ![t] = IF link[t] = "last" THEN "yes" ELSE "no"]
    /\ UNCHANGED <<level, cookie, page, arg, session, link, late, reported, used>>

\* and refuses the passwords that do not match or are too short;
Refuse(t) ==
    /\ Serving(t, "reset") /\ account[t] # "unread"
    /\ \E m \in Feedbacks : Respond(t, AddFeedback(session[t], m), {m})
    /\ Keep(t)

Changes(t) ==
    /\ Serving(t, "reset") /\ account[t] = "yes"
    /\ \E m \in Feedbacks : Respond(t, AddFeedback(session[t], m), {m})

\* Mutant of Reset: the secret stays.
ResetAgain(t) ==
    /\ Changes(t)
    /\ link' = [link EXCEPT ![t] = "none"]
    /\ used' = (used \/ link[t] = "last")
    /\ UNCHANGED level

\* or changes the password, and the secret,
Reset(t) == Changes(t) /\ NewSecret(t)

\* or fails, since there is no account.
ResetFails(t) == Serving(t, "reset") /\ account[t] = "no" /\ Redirect(t)

-----------------------------------------------------------------------------

Ask(t) ==
    \/ \E p \in {"logout", "view", "nobody", "link"} : Begin(t, p, Nobody, "none")
    \/ \E p \in {"login", "shibboleth", "logas"}, u \in Accounts : Begin(t, p, u, "none")
    \/ \E m \in Feedbacks : Begin(t, "post", m, "none")
    \/ \E l \in {"last", "old"} : Begin(t, "reset", Nobody, l)

Serve(t) ==
    \/ SignIn(t) \/ SignInFails(t) \/ SignOn(t) \/ Logout(t)
    \/ View(t) \/ Post(t) \/ LogAs(t) \/ LogAsNobody(t)
    \/ GetResetLink(t) \/ FindAccount(t) \/ Refuse(t) \/ Reset(t) \/ ResetFails(t)

SessionNext ==
    \/ \E t \in Tabs : Ask(t) \/ Serve(t)
    \/ \E u \in Accounts, l \in 0 .. MaxLevel : SetLevel(u, l)

SessionSpec == SessionInit /\ [][SessionNext]_sessionVars

-----------------------------------------------------------------------------
(* Properties. *)

SessionTypeOK ==
    /\ level \in [Accounts -> 0 .. MaxLevel]
    /\ cookie \in Session /\ session \in [Tabs -> Session]
    /\ page \in [Tabs -> {"none", "login", "shibboleth", "logout", "view", "post", "logas",
                          "nobody", "link", "reset"}]
    /\ arg \in [Tabs -> Accounts \cup Feedbacks \cup {Nobody}]
    /\ link \in [Tabs -> {"none", "old", "last"}] /\ account \in [Tabs -> {"unread", "yes", "no"}]
    /\ late \in [Tabs -> BOOLEAN] /\ used \in BOOLEAN
    /\ reported \in SUBSET Feedbacks

\* A session is of somebody who signed in with it, or has logged as another from there, and
\* who goes back, through however many users, to an account that signed in; a logout leaves neither; the
\* sidebar that is kept is that of the user.
SessionIsOfWhoSignedIn ==
    /\ cookie.user # Nobody => Real(cookie) \in cookie.signed
    /\ cookie.user = Nobody => cookie.real = Nobody
    /\ cookie.sidebar \in {Nobody, cookie.user}

\* A page shows the messages of the request that was answered before it, all and no other,
\* unless a request that was under way with it has been answered first: the cookie of each
\* overwrites that of the other, and messages are lost or shown twice.
FeedbacksAreOfTheLastRequest ==
    \A t \in Tabs : page[t] # "none" /\ ~late[t] => session[t].feedbacks = reported

\* "Make this token one time use" (local_login.py): a link changes the password once, unless
\* it is sent twice at once, and both requests find the account.
LinkIsUsedOnce ==
    [][\A t \in Tabs : Reset(t) => late[t] \/ (link[t] = "last" /\ ~used)]_sessionVars
=============================================================================
