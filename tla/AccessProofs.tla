---------------------------- MODULE AccessProofs ----------------------------
(***************************************************************************)
(* Proofs about UserRights, WebSession and ChannelConfig: whose session a  *)
(* cookie is, the messages that a page shows, who writes the parameters of *)
(* a channel, and which roles users have. The three share no state, and    *)
(* each has its theorems, for any users, channels, tabs, threads and       *)
(* forms.                                                                  *)
(***************************************************************************)
EXTENDS UserRights, WebSession, ChannelConfig, TLAPS

-----------------------------------------------------------------------------
(* Sessions. *)

\* Somebody who signed in with the session is behind its user.
Good(s) ==
    /\ s.user # Nobody => Real(s) \in s.signed
    /\ s.user = Nobody => s.real = Nobody

\* The pages get the argument they need.
Asks(t) ==
    /\ page[t] \in {"login", "shibboleth", "logas"} => arg[t] \in Accounts
    /\ page[t] = "post" => arg[t] \in Feedbacks

\* What a request read is a session as pages find it.
Serves(t) ==
    /\ Good(session[t]) /\ session[t].sidebar = Nobody /\ session[t].next = {}
    /\ page[t] # "none" /\ ~late[t] => session[t].feedbacks = reported

\* It has looked for the account of its link.
Looks(t) ==
    /\ account[t] # "unread" => page[t] = "reset"
    /\ account[t] = "yes" => link[t] = "last" \/ late[t]

SessionInv ==
    /\ SessionTypeOK
    /\ Good(cookie) /\ cookie.sidebar \in {Nobody, cookie.user}
    /\ cookie.next = {} /\ cookie.feedbacks = reported
    /\ \A t \in Tabs : Asks(t) /\ Serves(t) /\ Looks(t)
    /\ used = FALSE

LEMMA EmptyIsGood == Empty \in Session /\ Good(Empty)
  BY DEF Empty, Session, Good

LEMMA SessionInvInit == SessionInit => SessionInv
  <1> SUFFICES ASSUME SessionInit PROVE SessionInv
    OBVIOUS
  <1>1. level \in [Accounts -> 0 .. MaxLevel]
    BY SessionAssumption DEF SessionInit
  <1> QED
    BY <1>1, EmptyIsGood DEF SessionInit, SessionInv, SessionTypeOK, Asks, Serves, Looks, Empty

LEMMA BeginKeeps ==
    ASSUME SessionInv, NEW t \in Tabs, Ask(t)
    PROVE  SessionInv'
  <1>1. PICK p \in {"login", "shibboleth", "logout", "view", "post", "logas", "nobody", "link", "reset"},
             a \in Accounts \cup Feedbacks \cup {Nobody}, l \in {"none", "old", "last"} :
             /\ Begin(t, p, a, l)
             /\ p \in {"login", "shibboleth", "logas"} => a \in Accounts
             /\ p = "post" => a \in Feedbacks
    BY DEF Ask
  <1>2. PostAuth(cookie) \in Session /\ Good(PostAuth(cookie)) /\ PostAuth(cookie).sidebar = Nobody
        /\ PostAuth(cookie).next = {} /\ PostAuth(cookie).feedbacks = reported
    BY DEF SessionInv, SessionTypeOK, PostAuth, Session, Good, Real
  <1>3. SessionTypeOK'
    BY <1>1, <1>2 DEF SessionInv, SessionTypeOK, Begin
  <1>4. Asks(t)' /\ Serves(t)' /\ Looks(t)'
    BY <1>1, <1>2 DEF SessionInv, SessionTypeOK, Begin, Asks, Serves, Looks, Good, Real
  <1>5. ASSUME NEW v \in Tabs, v # t PROVE Asks(v)' /\ Serves(v)' /\ Looks(v)'
    BY <1>1, <1>5 DEF SessionInv, SessionTypeOK, Begin, Asks, Serves, Looks, Good, Real
  <1>6. (/\ Good(cookie) /\ cookie.sidebar \in {Nobody, cookie.user}
         /\ cookie.next = {} /\ cookie.feedbacks = reported /\ used = FALSE)'
    BY <1>1 DEF SessionInv, Begin, Good, Real
  <1> QED BY <1>3, <1>4, <1>5, <1>6 DEF SessionInv

\* A link that is no longer the last one is that of a request under way.
LEMMA AnswerLinks ==
    ASSUME NEW t \in Tabs, NEW v \in Tabs, v # t, SessionTypeOK, Keep(t) \/ NewSecret(t)
    PROVE  link'[v] = link[v] \/ (NewSecret(t) /\ link[v] # "none")
  BY DEF SessionTypeOK, Keep, NewSecret

\* An answer that keeps a good session, with the messages of the request.
LEMMA AnswerKeeps ==
    ASSUME SessionInv, NEW t \in Tabs, NEW s \in Session, NEW messages \in SUBSET Feedbacks,
           Good(s), s.sidebar \in {Nobody, s.user}, s.next = messages,
           Respond(t, s, messages), Keep(t) \/ NewSecret(t)
    PROVE  SessionInv'
  <1>1. Rotate(s) \in Session /\ Good(Rotate(s)) /\ Rotate(s).sidebar \in {Nobody, Rotate(s).user}
        /\ Rotate(s).next = {} /\ Rotate(s).feedbacks = messages
    BY DEF Session, Rotate, Good, Real
  <1>2. link' \in [Tabs -> {"none", "old", "last"}] /\ level' = level /\ used' = FALSE
    <2>1. CASE Keep(t)
      BY <2>1 DEF SessionInv, SessionTypeOK, Keep
    <2>2. CASE NewSecret(t)
      BY <2>2 DEF SessionInv, SessionTypeOK, NewSecret
    <2> QED BY <2>1, <2>2
  <1>3. SessionTypeOK' /\ \A v \in Tabs : v # t /\ page[v] # "none" => late'[v]
    <2>1. \A v \in Tabs : (v # t /\ page[v] # "none") \in BOOLEAN
      OBVIOUS
    <2>2. late' \in [Tabs -> BOOLEAN] /\ \A v \in Tabs : v # t /\ page[v] # "none" => late'[v]
      BY <2>1, Zenon DEF Respond
    <2>3. cookie' \in Session /\ session' \in [Tabs -> Session]
      BY <1>1, EmptyIsGood DEF SessionInv, SessionTypeOK, Respond
    <2>4. /\ page' = [page EXCEPT ![t] = "none"] /\ arg' = [arg EXCEPT ![t] = Nobody]
          /\ account' = [account EXCEPT ![t] = "unread"] /\ reported' = messages
      BY DEF Respond
    <2>5. late' \in [Tabs -> BOOLEAN]
      BY <2>2
    <2>6. SessionTypeOK
      BY DEF SessionInv
    <2>7. /\ page' \in [Tabs -> {"none", "login", "shibboleth", "logout", "view", "post", "logas",
                                "nobody", "link", "reset"}]
          /\ arg' \in [Tabs -> Accounts \cup Feedbacks \cup {Nobody}]
          /\ account' \in [Tabs -> {"unread", "yes", "no"}]
          /\ reported' \in SUBSET Feedbacks /\ level' \in [Accounts -> 0 .. MaxLevel]
      BY <1>2, <2>4, <2>6 DEF SessionTypeOK
    <2>8. SessionTypeOK'
      BY <1>2, <2>3, <2>5, <2>7 DEF SessionTypeOK
    <2> QED BY <2>2, <2>8, Zenon
  <1>4. Asks(t)' /\ Serves(t)' /\ Looks(t)'
    BY EmptyIsGood
    DEF SessionInv, SessionTypeOK, Respond, Asks, Serves, Looks, Good, Real, Empty
  <1>5. ASSUME NEW v \in Tabs, v # t PROVE Asks(v)' /\ Serves(v)' /\ Looks(v)'
    BY <1>2, <1>3, <1>5, AnswerLinks DEF SessionInv, SessionTypeOK, Respond, Asks, Serves, Looks, Good, Real
  <1>6. (/\ Good(cookie) /\ cookie.sidebar \in {Nobody, cookie.user}
         /\ cookie.next = {} /\ cookie.feedbacks = reported)'
    BY <1>1 DEF Respond, Good, Real
  <1> QED BY <1>2, <1>3, <1>4, <1>5, <1>6 DEF SessionInv

\* The pages that sign in and out, and those that change who is behind the session.
LEMMA SigningKeeps ==
    ASSUME SessionInv, NEW t \in Tabs,
           SignIn(t) \/ SignInFails(t) \/ SignOn(t) \/ Logout(t)
    PROVE  SessionInv'
  <1> DEFINE s == session[t]
  <1>1. s \in Session /\ Good(s) /\ s.sidebar = Nobody /\ s.next = {} /\ s.user \in Accounts \cup {Nobody}
    BY DEF SessionInv, SessionTypeOK, Serves, Session
  <1>2. CASE SignIn(t)
    <2>1. arg[t] \in Accounts
      BY <1>2 DEF SignIn, Serving, SessionInv, Asks
    <2>2. CASE In(t)
      BY <1>1, <1>2, <2>2, AnswerKeeps DEF SignIn
    <2>3. CASE ~In(t)
      <3> DEFINE n == [s EXCEPT !.user = arg[t], !.signed = @ \cup {arg[t]}]
      <3>1. n \in Session /\ Good(n) /\ n.sidebar = Nobody /\ n.next = {}
        BY <1>1, <2>1, <2>3 DEF Session, Good, Real, In
      <3>2. Respond(t, n, {}) /\ Keep(t)
        BY <1>2, <2>3 DEF SignIn
      <3> HIDE DEF n
      <3> QED BY <3>1, <3>2, AnswerKeeps
    <2> QED BY <2>2, <2>3
  <1>3. CASE SignInFails(t)
    <2>1. PICK m \in Feedbacks : Respond(t, AddFeedback(s, m), {m})
      BY <1>3 DEF SignInFails
    <2>2. AddFeedback(s, m) \in Session /\ Good(AddFeedback(s, m))
          /\ AddFeedback(s, m).sidebar = Nobody /\ AddFeedback(s, m).next = {m}
      BY <1>1 DEF AddFeedback, Session, Good, Real
    <2> QED BY <1>3, <2>1, <2>2, AnswerKeeps DEF SignInFails
  <1>4. CASE SignOn(t)
    <2>1. arg[t] \in Accounts
      BY <1>4 DEF SignOn, Serving, SessionInv, Asks
    <2> DEFINE n == [s EXCEPT !.user = arg[t], !.signed = @ \cup {arg[t]}]
    <2>2. n \in Session /\ Good(n) /\ n.sidebar = Nobody /\ n.next = {}
      BY <1>1, <2>1, SessionAssumption DEF Session, Good, Real
    <2>3. Respond(t, n, {}) /\ Keep(t)
      BY <1>4 DEF SignOn
    <2> HIDE DEF n
    <2> QED BY <2>2, <2>3, AnswerKeeps
  <1>5. CASE Logout(t)
    BY <1>5, EmptyIsGood, AnswerKeeps DEF Logout, Empty
  <1> QED BY <1>2, <1>3, <1>4, <1>5

\* A page that leaves the session as it is.
LEMMA RedirectKeeps ==
    ASSUME SessionInv, NEW t \in Tabs, Respond(t, session[t], {}), Keep(t) \/ NewSecret(t)
    PROVE  SessionInv'
  <1>1. session[t] \in Session /\ Good(session[t]) /\ session[t].sidebar = Nobody /\ session[t].next = {}
    BY DEF SessionInv, SessionTypeOK, Serves
  <1> QED BY <1>1, AnswerKeeps

\* A page that leaves a message.
LEMMA FeedbackKeeps ==
    ASSUME SessionInv, NEW t \in Tabs, NEW m \in Feedbacks,
           Respond(t, AddFeedback(session[t], m), {m}), Keep(t) \/ NewSecret(t)
    PROVE  SessionInv'
  <1>1. session[t] \in Session /\ Good(session[t]) /\ session[t].sidebar = Nobody /\ session[t].next = {}
    BY DEF SessionInv, SessionTypeOK, Serves
  <1> DEFINE n == AddFeedback(session[t], m)
  <1>2. n \in Session /\ Good(n) /\ n.sidebar = Nobody /\ n.next = {m}
    BY <1>1 DEF AddFeedback, Session, Good, Real
  <1> HIDE DEF n
  <1> QED BY <1>2, AnswerKeeps DEF n

LEMMA PagesKeep ==
    ASSUME SessionInv, NEW t \in Tabs,
           View(t) \/ Post(t) \/ LogAs(t) \/ LogAsNobody(t)
    PROVE  SessionInv'
  <1> DEFINE s == session[t]
  <1>1. s \in Session /\ Good(s) /\ s.sidebar = Nobody /\ s.next = {}
    BY DEF SessionInv, SessionTypeOK, Serves
  <1>2. CASE Redirect(t)
    BY <1>2, RedirectKeeps DEF Redirect
  <1>3. CASE View(t) /\ ~Redirect(t)
    <2> DEFINE n == [s EXCEPT !.sidebar = s.user]
    <2>1. n \in Session /\ Good(n) /\ n.sidebar = n.user /\ n.next = {}
      BY <1>1 DEF Session, Good, Real
    <2>2. Respond(t, n, {}) /\ Keep(t)
      BY <1>3 DEF View
    <2> HIDE DEF n
    <2> QED BY <2>1, <2>2, AnswerKeeps
  <1>4. CASE Post(t) /\ ~Redirect(t)
    <2>1. arg[t] \in Feedbacks
      BY <1>4 DEF Post, Serving, SessionInv, Asks
    <2> QED BY <1>4, <2>1, FeedbackKeeps DEF Post
  <1>5. CASE LogAs(t) /\ ~Redirect(t)
    <2> DEFINE n == [s EXCEPT !.real = Real(s), !.user = arg[t]]
    <2>1. arg[t] \in Accounts /\ s.user # Nobody
      BY <1>5 DEF LogAs, Serving, SessionInv, Asks, In
    <2>2. Real(s) \in s.signed /\ Real(s) \in Accounts
      BY <1>1, <2>1 DEF Good, Session
    <2>3. n \in Session /\ Good(n) /\ n.sidebar = Nobody /\ n.next = {}
      BY <1>1, <2>1, <2>2, SessionAssumption DEF Session, Good, Real
    <2>4. Respond(t, n, {}) /\ Keep(t)
      BY <1>5 DEF LogAs
    <2> HIDE DEF n
    <2> QED BY <2>3, <2>4, AnswerKeeps
  <1>6. CASE LogAsNobody(t) /\ ~Redirect(t)
    <2> DEFINE n == [s EXCEPT !.user = Real(s), !.real = Nobody]
    <2>1. s.user # Nobody
      BY <1>6 DEF LogAsNobody, In
    <2>2. Real(s) \in s.signed /\ Real(s) \in Accounts
      BY <1>1, <2>1 DEF Good, Session
    <2>3. n \in Session /\ Good(n) /\ n.sidebar = Nobody /\ n.next = {}
      BY <1>1, <2>2, SessionAssumption DEF Session, Good, Real
    <2>4. Respond(t, n, {}) /\ Keep(t)
      BY <1>6 DEF LogAsNobody
    <2> HIDE DEF n
    <2> QED BY <2>3, <2>4, AnswerKeeps
  <1> QED BY <1>2, <1>3, <1>4, <1>5, <1>6

LEMMA LinksKeep ==
    ASSUME SessionInv, NEW t \in Tabs,
           GetResetLink(t) \/ Refuse(t) \/ Reset(t) \/ ResetFails(t)
    PROVE  SessionInv'
  <1>1. CASE GetResetLink(t) \/ ResetFails(t)
    BY <1>1, RedirectKeeps DEF GetResetLink, ResetFails, Redirect
  <1>2. CASE Refuse(t) \/ Reset(t)
    BY <1>2, FeedbackKeeps DEF Refuse, Reset, Changes
  <1> QED BY <1>1, <1>2

LEMMA FindKeeps ==
    ASSUME SessionInv, NEW t \in Tabs, FindAccount(t)
    PROVE  SessionInv'
  <1>1. /\ account' = [account EXCEPT ![t] = IF link[t] = "last" THEN "yes" ELSE "no"]
        /\ page[t] = "reset"
        /\ UNCHANGED <<level, cookie, page, arg, session, link, late, reported, used>>
    BY DEF FindAccount, Serving
  <1>2. SessionTypeOK'
    BY <1>1 DEF SessionInv, SessionTypeOK
  <1>3. ASSUME NEW v \in Tabs PROVE Asks(v)' /\ Serves(v)' /\ Looks(v)'
    BY <1>1 DEF SessionInv, SessionTypeOK, Asks, Serves, Looks, Good, Real
  <1>4. (Good(cookie) /\ cookie.sidebar \in {Nobody, cookie.user} /\ cookie.next = {}
         /\ cookie.feedbacks = reported /\ used = FALSE)'
    BY <1>1 DEF SessionInv, Good, Real
  <1> QED BY <1>2, <1>3, <1>4 DEF SessionInv

LEMMA SessionStep == SessionInv /\ [SessionNext]_sessionVars => SessionInv'
  <1> SUFFICES ASSUME SessionInv, [SessionNext]_sessionVars PROVE SessionInv'
    OBVIOUS
  <1>1. CASE UNCHANGED <<cookie, tabVars, reported, used>> /\ level' \in [Accounts -> 0 .. MaxLevel]
    <2>1. SessionTypeOK'
      BY <1>1 DEF SessionInv, SessionTypeOK, tabVars
    <2>2. \A t \in Tabs : Asks(t)' /\ Serves(t)' /\ Looks(t)'
      BY <1>1 DEF SessionInv, tabVars, Asks, Serves, Looks, Good, Real
    <2>3. (Good(cookie) /\ cookie.sidebar \in {Nobody, cookie.user} /\ cookie.next = {}
           /\ cookie.feedbacks = reported /\ used = FALSE)'
      BY <1>1 DEF SessionInv, Good, Real
    <2> QED BY <2>1, <2>2, <2>3 DEF SessionInv
  <1>2. ASSUME NEW u \in Accounts, NEW l \in 0 .. MaxLevel, SetLevel(u, l) PROVE SessionInv'
    BY <1>1, <1>2 DEF SetLevel, SessionInv, SessionTypeOK
  <1>3. ASSUME NEW t \in Tabs, Ask(t) \/ Serve(t) PROVE SessionInv'
    BY <1>3, BeginKeeps, SigningKeeps, PagesKeep, LinksKeep, FindKeeps DEF Serve
  <1> QED BY <1>1, <1>2, <1>3 DEF SessionNext, sessionVars, SessionInv, SessionTypeOK

LEMMA SessionInvHolds == SessionSpec => []SessionInv
  BY SessionInvInit, SessionStep, PTL DEF SessionSpec

\* Type correctness of sessions (app.py, feedbacks.py, local_login.py).
THEOREM SessionTypeCorrect == SessionSpec => []SessionTypeOK
  <1>1. SessionInv => SessionTypeOK
    BY DEF SessionInv
  <1> QED BY <1>1, SessionInvHolds, PTL

\* However requests overlap and whoever is logged as whom (LogAs in pages/utils.py), a cookie
\* is that of an account that signed in with it.
THEOREM SessionOfWhoSignedIn == SessionSpec => []SessionIsOfWhoSignedIn
  <1>1. SessionInv => SessionIsOfWhoSignedIn
    BY DEF SessionInv, SessionIsOfWhoSignedIn, Good
  <1> QED BY <1>1, SessionInvHolds, PTL

\* A request finds the messages of the one answered before (rotate_feedbacks), whatever pages
\* they are for, unless the two overlap.
THEOREM LastFeedbacks == SessionSpec => []FeedbacksAreOfTheLastRequest
  <1>1. SessionInv => FeedbacksAreOfTheLastRequest
    BY DEF SessionInv, FeedbacksAreOfTheLastRequest, Serves
  <1> QED BY <1>1, SessionInvHolds, PTL

\* A link changes the password once (ResetPage in pages/local_login.py), unless two requests
\* that overlap have found the account with it.
THEOREM OneTimeLink == SessionSpec => LinkIsUsedOnce
  <1>1. SessionInv => \A t \in Tabs : Reset(t) => late[t] \/ (link[t] = "last" /\ ~used)
    BY DEF SessionInv, Looks, Reset, Changes
  <1>2. SessionInv /\ [SessionNext]_sessionVars
            => [\A t \in Tabs : Reset(t) => late[t] \/ (link[t] = "last" /\ ~used)]_sessionVars
    BY <1>1
  <1> QED BY <1>2, SessionInvHolds, PTL DEF SessionSpec, LinkIsUsedOnce

-----------------------------------------------------------------------------
(* The parameters of a channel. *)

OfChannel(t) == request[t].kind \in {"configure", "reset"}

\* What a request holds.
Holds(r) ==
    /\ {"kind", "level", "form", "row", "allowed", "todo"} \subseteq DOMAIN r
    /\ r = [x \in DOMAIN r |-> r[x]]
    /\ r.todo \in Seq(Params) /\ r.allowed \subseteq Params
    /\ DOMAIN r.row = Params /\ r.row = [p \in Params |-> r.row[p]]
    /\ r.kind = "reset" => \A p \in Params : r.form[p] = Unset
    /\ r.kind = "configure" => \A p \in Params : r.form[p] # Unset

Forms(t) ==
    /\ doing[t] \in {"rights", "save"} => OfChannel(t)
    /\ doing[t] = "columns" => request[t].kind = "plugin"
    /\ OfChannel(t) => Holds(request[t])

\* What it knows is so, until another one changes the rights or the parameters.
Knows(t) ==
    LET r == request[t] IN
    OfChannel(t) /\ t \notin overtaken =>
        /\ \A p \in r.allowed : AccessRights(p, r.level).write
        /\ r.kind = "reset" => \A p \in r.allowed : r.row[p] = Unset
        /\ doing[t] \in {"rights", "refused"} => config = r.row
        /\ doing[t] = "save" => \A p \in Params \ r.allowed : config[p] = r.row[p]
        /\ doing[t] = "saved" => config = IF r.kind = "reset" THEN r.row ELSE Merged(r)

ConfigInv ==
    /\ doing \in [Editors -> Rests \cup {"rights", "save", "columns"}]
    /\ DOMAIN request = Editors /\ request = [t \in Editors |-> request[t]]
    /\ DOMAIN config = Params /\ config = [p \in Params |-> config[p]]
    /\ \A t \in Editors : Forms(t) /\ Knows(t)

LEMMA ConfigInvInit == ConfigInit => ConfigInv
  BY DEF ConfigInit, ConfigInv, Rests, NoRequest, Forms, Knows, OfChannel

\* The requests of others, when one of them changes what they rely on, and when none does.
LEMMA OthersKnow ==
    ASSUME ConfigInv, NEW t \in Editors, NEW v \in Editors, v # t,
           doing'[v] = doing[v], request'[v] = request[v],
           \/ UNCHANGED <<config, rights>> /\ (v \in overtaken => v \in overtaken')
           \/ Disturbs(t)
    PROVE  Forms(v)' /\ Knows(v)'
  <1>1. Forms(v)'
    BY DEF ConfigInv, Forms, OfChannel
  <1>2. v \in overtaken' \/ (UNCHANGED <<config, rights>> /\ v \notin overtaken)
        \/ v \in overtaken
    BY DEF Disturbs
  <1>3. v \in overtaken => v \in overtaken'
    BY DEF Disturbs
  <1>4. CASE v \in overtaken'
    BY <1>1, <1>4 DEF Knows
  <1>5. CASE UNCHANGED <<config, rights>> /\ v \notin overtaken
    <2>1. \A p, l : AccessRights(p, l)' = AccessRights(p, l)
      BY <1>5 DEF AccessRights
    <2>2. Knows(v)
      BY DEF ConfigInv
    <2>3. Knows(v)'
      BY <1>5, <2>1, <2>2 DEF Knows, OfChannel
    <2> QED BY <1>1, <2>3
  <1> QED BY <1>1, <1>2, <1>3, <1>4, <1>5

LEMMA BeginsKeeps ==
    ASSUME ConfigInv, NEW t \in Editors, NEW to, NEW r, Begins(t, to, r),
           \/ /\ to = "rights" /\ r.kind \in {"configure", "reset"} /\ Holds(r)
              /\ r.allowed = {} /\ r.row = config
           \/ to = "columns" /\ r.kind = "plugin"
    PROVE  ConfigInv'
  <1>1. /\ doing' = [doing EXCEPT ![t] = to] /\ request' = [request EXCEPT ![t] = r]
        /\ UNCHANGED <<config, rights>> /\ overtaken' = overtaken \ {t}
    BY DEF Begins, Goes
  <1>2. doing' \in [Editors -> Rests \cup {"rights", "save", "columns"}]
    BY <1>1 DEF ConfigInv
  <1>3. DOMAIN request' = Editors /\ request' = [v \in Editors |-> request'[v]] /\ request'[t] = r
    BY <1>1 DEF ConfigInv
  <1>4. doing'[t] = to
    BY <1>1 DEF ConfigInv
  <1>5. Forms(t)' /\ Knows(t)'
    BY <1>1, <1>3, <1>4 DEF Forms, Knows, OfChannel
  <1>6. ASSUME NEW v \in Editors, v # t PROVE Forms(v)' /\ Knows(v)'
    <2>1. doing'[v] = doing[v] /\ request'[v] = request[v] /\ (v \in overtaken => v \in overtaken')
      BY <1>1, <1>6 DEF ConfigInv
    <2> QED BY <1>1, <1>6, <2>1, OthersKnow
  <1> QED BY <1>1, <1>2, <1>3, <1>5, <1>6 DEF ConfigInv

LEMMA ArrivalsKeep ==
    ASSUME ConfigInv, NEW t \in Editors,
           \/ \E l \in Requesters :
               \/ \E f \in ConfigForms : Configure(t, l, f)
               \/ ResetConfig(t, l, TRUE, Order)
               \/ \E p \in Params : ResetConfig(t, l, FALSE, <<p>>)
           \/ \E f \in RightsForms : ConfigurePlugin(t, f)
    PROVE  ConfigInv'
  <1>0. DOMAIN config = Params /\ config = [p \in Params |-> config[p]]
    BY DEF ConfigInv
  <1>1. ASSUME NEW l \in Requesters, NEW f \in ConfigForms, Configure(t, l, f) PROVE ConfigInv'
    <2> DEFINE r == [kind |-> "configure", level |-> l, form |-> f, row |-> config,
                     allowed |-> {}, todo |-> Order]
    <2>1. Holds(r) /\ r.kind = "configure" /\ r.allowed = {} /\ r.row = config
      BY <1>0, ConfigAssumption DEF Holds
    <2>2. Begins(t, "rights", r)
      BY <1>1 DEF Configure
    <2> HIDE DEF r
    <2> QED BY <2>1, <2>2, BeginsKeeps
  <1>2. ASSUME NEW l \in Requesters, NEW all, NEW params \in Seq(Params), ResetConfig(t, l, all, params)
        PROVE  ConfigInv'
    <2> DEFINE r == [kind |-> "reset", level |-> l, form |-> [p \in Params |-> Unset],
                     row |-> config, allowed |-> {}, todo |-> params, all |-> all]
    <2>1. /\ DOMAIN r = {"kind", "level", "form", "row", "allowed", "todo", "all"}
          /\ r.kind = "reset" /\ r.allowed = {} /\ r.row = config /\ r.todo = params
          /\ r.form = [p \in Params |-> Unset]
      OBVIOUS
    <2>2. r = [x \in DOMAIN r |-> r[x]]
      OBVIOUS
    <2>3. Begins(t, "rights", r)
      BY <1>2 DEF ResetConfig
    <2> HIDE DEF r
    <2>4. Holds(r)
      BY <1>0, <2>1, <2>2 DEF Holds
    <2> QED BY <2>1, <2>3, <2>4, BeginsKeeps
  <1>3. ASSUME NEW f \in RightsForms, ConfigurePlugin(t, f) PROVE ConfigInv'
    <2> DEFINE r == [kind |-> "plugin", form |-> f, todo |-> Order, at |-> 1]
    <2>1. Begins(t, "columns", r) /\ r.kind = "plugin"
      BY <1>3 DEF ConfigurePlugin
    <2> HIDE DEF r
    <2> QED BY <2>1, BeginsKeeps
  <1>4. Order \in Seq(Params) /\ \A p \in Params : <<p>> \in Seq(Params)
    BY ConfigAssumption
  <1> QED BY <1>1, <1>2, <1>3, <1>4

\* A step of t that leaves the requests of others alone.
LEMMA StepKeeps ==
    ASSUME ConfigInv, NEW t \in Editors,
           NEW to \in Rests \cup {"rights", "save", "columns"}, doing' = [doing EXCEPT ![t] = to],
           NEW r, request' = [request EXCEPT ![t] = r],
           DOMAIN config' = Params, config' = [p \in Params |-> config'[p]],
           UNCHANGED <<config, rights, overtaken>> \/ Disturbs(t),
           Forms(t)', Knows(t)'
    PROVE  ConfigInv'
  <1>1. doing' \in [Editors -> Rests \cup {"rights", "save", "columns"}]
    BY DEF ConfigInv
  <1>2. DOMAIN request' = Editors /\ request' = [v \in Editors |-> request'[v]]
    BY DEF ConfigInv
  <1>3. ASSUME NEW v \in Editors, v # t PROVE Forms(v)' /\ Knows(v)'
    <2>1. doing'[v] = doing[v] /\ request'[v] = request[v]
      BY <1>3 DEF ConfigInv
    <2> QED BY <1>3, <2>1, OthersKnow
  <1> QED BY <1>1, <1>2, <1>3 DEF ConfigInv

\* The step of t on its own request.
LEMMA OwnStep ==
    ASSUME ConfigInv, NEW t \in Editors, NEW to, doing' = [doing EXCEPT ![t] = to],
           NEW r, request' = [request EXCEPT ![t] = r]
    PROVE  doing'[t] = to /\ request'[t] = r
  BY DEF ConfigInv

\* The rest of the sequence of parameters.
LEMMA Rest ==
    ASSUME NEW s \in Seq(Params), s # <<>>
    PROVE  Head(s) \in Params /\ Tail(s) \in Seq(Params)
  OBVIOUS

\* The rights on p are read.
LEMMA RightsStep ==
    ASSUME ConfigInv, NEW t \in Editors, NEW p \in Params, NEW new, NEW to \in {"rights", "save"},
           doing[t] = "rights", doing' = [doing EXCEPT ![t] = to],
           request' = [request EXCEPT ![t] = new], UNCHANGED <<config, rights, overtaken>>,
           Holds(new), new.kind = request[t].kind, new.level = request[t].level,
           \A q \in new.allowed : q = p \/ q \in request[t].allowed,
           p \in new.allowed \ request[t].allowed => AccessRights(p, request[t].level).write,
           \/ /\ to = "rights" /\ new.row = request[t].row
              /\ new.kind = "reset" => new.allowed = request[t].allowed
           \/ /\ to = "save" /\ new.kind = "reset" /\ p \in new.allowed
              /\ new.row = [request[t].row EXCEPT ![p] = Unset]
    PROVE  ConfigInv'
  <1>1. OfChannel(t) /\ Holds(request[t]) /\ Knows(t)
    BY DEF ConfigInv, Forms
  <1>2. doing'[t] = to /\ request'[t] = new
    BY OwnStep
  <1>3. OfChannel(t)'
    BY <1>1, <1>2 DEF OfChannel
  <1>4. Forms(t)'
    BY <1>1, <1>2, <1>3 DEF Forms
  <1>5. \A q, l : AccessRights(q, l)' = AccessRights(q, l)
    BY DEF AccessRights
  <1>6. Knows(t)'
    <2> SUFFICES ASSUME t \notin overtaken PROVE Knows(t)'
      BY DEF Knows
    <2>1. /\ \A q \in request[t].allowed : AccessRights(q, request[t].level).write
          /\ request[t].kind = "reset" => \A q \in request[t].allowed : request[t].row[q] = Unset
          /\ config = request[t].row
      BY <1>1 DEF Knows
    <2>2. \A q \in new.allowed : AccessRights(q, new.level).write
      BY <2>1
    <2>3. new.kind = "reset" => \A q \in new.allowed : new.row[q] = Unset
      <3>1. CASE to = "rights"
        BY <2>1, <3>1
      <3>2. CASE to = "save"
        BY <1>1, <2>1, <3>2 DEF Holds
      <3> QED BY <3>1, <3>2
    <2>4. to = "rights" => config = new.row
      BY <2>1
    <2>5. to = "save" => \A q \in Params \ new.allowed : config[q] = new.row[q]
      BY <1>1, <2>1 DEF Holds
    <2> QED BY <1>2, <1>5, <2>2, <2>3, <2>4, <2>5 DEF Knows
  <1>7. to \in Rests \cup {"rights", "save", "columns"}
    OBVIOUS
  <1>8. DOMAIN config' = Params /\ config' = [q \in Params |-> config'[q]]
    BY DEF ConfigInv
  <1> QED BY <1>4, <1>6, <1>7, <1>8, StepKeeps

LEMMA ReadRightsKeeps ==
    ASSUME ConfigInv, NEW t \in Editors, ReadRights(t)
    PROVE  ConfigInv'
  <1> DEFINE r == request[t]
             p == Head(r.todo)
             granted == Grants(r, p)
             after == [r EXCEPT !.todo = Tail(@), !.allowed = IF granted THEN @ \cup {p} ELSE @]
             reset == [after EXCEPT !.row[p] = Unset]
  <1>1. /\ doing[t] = "rights" /\ r.todo # <<>>
        /\ doing' = [doing EXCEPT ![t] =
                IF r.kind = "reset" /\ granted THEN "save" ELSE "rights"]
        /\ request' = [request EXCEPT ![t] =
                IF r.kind = "reset" /\ granted THEN reset ELSE after]
        /\ UNCHANGED <<config, rights, overtaken>>
    BY DEF ReadRights, Goes
  <1>2. OfChannel(t) /\ Holds(r)
    BY <1>1 DEF ConfigInv, Forms
  <1>3. p \in Params /\ Tail(r.todo) \in Seq(Params)
    BY <1>1, <1>2, Rest DEF Holds
  <1>4. /\ DOMAIN after = DOMAIN r /\ after = [x \in DOMAIN after |-> after[x]]
        /\ after.todo = Tail(r.todo) /\ after.kind = r.kind /\ after.level = r.level
        /\ after.form = r.form /\ after.row = r.row
        /\ after.allowed = IF granted THEN r.allowed \cup {p} ELSE r.allowed
    BY <1>2 DEF Holds
  <1> HIDE DEF after
  <1>5. /\ DOMAIN reset = DOMAIN r /\ reset = [x \in DOMAIN reset |-> reset[x]]
        /\ reset.todo = Tail(r.todo) /\ reset.kind = r.kind /\ reset.level = r.level
        /\ reset.form = r.form /\ reset.allowed = after.allowed
        /\ reset.row = [r.row EXCEPT ![p] = Unset]
    BY <1>2, <1>4 DEF Holds
  <1>6. granted => AccessRights(p, r.level).write
    BY DEF Grants
  <1> HIDE DEF reset, granted, p
  <1>7. Holds(after)
    <2>1. after.allowed \subseteq Params
      BY <1>2, <1>3, <1>4 DEF Holds
    <2> QED BY <1>2, <1>3, <1>4, <2>1 DEF Holds
  <1>8. Holds(reset)
    <2>1. /\ DOMAIN reset.row = Params
          /\ reset.row = [q \in Params |-> reset.row[q]]
      BY <1>2, <1>5 DEF Holds
    <2> QED BY <1>2, <1>4, <1>5, <1>7, <2>1 DEF Holds
  <1>9. CASE r.kind = "reset" /\ granted
    <2>1. doing' = [doing EXCEPT ![t] = "save"] /\ request' = [request EXCEPT ![t] = reset]
      BY <1>1, <1>9
    <2>2. /\ \A q \in reset.allowed : q = p \/ q \in r.allowed
          /\ p \in reset.allowed
      BY <1>4, <1>5, <1>9
    <2>3. p \in reset.allowed \ r.allowed => AccessRights(p, r.level).write
      BY <1>6, <1>9
    <2>4. "save" \in {"rights", "save"} /\ reset.kind = "reset"
      BY <1>5, <1>9
    <2> QED BY <1>1, <1>3, <1>5, <1>8, <2>1, <2>2, <2>3, <2>4, RightsStep
  <1>10. CASE ~(r.kind = "reset" /\ granted)
    <2>1. doing' = [doing EXCEPT ![t] = "rights"] /\ request' = [request EXCEPT ![t] = after]
      BY <1>1, <1>10
    <2>2. /\ \A q \in after.allowed : q = p \/ q \in r.allowed
          /\ after.kind = "reset" => after.allowed = r.allowed
          /\ p \in after.allowed \ r.allowed => granted
      BY <1>4, <1>10
    <2> QED BY <1>1, <1>3, <1>4, <1>6, <1>7, <2>1, <2>2, RightsStep
  <1> QED BY <1>9, <1>10

LEMMA RightsReadKeeps ==
    ASSUME ConfigInv, NEW t \in Editors, RightsRead(t)
    PROVE  ConfigInv'
  <1> DEFINE r == request[t]
  <1>1. OfChannel(t) /\ Holds(r) /\ Knows(t) /\ doing[t] = "rights"
    BY DEF RightsRead, ConfigInv, Forms
  <1>2. request' = [request EXCEPT ![t] = r] /\ UNCHANGED <<config, rights, overtaken>>
    BY DEF RightsRead, ConfigInv
  <1>3. PICK to \in {"saved", "refused", "save"} :
            /\ doing' = [doing EXCEPT ![t] = to]
            /\ to = "saved" => r.kind = "reset"
    BY DEF RightsRead, Goes
  <1>4. doing'[t] = to /\ request'[t] = r
    BY <1>2, <1>3, OwnStep
  <1>5. Forms(t)'
    BY <1>1, <1>3, <1>4 DEF Forms, OfChannel
  <1>6. \A q, l : AccessRights(q, l)' = AccessRights(q, l)
    BY <1>2 DEF AccessRights
  <1>7. Knows(t)'
    BY <1>1, <1>2, <1>3, <1>4, <1>6 DEF Knows, OfChannel
  <1>8. DOMAIN config' = Params /\ config' = [q \in Params |-> config'[q]]
    BY <1>2 DEF ConfigInv
  <1>9. to \in Rests \cup {"rights", "save", "columns"}
    BY <1>3 DEF Rests
  <1> HIDE DEF r
  <1> QED BY <1>2, <1>3, <1>5, <1>7, <1>8, <1>9, StepKeeps

\* What is saved.
LEMMA SavedRow ==
    ASSUME NEW r, Holds(r), r.kind = "reset"
    PROVE  Merged(r) = r.row
  <1>1. \A p \in Params : r.form[p] \in {Ignored, Unset}
    BY DEF Holds
  <1>2. Merged(r) = [p \in Params |-> r.row[p]]
    BY <1>1 DEF Merged
  <1> QED BY <1>2 DEF Holds

LEMMA SaveKeeps ==
    ASSUME ConfigInv, NEW t \in Editors, Save(t)
    PROVE  ConfigInv'
  <1> DEFINE r == request[t]
             to == IF r.kind = "reset" THEN "rights" ELSE "saved"
  <1>1. OfChannel(t) /\ Holds(r) /\ Knows(t) /\ doing[t] = "save"
    BY DEF Save, Goes, ConfigInv, Forms
  <1>2. /\ request' = [request EXCEPT ![t] = r] /\ UNCHANGED rights /\ Disturbs(t)
        /\ doing' = [doing EXCEPT ![t] = to] /\ config' = Merged(r)
    BY DEF Save, Goes, ConfigInv
  <1>3. doing'[t] = to /\ request'[t] = r
    BY <1>2, OwnStep
  <1>4. Forms(t)'
    BY <1>1, <1>3 DEF Forms, OfChannel
  <1>5. \A q, l : AccessRights(q, l)' = AccessRights(q, l)
    BY <1>2 DEF AccessRights
  <1>6. t \in overtaken' <=> t \in overtaken
    BY <1>2 DEF Disturbs
  <1>7. r.kind = "reset" => config' = r.row
    BY <1>1, <1>2, SavedRow
  <1>8. Knows(t)'
    <2>1. \A x : Merged(x)' = Merged(x)
      BY DEF Merged, Effective
    <2> QED BY <1>1, <1>2, <1>3, <1>5, <1>6, <1>7, <2>1 DEF Knows, OfChannel
  <1>9. DOMAIN config' = Params /\ config' = [q \in Params |-> config'[q]]
    BY <1>2 DEF Merged
  <1>10. to \in Rests \cup {"rights", "save", "columns"}
    BY DEF Rests
  <1> HIDE DEF r, to
  <1> QED BY <1>2, <1>4, <1>8, <1>9, <1>10, StepKeeps

LEMMA PluginStepsKeep ==
    ASSUME ConfigInv, NEW t \in Editors, WriteColumn(t) \/ PluginConfigured(t)
    PROVE  ConfigInv'
  <1>1. doing[t] = "columns" /\ request[t].kind = "plugin" /\ UNCHANGED config
    BY ZenonT(40) DEF WriteColumn, PluginConfigured, Goes, ConfigInv, Forms
  <1>2. UNCHANGED <<config, rights, overtaken>> \/ Disturbs(t)
    BY DEF WriteColumn, PluginConfigured
  <1>3. PICK to \in {"columns", "saved", "refused"} : doing' = [doing EXCEPT ![t] = to]
    <2>1. CASE WriteColumn(t)
      <3>1. doing' = [doing EXCEPT ![t] = "columns"]
        BY <1>1, <2>1 DEF WriteColumn, ConfigInv
      <3> QED BY <3>1, Zenon
    <2>2. CASE PluginConfigured(t)
      BY <2>2 DEF PluginConfigured, Goes
    <2> QED BY <2>1, <2>2
  <1>4. PICK new : request' = [request EXCEPT ![t] = new] /\ new.kind = "plugin"
    <2>1. CASE WriteColumn(t)
      <3> DEFINE r == request[t]
                 next == IF r.at < Len(Columns) THEN [r EXCEPT !.at = @ + 1]
                                                ELSE [r EXCEPT !.at = 1, !.todo = Tail(@)]
      <3>1. next.kind = r.kind
        OBVIOUS
      <3>2. request' = [request EXCEPT ![t] = next]
        BY <2>1 DEF WriteColumn
      <3> HIDE DEF next
      <3> QED BY <1>1, <3>1, <3>2
    <2>2. CASE PluginConfigured(t)
      BY <1>1, <2>2 DEF PluginConfigured, ConfigInv
    <2> QED BY <2>1, <2>2
  <1>5. doing'[t] = to /\ request'[t] = new
    BY <1>3, <1>4, OwnStep
  <1>6. Forms(t)' /\ Knows(t)'
    BY <1>3, <1>4, <1>5 DEF Forms, Knows, OfChannel
  <1>7. DOMAIN config' = Params /\ config' = [q \in Params |-> config'[q]]
    BY <1>1 DEF ConfigInv
  <1>8. to \in Rests \cup {"rights", "save", "columns"}
    BY <1>3 DEF Rests
  <1> QED BY <1>2, <1>3, <1>4, <1>6, <1>7, <1>8, StepKeeps

LEMMA ConfigStep == ConfigInv /\ [ConfigNext]_configVars => ConfigInv'
  <1> SUFFICES ASSUME ConfigInv, [ConfigNext]_configVars PROVE ConfigInv'
    OBVIOUS
  <1>1. CASE UNCHANGED configVars
    BY <1>1 DEF configVars, ConfigInv, Forms, Knows, OfChannel, Holds, AccessRights, Merged,
                Effective
  <1>2. CASE ConfigNext
    BY <1>2, ArrivalsKeep, ReadRightsKeeps, RightsReadKeeps, SaveKeeps, PluginStepsKeep
       DEF ConfigNext
  <1> QED BY <1>1, <1>2

LEMMA ConfigInvHolds == ConfigSpec => []ConfigInv
  BY ConfigInvInit, ConfigStep, PTL DEF ConfigSpec

\* A parameter is changed by a request whose user has the right to, unless another request
\* has come between (configure in pages/channels_page.py, reset-config in channel_page.py).
THEOREM WrittenByRight == ConfigSpec => ParametersAreWrittenByRight
  <1> DEFINE P == \A p \in Params : config'[p] # config[p] =>
                    \E t \in Editors :
                        /\ doing[t] = "save" /\ doing'[t] # "save"
                        /\ AccessRights(p, request[t].level).write \/ t \in overtaken
  <1>1. ConfigInv /\ [ConfigNext]_configVars => [P]_configVars
    <2> SUFFICES ASSUME ConfigInv, ConfigNext, NEW p \in Params, config'[p] # config[p]
                 PROVE  \E t \in Editors :
                        /\ doing[t] = "save" /\ doing'[t] # "save"
                        /\ AccessRights(p, request[t].level).write \/ t \in overtaken
      BY SMTT(30)
    <2>1. PICK t \in Editors : Save(t)
      BY DEF ConfigNext, Configure, ResetConfig, ConfigurePlugin, Begins, ReadRights, RightsRead,
             WriteColumn, PluginConfigured
    <2>2. doing[t] = "save" /\ OfChannel(t) /\ Holds(request[t]) /\ Knows(t)
      BY <2>1 DEF Save, Goes, ConfigInv, Forms
    <2>3. doing'[t] # "save"
      BY <2>1 DEF Save, Goes, ConfigInv
    <2>4. p \notin request[t].allowed => config'[p] = request[t].row[p]
      BY <2>1 DEF Save, Merged
    <2>5. t \notin overtaken => p \in request[t].allowed
      BY <2>2, <2>4 DEF Knows
    <2>6. t \notin overtaken => AccessRights(p, request[t].level).write
      BY <2>2, <2>5 DEF Knows
    <2> QED BY <2>2, <2>3, <2>6
  <1> QED BY <1>1, ConfigInvHolds, PTL DEF ConfigSpec, ParametersAreWrittenByRight

\* What a request has answered about the parameters is so, while no other one changes them
\* (configure in pages/channels_page.py, reset-config in channel_page.py).
THEOREM ConfigAnswered == ConfigSpec => []ConfigIsAsAnswered
  <1>1. ConfigInv => ConfigIsAsAnswered
    <2> SUFFICES ASSUME ConfigInv, NEW t \in Editors \ overtaken, OfChannel(t)
                 PROVE  /\ doing[t] = "refused" => config = request[t].row
                        /\ doing[t] = "saved" => \A p \in Params :
                            /\ p \in request[t].allowed =>
                                    AccessRights(p, request[t].level).write
                            /\ IF p \in request[t].allowed /\ request[t].form[p] # Ignored
                               THEN Effective(config, p) = Effective(request[t].form, p)
                               ELSE config[p] = request[t].row[p]
      BY DEF ConfigIsAsAnswered, OfChannel
    <2>1. Holds(request[t]) /\ Knows(t)
      BY DEF ConfigInv, Forms
    <2>2. doing[t] = "refused" => config = request[t].row
      BY <2>1 DEF Knows
    <2>3. ASSUME doing[t] = "saved", NEW p \in Params
          PROVE  /\ p \in request[t].allowed => AccessRights(p, request[t].level).write
                 /\ IF p \in request[t].allowed /\ request[t].form[p] # Ignored
                    THEN Effective(config, p) = Effective(request[t].form, p)
                    ELSE config[p] = request[t].row[p]
      <3>1. p \in request[t].allowed => AccessRights(p, request[t].level).write
        BY <2>1 DEF Knows
      <3>2. CASE request[t].kind = "reset"
        <4>1. config = request[t].row /\ request[t].form[p] = Unset
          BY <2>1, <2>3, <3>2 DEF Knows, Holds
        <4>2. p \in request[t].allowed => request[t].row[p] = Unset
          BY <2>1, <3>2 DEF Knows
        <4> QED BY <3>1, <4>1, <4>2 DEF Effective
      <3>3. CASE request[t].kind = "configure"
        <4>1. config = Merged(request[t]) /\ request[t].form[p] # Unset
          BY <2>1, <2>3, <3>3 DEF Knows, Holds
        <4> QED BY <3>1, <4>1 DEF Merged, Effective
      <3> QED BY <3>2, <3>3 DEF OfChannel
    <2> QED BY <2>2, <2>3
  <1> QED BY <1>1, ConfigInvHolds, PTL

-----------------------------------------------------------------------------
(* Users and their roles. *)


\* What the code relies on between two steps of a request.
RequestOK ==
    \A t \in Threads :
        /\ pc[t] # "idle" => actor[t] \in accounts
        /\ pc[t] = "users" => \A e \in todo[t] : e.level \in Ranks
        /\ pc[t] \in {"channel", "remove", "give"} => channel[t] \in Channels
        /\ pc[t] \in {"remove", "give"} => cur[t] \in Entry
        /\ pc[t] = "give" => cur[t].level \in Levels

TypeInv == TypeOK /\ RequestOK

\* Only one super administrator edits users, and still is one.
EditInv ==
    ~overlapped =>
        /\ \E u \in accounts : rank[u] = SuperAdministrator
        /\ \A t, v \in Threads : Editing(t) /\ Editing(v) => t = v
        /\ \A t \in Threads :
              Editing(t) /\ seen[t] = SuperAdministrator => rank[actor[t]] = SuperAdministrator

\* What a channel administrator is about to change is what the form looked at.
RoleInv ==
    ~overlapped =>
        /\ \A t, v \in Threads :
              pc[t] \in {"remove", "give"} /\ Changing(v, channel[t], cur[t].user) => t = v
        /\ \A t \in Threads :
              seen[t] = NoPermission =>
                 /\ pc[t] = "remove" => role[channel[t]][cur[t].user] = ChannelContributor
                 /\ pc[t] = "give" => /\ role[channel[t]][cur[t].user] = NoPermission
                                      /\ cur[t].level = ChannelContributor

-----------------------------------------------------------------------------
(* Levels. *)

\* The levels that the form lets through are those of a role.
LEMMA RoleLevels ==
    ASSUME NEW l \in Ranks \cup Levels, l \subseteq ChannelAdministrator
    PROVE  l \in Levels
BY DEF Ranks, Levels, NoPermission, ChannelContributor, ChannelAdministrator, Administrator,
       SuperAdministrator

\* Roles on channels make nobody an administrator.
LEMMA RolesAreNotRanks ==
    ASSUME TypeOK, NEW t \in Threads, actor[t] \in Users, seen[t] = NoPermission
    PROVE  ~IsAdministrator(t)
<1>1. "administrator" \in Administrator
  BY DEF Administrator
<1>2. \A c \in Channels : "administrator" \notin role[c][actor[t]]
  BY DEF TypeOK, Levels, NoPermission, ChannelContributor, ChannelAdministrator
<1>3. "administrator" \notin HighestPermissionLevel(actor[t], seen[t])
  BY <1>2 DEF HighestPermissionLevel, NoPermission
<1> QED
  BY <1>1, <1>3 DEF IsAdministrator

-----------------------------------------------------------------------------
(* Types. *)

LEMMA InitType == Init => TypeInv
<1> SUFFICES ASSUME Init PROVE TypeInv
  OBVIOUS
<1>1. NoPermission \in Ranks /\ NoPermission \in Levels /\ SuperAdministrator \in Ranks
  BY DEF Ranks, Levels
<1>2. TypeOK
  BY <1>1 DEF Init, TypeOK
<1>3. RequestOK
  BY DEF Init, RequestOK
<1> QED
  BY <1>2, <1>3 DEF TypeInv

LEMMA NextType == TypeInv /\ [Next]_vars => TypeInv'
<1> SUFFICES ASSUME TypeInv, [Next]_vars PROVE TypeInv'
  OBVIOUS
<1> USE DEF TypeInv
<1>1. ASSUME NEW t \in Threads, NEW u \in Users, NEW e \in Entry, OpenUsers(t, u, e)
      PROVE  TypeInv'
  BY <1>1 DEF TypeOK, RequestOK, OpenUsers, Gate, At
<1>2. ASSUME NEW t \in Threads, NEW e \in todo[t], CreateUser(t, e)
      PROVE  TypeInv'
  BY <1>2 DEF TypeOK, RequestOK, CreateUser, End, At, Ranks, Entry
<1>3. ASSUME NEW t \in Threads, NEW e \in todo[t], EditUser(t, e)
      PROVE  TypeInv'
  BY <1>3 DEF TypeOK, RequestOK, EditUser, End, At, Ranks, Entry
<1>4. ASSUME NEW t \in Threads, NEW u \in Users, NEW c \in Channels, NEW d \in Diffs,
             OpenChannel(t, u, c, d)
      PROVE  TypeInv'
  BY <1>4 DEF TypeOK, RequestOK, OpenChannel, Gate, At, Diffs
<1>5. ASSUME NEW t \in Threads, NEW e \in todo[t], DecideRemove(t, e)
      PROVE  TypeInv'
  BY <1>5 DEF TypeOK, RequestOK, DecideRemove, Decide, At, Take, requestVars
<1>6. ASSUME NEW t \in Threads, NEW e \in todo[t], DecideGive(t, e)
      PROVE  TypeInv'
  <2>1. e \in Entry
    BY DEF TypeOK
  <2>2. e.level \in Levels
    <3>1. e.level \in Ranks \cup Levels
      BY <2>1 DEF Entry
    <3>2. e.level = ChannelContributor \/ e.level \subseteq ChannelAdministrator
      BY <1>6 DEF DecideGive, Gives
    <3> QED
      BY <3>1, <3>2, RoleLevels DEF Levels
  <2> QED
    BY <1>6, <2>1, <2>2 DEF TypeOK, RequestOK, DecideGive, Decide, At, Take, requestVars
<1>7. ASSUME NEW t \in Threads, NEW e \in todo[t], Ignore(t, e)
      PROVE  TypeInv'
  BY <1>7 DEF TypeOK, RequestOK, Ignore, Take, requestVars
<1>8. ASSUME NEW t \in Threads, SelectRole(t) PROVE TypeInv'
  BY <1>8 DEF TypeOK, RequestOK, SelectRole, requestVars
<1>9. ASSUME NEW t \in Threads, RemoveRole(t) PROVE TypeInv'
  <2>1. channel[t] \in Channels /\ cur[t] \in Entry /\ NoPermission \in Levels
    BY <1>9 DEF RequestOK, RemoveRole, Levels
  <2>2. role' \in [Channels -> [Users -> Levels]]
    <3>1. CASE role' = role
      BY <3>1 DEF TypeOK
    <3>2. CASE SetRole(t, NoPermission)
      BY <2>1, <3>2 DEF TypeOK, SetRole, Entry
    <3> QED
      BY <1>9, <3>1, <3>2 DEF RemoveRole
  <2> QED
    BY <1>9, <2>2 DEF TypeOK, RequestOK, RemoveRole, Done, requestVars
<1>10. ASSUME NEW t \in Threads, UpdateRole(t) PROVE TypeInv'
  <2>1. channel[t] \in Channels /\ cur[t] \in Entry /\ cur[t].level \in Levels
    BY <1>10 DEF RequestOK, UpdateRole
  <2>2. role' \in [Channels -> [Users -> Levels]]
    BY <1>10, <2>1, SMTT(30) DEF TypeOK, UpdateRole, SetRole, Entry
  <2> QED
    BY <1>10, <2>2 DEF TypeOK, RequestOK, UpdateRole, Done, requestVars
<1>11. ASSUME NEW t \in Threads, InsertRole(t) PROVE TypeInv'
  <2>1. channel[t] \in Channels /\ cur[t] \in Entry /\ cur[t].level \in Levels
    BY <1>11 DEF RequestOK, InsertRole
  <2>2. role' \in [Channels -> [Users -> Levels]]
    BY <1>11, <2>1 DEF TypeOK, InsertRole, SetRole, Entry
  <2> QED
    BY <1>11, <2>2 DEF TypeOK, RequestOK, InsertRole, Done, requestVars
<1>12. ASSUME NEW t \in Threads, InsertFails(t) PROVE TypeInv'
  BY <1>12 DEF TypeOK, RequestOK, InsertFails, End, At, Ranks
<1>13. ASSUME NEW t \in Threads, Answer(t) PROVE TypeInv'
  BY <1>13 DEF TypeOK, RequestOK, Answer, End, At, Ranks
<1>14. CASE UNCHANGED vars
  BY <1>14 DEF TypeOK, RequestOK, vars, requestVars
<1> QED
  BY <1>1, <1>2, <1>3, <1>4, <1>5, <1>6, <1>7, <1>8, <1>9, <1>10, <1>11, <1>12, <1>13, <1>14
  DEF Next

\* Every variable keeps its type; in particular, no role is ever that of an administrator
\* of the whole system, whatever levels the forms hold.
THEOREM TypeCorrect == Spec => []TypeOK
<1>1. Spec => []TypeInv
  BY InitType, NextType, PTL DEF Spec
<1> QED
  BY <1>1, PTL DEF TypeInv

-----------------------------------------------------------------------------
(* The administrators. *)

LEMMA NextEdit == TypeInv /\ EditInv /\ [Next]_vars => EditInv'
<1> SUFFICES ASSUME TypeInv, EditInv, [Next]_vars, ~overlapped'
             PROVE  EditInv'
  BY DEF EditInv
<1>0. ~overlapped
  BY ZenonT(40) DEF Next, vars, OpenUsers, CreateUser, EditUser, OpenChannel, DecideRemove, DecideGive,
         Decide, Ignore, SelectRole, RemoveRole, UpdateRole, InsertRole, InsertFails, Answer
<1> USE DEF TypeInv
<1>1. ASSUME NEW t \in Threads, NEW u \in Users, NEW e \in Entry, OpenUsers(t, u, e)
      PROVE  EditInv'
  <2>1. \A v \in Threads : Editing(v)' => v = t \/ Editing(v)
    BY <1>1 DEF OpenUsers, At, TypeOK, Editing
  <2>2. e.action = "edit" => \A v \in Threads : Editing(v)' => v = t
    BY <1>1, <2>1 DEF OpenUsers
  <2>3. e.action # "edit" => ~Editing(t)'
    BY <1>1 DEF OpenUsers, Editing, TypeOK
  <2>4. seen'[t] = rank'[actor'[t]] /\ rank' = rank /\ accounts' = accounts
    BY <1>1 DEF OpenUsers, Gate, TypeOK
  <2>5. \A v \in Threads \ {t} : seen'[v] = seen[v] /\ actor'[v] = actor[v]
    BY <1>1 DEF OpenUsers, Gate, TypeOK
  <2> QED
    BY <1>0, <2>1, <2>2, <2>3, <2>4, <2>5 DEF EditInv
<1>2. ASSUME NEW t \in Threads, NEW e \in todo[t], CreateUser(t, e)
      PROVE  EditInv'
  <2>1. \A v \in Threads : Editing(v)' =>
            Editing(v) /\ v # t /\ seen'[v] = seen[v] /\ actor'[v] = actor[v]
    BY <1>2 DEF CreateUser, End, At, TypeOK, Editing
  <2>2. \A u \in accounts : rank'[u] = rank[u]
    BY <1>2 DEF CreateUser, TypeOK
  <2>3. \A v \in Threads : Editing(v) => actor[v] \in accounts
    BY DEF RequestOK, Editing
  <2>4. accounts \subseteq accounts'
    BY <1>2 DEF CreateUser
  <2> QED
    BY <1>0, <2>1, <2>2, <2>3, <2>4 DEF EditInv
<1>3. ASSUME NEW t \in Threads, NEW e \in todo[t], EditUser(t, e)
      PROVE  EditInv'
  <2>1. \A v \in Threads : Editing(v)' => Editing(v) /\ v # t
    BY <1>3 DEF EditUser, End, At, TypeOK, Editing
  <2>2. Editing(t)
    BY <1>3 DEF EditUser, End, At, Editing
  <2>3. \A v \in Threads : ~Editing(v)'
    BY <1>0, <2>1, <2>2 DEF EditInv
  <2>4. \E u \in accounts : rank'[u] = SuperAdministrator
    <3>1. CASE rank' = rank
      BY <1>0, <3>1 DEF EditInv
    <3>2. CASE rank' # rank
      <4>1. seen[t] = SuperAdministrator /\ e.user # actor[t]
        BY <1>3, <3>2 DEF EditUser
      <4>2. actor[t] \in accounts /\ rank[actor[t]] = SuperAdministrator
        BY <1>0, <2>2, <4>1 DEF EditInv, RequestOK, Editing
      <4>3. rank'[actor[t]] = rank[actor[t]]
        BY <1>3, <4>1, <4>2 DEF EditUser, TypeOK
      <4> QED
        BY <4>2, <4>3
    <3> QED
      BY <3>1, <3>2
  <2>5. accounts' = accounts
    BY <1>3 DEF EditUser
  <2> QED
    BY <2>3, <2>4, <2>5 DEF EditInv
<1>4. ASSUME NEW t \in Threads,
             /\ accounts' = accounts /\ rank' = rank
             /\ pc[t] # "users" /\ pc'[t] # "users"
             /\ \A v \in Threads \ {t} : /\ pc'[v] = pc[v] /\ todo'[v] = todo[v]
                                         /\ seen'[v] = seen[v] /\ actor'[v] = actor[v]
      PROVE  EditInv'
  <2>1. \A v \in Threads : Editing(v)' =>
            Editing(v) /\ seen'[v] = seen[v] /\ actor'[v] = actor[v]
    BY <1>4 DEF Editing
  <2> QED
    BY <1>0, <1>4, <2>1 DEF EditInv
<1>5. ASSUME NEW t \in Threads, NEW u \in Users, NEW c \in Channels, NEW d \in Diffs,
             OpenChannel(t, u, c, d)
      PROVE  EditInv'
  BY <1>4, <1>5 DEF OpenChannel, Gate, At, TypeOK
<1>6. ASSUME NEW t \in Threads, NEW e \in todo[t], DecideRemove(t, e) \/ DecideGive(t, e)
      PROVE  EditInv'
  BY <1>4, <1>6 DEF DecideRemove, DecideGive, Decide, At, Take, requestVars, TypeOK
<1>7. ASSUME NEW t \in Threads, NEW e \in todo[t], Ignore(t, e)
      PROVE  EditInv'
  BY <1>4, <1>7 DEF Ignore, Take, requestVars, TypeOK
<1>8. ASSUME NEW t \in Threads, SelectRole(t) PROVE EditInv'
  BY <1>4, <1>8 DEF SelectRole, requestVars, TypeOK
<1>9. ASSUME NEW t \in Threads, RemoveRole(t) \/ UpdateRole(t) \/ InsertRole(t)
      PROVE  EditInv'
  BY <1>4, <1>9 DEF RemoveRole, UpdateRole, InsertRole, Done, requestVars, TypeOK
<1>10. ASSUME NEW t \in Threads, InsertFails(t) \/ Answer(t) PROVE EditInv'
  BY <1>4, <1>10 DEF InsertFails, Answer, End, At, TypeOK
<1>11. CASE UNCHANGED vars
  BY <1>0, <1>11 DEF EditInv, Editing, vars, requestVars
<1> QED
  BY <1>1, <1>2, <1>3, <1>5, <1>6, <1>7, <1>8, <1>9, <1>10, <1>11 DEF Next

\* As long as no two edits of users are under way together, there is a super administrator.
THEOREM SuperRemains == Spec => []SuperAdministratorRemains
<1>1. Init => EditInv
  BY DEF Init, EditInv, Editing
<1>2. Spec => [](TypeInv /\ EditInv)
  BY <1>1, InitType, NextType, NextEdit, PTL DEF Spec
<1>3. EditInv => SuperAdministratorRemains
  BY DEF EditInv, SuperAdministratorRemains
<1> QED
  BY <1>2, <1>3, PTL

-----------------------------------------------------------------------------
(* The administrators of channels. *)

LEMMA NextRole == TypeInv /\ RoleInv /\ [Next]_vars => RoleInv'
<1> SUFFICES ASSUME TypeInv, RoleInv, [Next]_vars, ~overlapped'
             PROVE  RoleInv'
  BY DEF RoleInv
<1>0. ~overlapped
  BY ZenonT(40) DEF Next, vars, OpenUsers, CreateUser, EditUser, OpenChannel, DecideRemove, DecideGive,
         Decide, Ignore, SelectRole, RemoveRole, UpdateRole, InsertRole, InsertFails, Answer
<1> USE DEF TypeInv
<1>1. ASSUME role' = role,
             \A v \in Threads : pc'[v] \in {"remove", "give"} =>
                 /\ pc'[v] = pc[v] /\ channel'[v] = channel[v]
                 /\ cur'[v] = cur[v] /\ seen'[v] = seen[v]
      PROVE  RoleInv'
  BY <1>0, <1>1 DEF RoleInv, Changing
<1>2. ASSUME NEW t \in Threads,
             pc[t] \in {"remove", "give"}, pc'[t] \notin {"remove", "give"},
             \A v \in Threads \ {t} : /\ pc'[v] = pc[v] /\ channel'[v] = channel[v]
                                      /\ cur'[v] = cur[v] /\ seen'[v] = seen[v],
             \A c \in Channels, u \in Users :
                 role'[c][u] # role[c][u] => c = channel[t] /\ u = cur[t].user
      PROVE  RoleInv'
  <2>1. ASSUME NEW v \in Threads, pc'[v] \in {"remove", "give"}
        PROVE  /\ v # t /\ channel[v] \in Channels /\ cur[v].user \in Users
               /\ role'[channel[v]][cur[v].user] = role[channel[v]][cur[v].user]
    <3>1. v # t /\ pc[v] \in {"remove", "give"}
      BY <1>2, <2>1
    <3>2. channel[v] \in Channels /\ cur[v].user \in Users
      BY <3>1 DEF RequestOK, Entry
    <3>3. ~Changing(v, channel[t], cur[t].user)
      BY <1>0, <1>2, <3>1 DEF RoleInv
    <3>4. ~(channel[v] = channel[t] /\ cur[v].user = cur[t].user)
      BY <3>1, <3>3 DEF Changing
    <3> QED
      BY <1>2, <3>1, <3>2, <3>4
  <2> QED
    BY <1>0, <1>2, <2>1 DEF RoleInv, Changing
<1>3. ASSUME NEW t \in Threads, NEW e \in todo[t], NEW what \in {"remove", "give"},
             Decide(t, e, what),
             seen[t] = NoPermission =>
                 IF what = "remove" THEN role[channel[t]][e.user] = ChannelContributor
                 ELSE role[channel[t]][e.user] = NoPermission /\ e.level = ChannelContributor
      PROVE  RoleInv'
  <2>1. /\ pc'[t] = what /\ cur'[t] = e
        /\ \A v \in Threads \ {t} : pc'[v] = pc[v] /\ cur'[v] = cur[v]
        /\ channel' = channel /\ seen' = seen /\ role' = role
    BY <1>3 DEF Decide, At, TypeOK, requestVars
  <2>2. \A v \in Threads \ {t} : ~Changing(v, channel[t], e.user)
    BY <1>3 DEF Decide
  <2>3. \A v \in Threads \ {t} : ~Changing(v, channel[t], e.user)'
    BY <2>1, <2>2 DEF Changing
  <2>4. \A v, w \in Threads :
            pc'[v] \in {"remove", "give"} /\ Changing(w, channel[v], cur[v].user)' => v = w
    <3> SUFFICES ASSUME NEW v \in Threads, NEW w \in Threads, v # w,
                        pc'[v] \in {"remove", "give"}, Changing(w, channel[v], cur[v].user)'
                 PROVE  FALSE
      OBVIOUS
    <3>1. CASE v = t
      BY <2>1, <2>3, <3>1 DEF Changing
    <3>2. CASE w = t
      BY <2>1, <2>3, <3>2 DEF Changing
    <3>3. CASE v # t /\ w # t
      BY <1>0, <2>1, <3>3 DEF RoleInv, Changing
    <3> QED
      BY <3>1, <3>2, <3>3
  <2>5. \A v \in Threads : seen'[v] = NoPermission =>
            /\ pc'[v] = "remove" => role'[channel'[v]][cur'[v].user] = ChannelContributor
            /\ pc'[v] = "give" => /\ role'[channel'[v]][cur'[v].user] = NoPermission
                                  /\ cur'[v].level = ChannelContributor
    <3> SUFFICES ASSUME NEW v \in Threads, seen'[v] = NoPermission
                 PROVE  /\ pc'[v] = "remove" =>
                              role'[channel'[v]][cur'[v].user] = ChannelContributor
                        /\ pc'[v] = "give" => /\ role'[channel'[v]][cur'[v].user] = NoPermission
                                              /\ cur'[v].level = ChannelContributor
      OBVIOUS
    <3>1. CASE v = t
      BY <1>3, <2>1, <3>1
    <3>2. CASE v # t
      BY <1>0, <2>1, <3>2 DEF RoleInv
    <3> QED
      BY <3>1, <3>2
  <2> QED
    BY <2>4, <2>5 DEF RoleInv
<1>4. ASSUME NEW t \in Threads, pc[t] = "channel" PROVE actor[t] \in Users
  BY <1>4 DEF RequestOK, TypeOK
<1>5. ASSUME NEW t \in Threads, NEW u \in Users, NEW e \in Entry, OpenUsers(t, u, e)
      PROVE  RoleInv'
  BY <1>1, <1>5 DEF OpenUsers, Gate, At, TypeOK
<1>6. ASSUME NEW t \in Threads, NEW e \in todo[t], CreateUser(t, e) \/ EditUser(t, e)
      PROVE  RoleInv'
  BY <1>1, <1>6 DEF CreateUser, EditUser, End, At, TypeOK
<1>7. ASSUME NEW t \in Threads, NEW u \in Users, NEW c \in Channels, NEW d \in Diffs,
             OpenChannel(t, u, c, d)
      PROVE  RoleInv'
  BY <1>1, <1>7 DEF OpenChannel, Gate, At, TypeOK
<1>8. ASSUME NEW t \in Threads, NEW e \in todo[t], DecideRemove(t, e)
      PROVE  RoleInv'
  <2>1. seen[t] = NoPermission => role[channel[t]][e.user] = ChannelContributor
    BY <1>4, <1>8, RolesAreNotRanks DEF DecideRemove, Removes, OldLevel
  <2> QED
    BY <1>3, <1>8, <2>1 DEF DecideRemove
<1>9. ASSUME NEW t \in Threads, NEW e \in todo[t], DecideGive(t, e)
      PROVE  RoleInv'
  <2>1. seen[t] = NoPermission =>
            role[channel[t]][e.user] = NoPermission /\ e.level = ChannelContributor
    BY <1>4, <1>9, RolesAreNotRanks DEF DecideGive, Gives, OldLevel
  <2> QED
    BY <1>3, <1>9, <2>1 DEF DecideGive
<1>10. ASSUME NEW t \in Threads, NEW e \in todo[t], Ignore(t, e)
       PROVE  RoleInv'
  BY <1>1, <1>10 DEF Ignore, requestVars
<1>11. ASSUME NEW t \in Threads, SelectRole(t) PROVE RoleInv'
  BY <1>1, <1>11 DEF SelectRole, requestVars
<1>12. ASSUME NEW t \in Threads, RemoveRole(t) \/ UpdateRole(t) \/ InsertRole(t)
       PROVE  RoleInv'
  <2>1. /\ pc[t] \in {"remove", "give"} /\ pc'[t] \notin {"remove", "give"}
        /\ \A v \in Threads \ {t} : pc'[v] = pc[v] /\ cur'[v] = cur[v]
        /\ channel' = channel /\ seen' = seen
    BY <1>12 DEF RemoveRole, UpdateRole, InsertRole, Done, requestVars, TypeOK
  <2>2. role' = role \/ \E l \in {NoPermission, cur[t].level} : SetRole(t, l)
    BY <1>12 DEF RemoveRole, UpdateRole, InsertRole
  <2>3. \A c \in Channels, u \in Users :
            role'[c][u] # role[c][u] => c = channel[t] /\ u = cur[t].user
    BY <2>2 DEF SetRole, TypeOK
  <2> QED
    BY <1>2, <2>1, <2>3
<1>13. ASSUME NEW t \in Threads, InsertFails(t) \/ Answer(t) PROVE RoleInv'
  BY <1>1, <1>13 DEF InsertFails, Answer, End, At, TypeOK
<1>14. CASE UNCHANGED vars
  BY <1>1, <1>14 DEF vars, requestVars
<1> QED
  BY <1>5, <1>6, <1>7, <1>8, <1>9, <1>10, <1>11, <1>12, <1>13, <1>14 DEF Next

\* A role that changes is then that of a contributor, or an administrator changes it.
LEMMA RoleStep ==
    ASSUME TypeInv, RoleInv, [Next]_vars, NEW c \in Channels, NEW u \in Users,
           role'[c][u] # role[c][u], ~overlapped
    PROVE  \/ {role[c][u], role'[c][u]} = {NoPermission, ChannelContributor}
           \/ \E t \in Threads :
                 /\ seen[t] # NoPermission
                 /\ channel[t] = c /\ cur[t] # None /\ cur'[t] = None
                 /\ cur[t].user = u
<1>1. PICK t \in Threads : RemoveRole(t) \/ UpdateRole(t) \/ InsertRole(t)
  BY DEF Next, vars, OpenUsers, CreateUser, EditUser, OpenChannel, DecideRemove, DecideGive,
         Decide, Ignore, SelectRole, InsertFails, Answer
<1>2. PICK l : /\ SetRole(t, l)
               /\ pc[t] = "remove" => l = NoPermission
               /\ pc[t] = "give" => l = cur[t].level
  BY <1>1 DEF RemoveRole, UpdateRole, InsertRole
<1>3. pc[t] \in {"remove", "give"} /\ cur'[t] = None
  BY <1>1 DEF RemoveRole, UpdateRole, InsertRole, Done, TypeInv, TypeOK
<1>4. c = channel[t] /\ u = cur[t].user /\ role'[c][u] = l
  BY <1>2 DEF SetRole, TypeInv, TypeOK
<1>5. cur[t] # None
  BY <1>3, RightsAssumption DEF TypeInv, RequestOK
<1>6. CASE seen[t] # NoPermission
  BY <1>3, <1>4, <1>5, <1>6
<1>7. CASE seen[t] = NoPermission
  BY <1>2, <1>3, <1>4, <1>7 DEF RoleInv
<1> QED
  BY <1>6, <1>7

\* Channel administrators are made and unmade by administrators only, unless two changes of
\* the same role were under way together.
THEOREM AdministratorsKept == Spec => AdministratorsAreKept
<1>1. Init => RoleInv
  BY DEF Init, RoleInv, Changing
<1>2. Spec => [](TypeInv /\ RoleInv)
  BY <1>1, InitType, NextType, NextRole, PTL DEF Spec
<1>3. TypeInv /\ RoleInv /\ [Next]_vars =>
        [\A c \in Channels, u \in Users :
            role'[c][u] # role[c][u] =>
                \/ overlapped
                \/ {role[c][u], role'[c][u]} = {NoPermission, ChannelContributor}
                \/ \E t \in Threads :
                       /\ seen[t] # NoPermission
                       /\ channel[t] = c /\ cur[t] # None /\ cur'[t] = None
                       /\ cur[t].user = u]_vars
  BY RoleStep
<1> QED
  BY <1>2, <1>3, PTL DEF Spec, AdministratorsAreKept
=============================================================================
