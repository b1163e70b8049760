------------------------- MODULE SubscriptionsProofs -------------------------
(***************************************************************************)
(* Proofs about Subscriptions: type correctness, that a subscription has a *)
(* screen and a channel, that whoever subscribes a screen has the right    *)
(* to, that what a request answers is true, and that a user is twice an    *)
(* owner of a screen only if two requests were in each other's way.        *)
(***************************************************************************)
EXTENDS Subscriptions, TLAPS

Pages == DOMAIN Target

\* What the forms hold.
LEMMA FormFacts ==
    ASSUME NEW f \in Forms
    PROVE  /\ f \in Form /\ f # None /\ f.page \in Pages /\ f.user \in Users
           /\ f.target \in Target[f.page]
           /\ f.diff \subseteq Entry /\ (f.diff = {} <=> Keys[f.page] = {})
           /\ \A e \in f.diff : e \in Entry /\ e # None /\ e.key \in Keys[f.page]
  BY SubscriptionsAssumption DEF Form, ADiff, Pages

\* An entry of a form of subscriptions is about a screen and a channel.
LEMMA PairFacts ==
    ASSUME NEW f \in Forms, IsSubscription(f), NEW e \in f.diff
    PROVE  ScreenOf(f, e) \in Screens /\ ChannelOf(f, e) \in Channels
  BY FormFacts DEF IsSubscription, ScreenOf, ChannelOf, Target, Keys

Steps == {"idle", "check", "select", "write", "delete", "destroy", "ok", "refused", "error"}

\* What the variables hold, rows apart.
Types ==
    /\ screens \subseteq Screens /\ channels \subseteq Channels
    /\ sub \in [Screens \X Channels -> Users \cup {None}]
    /\ owner \in [Screens -> [Users -> Nat]]
    /\ authorized \in [Channels -> SUBSET Users]
    /\ public \subseteq Channels /\ active \subseteq Channels \ Bundles
    /\ pc \in [Threads -> Steps]
    /\ form \in [Threads -> Forms \cup {None}]
    /\ todo \in [Threads -> SUBSET Entry] /\ cur \in [Threads -> Entry \cup {None}]
    /\ found \in [Threads -> {"unread", "none", "row", "gone"}]
    /\ applied \in [Threads -> BOOLEAN] /\ disturbed \in [Threads -> BOOLEAN]

\* A request has a form while it is under way, and treats entries of it.
Underway(t) ==
    /\ pc[t] # "idle" => form[t] \in Forms
    /\ todo[t] # {} => form[t] \in Forms /\ todo[t] \subseteq form[t].diff
    /\ cur[t] # None => form[t] \in Forms /\ cur[t] \in form[t].diff /\ pc[t] \in {"select", "write"}
    /\ pc[t] = "write" => cur[t] # None
    /\ pc[t] = "select" /\ form[t].page # "screen" => cur[t] # None
    /\ found[t] # "unread" => pc[t] = "write"
    /\ pc[t] \in {"idle", "delete", "destroy", "ok"} => todo[t] = {}
    /\ pc[t] = "destroy" => form[t].page = "delete_channel"

Basics == Types /\ \A t \in Threads : Underway(t)

LEMMA InitBasics == Init => Basics
  BY SubscriptionsAssumption DEF Init, Basics, Types, Underway, Steps

\* Whatever else it changes, a step that leaves the request of t alone keeps it under way.
LEMMA Untouched ==
    ASSUME NEW t \in Threads, Underway(t),
           pc'[t] = pc[t], form'[t] = form[t], todo'[t] = todo[t], cur'[t] = cur[t],
           found'[t] = found[t] \/ (found[t] = "row" /\ found'[t] = "gone")
    PROVE  Underway(t)'
  BY DEF Underway

LEMMA OpenBasics ==
    ASSUME Basics, NEW t \in Threads, NEW f \in Forms, Open(t, f)
    PROVE  Basics'
  <1>1. f.diff \in SUBSET Entry /\ f # None
    BY FormFacts
  <1>2. Types'
    BY <1>1 DEF Basics, Types, Open, At, Steps, tables
  <1>3. Underway(t)'
    BY <1>1, FormFacts DEF Basics, Types, Open, At, Underway, Steps
  <1>4. ASSUME NEW v \in Threads, v # t PROVE Underway(v)'
    BY <1>4, Untouched DEF Basics, Types, Open, At
  <1> QED BY <1>2, <1>3, <1>4 DEF Basics

LEMMA CheckBasics ==
    ASSUME Basics, NEW t \in Threads, NEW e \in todo[t], Check(t, e)
    PROVE  Basics'
  <1>1. form[t] \in Forms /\ e \in form[t].diff /\ e \in Entry /\ form[t].diff \in SUBSET Entry
        /\ todo[t] \subseteq form[t].diff /\ e # None
    BY FormFacts DEF Basics, Underway
  <1>2. Types'
    <2>1. Refusal(form[t], e) \in Steps
      BY DEF Refusal, Steps
    <2>2. \E step \in Steps : pc' = [pc EXCEPT ![t] = step]
      BY <2>1 DEF Check, Answer, Steps
    <2>3. cur' \in [Threads -> Entry \cup {None}]
      BY <1>1 DEF Basics, Types, Check, Answer
    <2>4. todo' \in [Threads -> SUBSET Entry]
      <3>1. todo[t] \ {e} \in SUBSET Entry /\ todo \in [Threads -> SUBSET Entry]
        BY DEF Basics, Types
      <3>2. \E S \in SUBSET Entry : todo' = [todo EXCEPT ![t] = S]
        BY <1>1, <3>1 DEF Check
      <3> QED BY <3>1, <3>2
    <2>5. found' \in [Threads -> {"unread", "none", "row", "gone"}]
      BY DEF Basics, Types, Check, Answer
    <2>6. UNCHANGED <<tables, form, applied, disturbed>>
      BY DEF Check
    <2> QED BY <2>2, <2>3, <2>4, <2>5, <2>6 DEF Basics, Types, tables
  <1>3. Underway(t)'
    BY <1>1 DEF Basics, Types, Check, Answer, Refusal, Underway, Steps, ChecksFirst
  <1>4. ASSUME NEW v \in Threads, v # t PROVE Underway(v)'
    BY <1>4, Untouched DEF Basics, Types, Check, Answer
  <1> QED BY <1>2, <1>3, <1>4 DEF Basics

LEMMA SelectBasics ==
    ASSUME Basics, NEW t \in Threads, NEW e \in Entry, Select(t, e)
    PROVE  Basics'
  <1>1. form[t] \in Forms /\ e \in form[t].diff /\ e # None
    BY FormFacts DEF Basics, Underway, Select
  <1>2. Types'
    BY <1>1 DEF Basics, Types, Select, Steps, tables
  <1>3. Underway(t)'
    BY <1>1 DEF Basics, Types, Select, Underway
  <1>4. ASSUME NEW v \in Threads, v # t PROVE Underway(v)'
    BY <1>4, Untouched DEF Basics, Types, Select
  <1> QED BY <1>2, <1>3, <1>4 DEF Basics

\* After the write, the thread goes on or ends.
LEMMA ContinueBasics ==
    ASSUME Basics, NEW t \in Threads, pc[t] = "write", Continue(t),
           UNCHANGED <<form, todo>>, found'[t] = "unread"
    PROVE  /\ pc' \in [Threads -> Steps] /\ cur' \in [Threads -> Entry \cup {None}]
           /\ applied' \in [Threads -> BOOLEAN]
           /\ Underway(t)'
           /\ \A v \in Threads \ {t} : pc'[v] = pc[v] /\ cur'[v] = cur[v]
  BY DEF Basics, Types, Steps, Continue, Underway, ChecksFirst

LEMMA DisturbType ==
    ASSUME Types, NEW t, NEW S, Disturb(t, S)
    PROVE  disturbed' \in [Threads -> BOOLEAN]
  <1>1. \A v \in Threads :
            (disturbed[v] \/ (v # t /\ pc[v] # "idle" /\ S \subseteq Named(v))) \in BOOLEAN
    OBVIOUS
  <1> QED BY <1>1 DEF Disturb

\* The row that a request writes.
LEMMA PairType ==
    ASSUME Basics, NEW t \in Threads, cur[t] # None, IsSubscription(form[t])
    PROVE  Pair(t) \in Screens \X Channels
  BY PairFacts DEF Basics, Underway, Pair

LEMMA InsertBasics ==
    ASSUME Basics, NEW t \in Threads, InsertSubscription(t) \/ InsertFails(t)
    PROVE  Basics'
  <1>1. pc[t] = "write" /\ form[t] \in Forms /\ form[t].user \in Users
        /\ UNCHANGED <<screens, channels, public, active, form, todo, owner, authorized>>
    BY FormFacts DEF Basics, Types, Underway, InsertSubscription, InsertFails, Writes
  <1>2. /\ found' = [found EXCEPT ![t] = "unread"]
        /\ sub' \in [Screens \X Channels -> Users \cup {None}]
        /\ disturbed' \in [Threads -> BOOLEAN]
    BY <1>1, DisturbType DEF Basics, Types, InsertSubscription, InsertFails, Answer
  <1>3. /\ pc' \in [Threads -> Steps] /\ cur' \in [Threads -> Entry \cup {None}]
        /\ applied' \in [Threads -> BOOLEAN]
        /\ Underway(t)'
        /\ \A v \in Threads \ {t} : pc'[v] = pc[v] /\ cur'[v] = cur[v]
    <2>1. CASE Continue(t)
      BY <1>1, <1>2, <2>1, ContinueBasics DEF Basics, Types
    <2>2. CASE Answer(t, "error") /\ UNCHANGED applied
      BY <1>1, <1>2, <2>2 DEF Answer, Basics, Types, Steps, Underway
    <2> QED BY <2>1, <2>2 DEF InsertSubscription, InsertFails
  <1>4. \A v \in Threads : v # t => Underway(v)'
    BY <1>1, <1>2, <1>3, Untouched DEF Basics, Types
  <1>5. Types'
    BY <1>1, <1>2, <1>3 DEF Basics, Types
  <1> QED BY <1>3, <1>4, <1>5 DEF Basics

LEMMA UpdateBasics ==
    ASSUME Basics, NEW t \in Threads, UpdateSubscription(t)
    PROVE  Basics'
  <1>1. pc[t] = "write" /\ form[t] \in Forms /\ form[t].user \in Users /\ Continue(t)
        /\ UNCHANGED <<screens, channels, public, active, form, todo, owner, authorized, disturbed>>
    BY FormFacts DEF Basics, Types, Underway, UpdateSubscription, Writes
  <1>2. /\ found' = [found EXCEPT ![t] = "unread"]
        /\ sub' \in [Screens \X Channels -> Users \cup {None}]
    BY <1>1 DEF Basics, Types, UpdateSubscription
  <1>3. /\ pc' \in [Threads -> Steps] /\ cur' \in [Threads -> Entry \cup {None}]
        /\ applied' \in [Threads -> BOOLEAN]
        /\ Underway(t)'
        /\ \A v \in Threads \ {t} : pc'[v] = pc[v] /\ cur'[v] = cur[v]
    BY <1>1, <1>2, ContinueBasics DEF Basics, Types
  <1>4. \A v \in Threads : v # t => Underway(v)'
    BY <1>1, <1>2, <1>3, Untouched DEF Basics, Types
  <1>5. Types'
    BY <1>1, <1>2, <1>3 DEF Basics, Types
  <1> QED BY <1>3, <1>4, <1>5 DEF Basics

\* A row that another request has found is the same, or gone.
Finds(t) == \A v \in Threads : v # t =>
                found'[v] = found[v] \/ (found[v] = "row" /\ found'[v] = "gone")

Found == {"unread", "none", "row", "gone"}

\* What deleting rows does to the requests that have found them.
LEMMA DeleteFinds ==
    ASSUME Basics, NEW t \in Threads, DeleteSubscription(t)
    PROVE  /\ found' \in [Threads -> Found] /\ found'[t] = "unread" /\ Finds(t)
           /\ found[t] = "row" => \A v \in Threads : v # t /\ found'[v] = "row"
                /\ IsSubscription(form[v]) => Pair(v) # Pair(t)
  <1>1. CASE found[t] = "row"
    BY <1>1 DEF Basics, Types, DeleteSubscription, Forget, Finds, Found, Pair
  <1>2. CASE found[t] # "row"
    BY <1>2 DEF Basics, Types, DeleteSubscription, Finds, Found
  <1> QED BY <1>1, <1>2

LEMMA CascadeFinds ==
    ASSUME Basics, NEW t \in Threads, NEW object, Cascade(t, object)
    PROVE  /\ found' \in [Threads -> Found] /\ found'[t] = "unread" /\ Finds(t)
           /\ \A v \in Threads : v # t /\ found'[v] = "row" /\ IsSubscription(form[v]) =>
                object \notin {Pair(v)[1], Pair(v)[2]}
  BY DEF Basics, Types, Cascade, Forget, Finds, Found, Pair

LEMMA DeleteBasics ==
    ASSUME Basics, NEW t \in Threads, DeleteSubscription(t)
    PROVE  Basics'
  <1>1. pc[t] = "write" /\ form[t] \in Forms /\ Continue(t)
        /\ UNCHANGED <<screens, channels, public, active, form, todo, owner, authorized>>
    BY DEF Basics, Types, Underway, DeleteSubscription, Writes
  <1>2. /\ sub' \in [Screens \X Channels -> Users \cup {None}]
        /\ disturbed' \in [Threads -> BOOLEAN]
    BY <1>1, DisturbType DEF Basics, Types, DeleteSubscription
  <1>3. /\ pc' \in [Threads -> Steps] /\ cur' \in [Threads -> Entry \cup {None}]
        /\ applied' \in [Threads -> BOOLEAN]
        /\ Underway(t)'
        /\ \A v \in Threads \ {t} : pc'[v] = pc[v] /\ cur'[v] = cur[v]
    BY <1>1, DeleteFinds, ContinueBasics DEF Basics, Types
  <1>4. \A v \in Threads : v # t => Underway(v)'
    BY <1>1, <1>3, DeleteFinds, Untouched DEF Basics, Types, Finds
  <1>5. Types'
    BY <1>1, <1>2, <1>3, DeleteFinds DEF Basics, Types, Found
  <1> QED BY <1>3, <1>4, <1>5 DEF Basics

LEMMA OtherWriteBasics ==
    ASSUME Basics, NEW t \in Threads, ChangeOwner(t) \/ Authorize(t)
    PROVE  Basics'
  <1>1. /\ pc[t] = "write" /\ form[t] \in Forms /\ Continue(t)
        /\ cur[t] \in form[t].diff
        /\ UNCHANGED <<screens, channels, public, active, form, todo, sub>>
    BY DEF Basics, Types, Underway, ChangeOwner, Authorize, Writes
  <1>2. form[t].page = "authorize" => cur[t].key \in Users
    BY <1>1, FormFacts DEF Keys
  <1>3. /\ owner' \in [Screens -> [Users -> Nat]]
        /\ authorized' \in [Channels -> SUBSET Users]
    <2>1. CASE Authorize(t)
      BY <1>2, <2>1 DEF Basics, Types, Authorize
    <2>2. CASE ChangeOwner(t)
      <3>1. form[t].target \in Screens /\ cur[t].key \in Users
        BY <1>1, <2>2, FormFacts DEF ChangeOwner, Target, Keys
      <3>2. owner[form[t].target][cur[t].key] \in Nat
        BY <3>1 DEF Basics, Types
      <3>3. \E n \in Nat : owner' = [owner EXCEPT ![form[t].target][cur[t].key] = n]
        <4>1. CASE ~cur[t].add
          <5>1. owner' = [owner EXCEPT ![form[t].target][cur[t].key] = 0]
            BY <2>2, <4>1 DEF ChangeOwner
          <5> WITNESS 0 \in Nat
          <5> QED BY <5>1
        <4>2. CASE cur[t].add /\ found[t] = "none" /\ form[t].target \in screens
          <5> DEFINE n == owner[form[t].target][cur[t].key]
          <5>1. owner' = [owner EXCEPT ![form[t].target][cur[t].key] = n + 1]
            BY <2>2, <4>2 DEF ChangeOwner
          <5>2. n + 1 \in Nat
            BY <3>2
          <5> WITNESS n + 1 \in Nat
          <5> QED BY <5>1
        <4>3. CASE cur[t].add /\ ~(found[t] = "none" /\ form[t].target \in screens)
          <5> DEFINE n == owner[form[t].target][cur[t].key]
          <5>1. owner' = [owner EXCEPT ![form[t].target][cur[t].key] = n]
            BY <2>2, <4>3 DEF ChangeOwner
          <5>2. n \in Nat
            BY <3>2
          <5> WITNESS n \in Nat
          <5> QED BY <5>1
        <4> QED BY <4>1, <4>2, <4>3
      <3> QED BY <2>2, <3>1, <3>3 DEF Basics, Types, ChangeOwner
    <2> QED BY <2>1, <2>2
  <1>4. found' = [found EXCEPT ![t] = "unread"] /\ disturbed' \in [Threads -> BOOLEAN]
    BY DisturbType DEF Basics, ChangeOwner, Authorize
  <1>5. /\ pc' \in [Threads -> Steps] /\ cur' \in [Threads -> Entry \cup {None}]
        /\ applied' \in [Threads -> BOOLEAN]
        /\ Underway(t)'
        /\ \A v \in Threads \ {t} : pc'[v] = pc[v] /\ cur'[v] = cur[v]
    BY <1>1, <1>4, ContinueBasics DEF Basics, Types
  <1>6. \A v \in Threads : v # t => Underway(v)'
    BY <1>1, <1>4, <1>5, Untouched DEF Basics, Types
  <1>7. Types'
    BY <1>1, <1>3, <1>4, <1>5 DEF Basics, Types
  <1> QED BY <1>5, <1>6, <1>7 DEF Basics

LEMMA CloseBasics ==
    ASSUME Basics, NEW t \in Threads, Close(t) \/ ConfirmDelete(t)
    PROVE  Basics'
  <1>1. Types'
    BY DEF Basics, Types, Close, ConfirmDelete, At, Steps, tables
  <1>2. Underway(t)'
    BY DEF Basics, Types, Close, ConfirmDelete, At, Underway, tables
  <1>3. \A v \in Threads : v # t => Underway(v)'
    BY Untouched DEF Basics, Types, Close, ConfirmDelete, At, tables
  <1> QED BY <1>1, <1>2, <1>3 DEF Basics

LEMMA DeletionBasics ==
    ASSUME Basics, NEW t \in Threads, DeleteScreen(t) \/ DeleteChannel(t)
    PROVE  Basics'
  <1>1. /\ Cascade(t, form[t].target)
        /\ pc[t] \in {"delete", "destroy"} /\ pc' = [pc EXCEPT ![t] = "ok"]
        /\ UNCHANGED <<public, active, authorized, form, todo, cur, applied>>
    BY DEF DeleteScreen, DeleteChannel, At, Cascade
  <1>2. sub' \in [Screens \X Channels -> Users \cup {None}]
    BY <1>1 DEF Basics, Types, Cascade
  <1>3. /\ screens' \subseteq Screens /\ channels' \subseteq Channels
        /\ owner' \in [Screens -> [Users -> Nat]]
    <2>1. CASE DeleteScreen(t)
      <3>1. [u \in Users |-> 0] \in [Users -> Nat]
        OBVIOUS
      <3> QED BY <2>1, <3>1 DEF Basics, Types, DeleteScreen
    <2>2. CASE DeleteChannel(t)
      BY <2>2 DEF Basics, Types, DeleteChannel
    <2> QED BY <2>1, <2>2
  <1>4. disturbed' \in [Threads -> BOOLEAN]
    BY <1>1, DisturbType DEF Basics, Cascade
  <1>5. found' \in [Threads -> Found] /\ found'[t] = "unread" /\ Finds(t)
    BY <1>1, CascadeFinds
  <1>6. Types'
    BY <1>1, <1>2, <1>3, <1>4, <1>5 DEF Basics, Types, Steps, Found
  <1>7. Underway(t)'
    BY <1>1, <1>5 DEF Basics, Types, Underway
  <1>8. \A v \in Threads : v # t => Underway(v)'
    BY <1>1, <1>5, Untouched DEF Basics, Types, Finds
  <1> QED BY <1>6, <1>7, <1>8 DEF Basics

LEMMA EditBasics ==
    ASSUME Basics, NEW c \in Edited, EditSubscriptionRight(c) \/ TogglePlugin(c)
    PROVE  Basics'
  <1>1. Types'
    BY SubscriptionsAssumption, DisturbType
    DEF Basics, Types, EditSubscriptionRight, TogglePlugin
  <1>2. \A v \in Threads : Underway(v)'
    BY Untouched DEF Basics, EditSubscriptionRight, TogglePlugin
  <1> QED BY <1>1, <1>2 DEF Basics

LEMMA BasicsStep == Basics /\ [Next]_vars => Basics'
  <1> SUFFICES ASSUME Basics, [Next]_vars PROVE Basics'
    OBVIOUS
  <1>1. CASE UNCHANGED vars
    BY <1>1, Untouched DEF Basics, Types, vars, tables
  <1>2. CASE Next
    BY <1>2, OpenBasics, CheckBasics, SelectBasics, InsertBasics, UpdateBasics, DeleteBasics,
       OtherWriteBasics, CloseBasics, DeletionBasics, EditBasics DEF Next
  <1> QED BY <1>1, <1>2

-----------------------------------------------------------------------------
(* Subscriptions have a screen and a channel. *)

\* A row that was found, and is not known to be gone, is there.
RowIsThere(v) == found[v] = "row" /\ IsSubscription(form[v]) => sub[Pair(v)] # None

RowsHold ==
    /\ \A p \in Screens \X Channels : sub[p] # None => p \in screens \X channels
    /\ \A v \in Threads : RowIsThere(v)

\* What t does to its own request does not change what others have found.
LEMMA OthersRows ==
    ASSUME Basics, RowsHold, NEW t, NEW v \in Threads, v # t,
           form'[v] = form[v], cur'[v] = cur[v], found'[v] = "row" => found[v] = "row",
           found'[v] = "row" /\ IsSubscription(form[v]) /\ sub[Pair(v)] # None => sub'[Pair(v)] # None
    PROVE  RowIsThere(v)'
  BY DEF RowsHold, RowIsThere, Pair

LEMMA RowsReads ==
    ASSUME Basics, RowsHold, NEW t \in Threads,
           \/ \E f \in Forms : Open(t, f)
           \/ \E e \in todo[t] : Check(t, e)
           \/ \E e \in Entry : Select(t, e)
           \/ Close(t) \/ ConfirmDelete(t)
    PROVE  RowsHold'
  <1>1. UNCHANGED <<screens, channels, sub>>
    BY DEF Open, Check, Select, Close, ConfirmDelete, tables
  <1>2. \A v \in Threads : v # t =>
            form'[v] = form[v] /\ cur'[v] = cur[v] /\ found'[v] = found[v]
    BY DEF Basics, Types, Open, Check, Answer, Select, Close, ConfirmDelete
  <1>3. \A v \in Threads : v # t => RowIsThere(v)'
    BY <1>1, <1>2, OthersRows
  <1>4. RowIsThere(t)'
    <2>1. CASE \E e \in Entry : Select(t, e)
      <3>1. PICK e \in Entry : Select(t, e)
        BY <2>1
      <3>2. form'[t] = form[t] /\ cur'[t] = e /\ sub' = sub
            /\ (found'[t] = "row" => HasRow(form[t], e))
        BY <3>1 DEF Basics, Types, Select, tables
      <3>3. IsSubscription(form[t]) /\ HasRow(form[t], e) =>
                sub[<<ScreenOf(form[t], e), ChannelOf(form[t], e)>>] # None
        BY DEF HasRow, IsSubscription
      <3> QED BY <3>2, <3>3 DEF RowIsThere, Pair
    <2>2. CASE ~\E e \in Entry : Select(t, e)
      BY <2>2 DEF Basics, Types, Underway, Open, Check, Answer, Close, ConfirmDelete, At, RowIsThere
    <2> QED BY <2>1, <2>2
  <1> QED BY <1>1, <1>3, <1>4 DEF RowsHold

LEMMA RowsWrites ==
    ASSUME Basics, RowsHold, NEW t \in Threads,
           \/ InsertSubscription(t) \/ InsertFails(t) \/ UpdateSubscription(t)
           \/ ChangeOwner(t) \/ Authorize(t)
    PROVE  RowsHold'
  <1>1. /\ UNCHANGED <<screens, channels, form>>
        /\ found' = [found EXCEPT ![t] = "unread"]
        /\ cur' = [cur EXCEPT ![t] = None]
        /\ pc[t] = "write" /\ cur[t] # None /\ form[t] \in Forms /\ form[t].user # None
    BY FormFacts, SubscriptionsAssumption
    DEF Basics, Underway, InsertSubscription, InsertFails, UpdateSubscription, ChangeOwner,
        Authorize, Writes, Continue, Answer
  <1>2. \/ sub' = sub
        \/ /\ IsSubscription(form[t])
           /\ sub' = [sub EXCEPT ![Pair(t)] = form[t].user]
           /\ Pair(t) \in screens \X channels
    <2>1. CASE UpdateSubscription(t)
      BY <1>1, <2>1, PairType DEF UpdateSubscription, Subscribes, RowsHold, RowIsThere
    <2>2. CASE ~UpdateSubscription(t)
      BY <2>2 DEF InsertSubscription, InsertFails, ChangeOwner, Authorize, Subscribes
    <2> QED BY <2>1, <2>2
  <1>3. \A p \in Screens \X Channels : sub[p] # None => sub'[p] # None
    BY <1>1, <1>2 DEF Basics, Types
  <1>4. \A p \in Screens \X Channels : sub'[p] # None => p \in screens' \X channels'
    BY <1>1, <1>2 DEF Basics, Types, RowsHold
  <1>5. \A v \in Threads : v # t => RowIsThere(v)'
    <2> TAKE v \in Threads
    <2> HAVE v # t
    <2>1. form'[v] = form[v] /\ cur'[v] = cur[v] /\ found'[v] = found[v]
      BY <1>1 DEF Basics, Types
    <2>2. found[v] = "row" => cur[v] # None
      BY DEF Basics, Underway
    <2> QED BY <1>3, <2>1, <2>2, PairType, OthersRows
  <1>6. RowIsThere(t)'
    BY <1>1 DEF Basics, Types, RowIsThere
  <1> QED BY <1>4, <1>5, <1>6 DEF RowsHold

LEMMA RowsDeletions ==
    ASSUME Basics, RowsHold, NEW t \in Threads,
           DeleteSubscription(t) \/ DeleteScreen(t) \/ DeleteChannel(t)
    PROVE  RowsHold'
  <1>1. form' = form /\ (\A v \in Threads : v # t => cur'[v] = cur[v])
        /\ found'[t] = "unread" /\ Finds(t)
    <2>1. CASE DeleteSubscription(t)
      BY <2>1, DeleteFinds DEF Basics, Types, DeleteSubscription, Writes, Continue
    <2>2. CASE DeleteScreen(t) \/ DeleteChannel(t)
      <3>1. Cascade(t, form[t].target)
        BY <2>2 DEF DeleteScreen, DeleteChannel
      <3>2. UNCHANGED <<form, cur>>
        BY <3>1 DEF Cascade
      <3> QED BY <3>1, <3>2, CascadeFinds
    <2> QED BY <2>1, <2>2
  <1>2. \A p \in Screens \X Channels : sub'[p] # None => p \in screens' \X channels'
    <2>1. CASE DeleteSubscription(t)
      BY <2>1, PairType DEF Basics, Types, RowsHold, DeleteSubscription, Writes
    <2>2. CASE DeleteScreen(t)
      BY <2>2 DEF RowsHold, DeleteScreen, Cascade
    <2>3. CASE DeleteChannel(t)
      BY <2>3 DEF RowsHold, DeleteChannel, Cascade
    <2> QED BY <2>1, <2>2, <2>3
  <1>3. ASSUME NEW v \in Threads, v # t PROVE RowIsThere(v)'
    <2>1. found'[v] = "row" => found[v] = "row"
      BY <1>1, <1>3 DEF Finds
    <2> SUFFICES ASSUME found'[v] = "row", IsSubscription(form[v]), sub[Pair(v)] # None
                 PROVE  sub'[Pair(v)] # None
      BY <1>1, <1>3, <2>1, OthersRows
    <2>2. Pair(v) \in Screens \X Channels
      BY <2>1, PairType DEF Basics, Underway
    <2>3. CASE DeleteSubscription(t)
      BY <1>3, <2>2, <2>3, DeleteFinds DEF Basics, Types, DeleteSubscription
    <2>4. CASE DeleteScreen(t) \/ DeleteChannel(t)
      BY <1>3, <2>2, <2>4, CascadeFinds DEF DeleteScreen, DeleteChannel, Cascade
    <2> QED BY <2>3, <2>4
  <1>4. RowIsThere(t)'
    BY <1>1 DEF RowIsThere
  <1> QED BY <1>2, <1>3, <1>4 DEF RowsHold

LEMMA RowsStep == Basics /\ RowsHold /\ [Next]_vars => RowsHold'
  <1> SUFFICES ASSUME Basics, RowsHold, [Next]_vars PROVE RowsHold'
    OBVIOUS
  <1>1. CASE UNCHANGED <<screens, channels, sub, form, cur, found>>
    BY <1>1 DEF RowsHold, RowIsThere, Pair
  <1>2. CASE Next
    BY <1>1, <1>2, RowsReads, RowsWrites, RowsDeletions
    DEF Next, EditSubscriptionRight, TogglePlugin
  <1> QED BY <1>1, <1>2 DEF vars, tables
-----------------------------------------------------------------------------
(* Type correctness. *)

\* The types, and what requests and rows need to stay within them.
LEMMA BasicsHold == Spec => [](Basics /\ RowsHold)
  <1>1. Init => Basics /\ RowsHold
    <2> SUFFICES ASSUME Init PROVE RowsHold
      BY InitBasics
    <2> QED BY DEF Init, RowsHold, RowIsThere
  <1>2. Basics /\ RowsHold /\ [Next]_vars => (Basics /\ RowsHold)'
    BY BasicsStep, RowsStep
  <1> QED BY <1>1, <1>2, PTL DEF Spec

\* The variables have their types whatever requests do at once: a subscription that the
\* database holds is of a screen and a channel that exist, owners are counted and a thread
\* only treats entries of the form it was sent (screens_page.py, screen_subscriptions_page.py).
THEOREM TypeCorrect == Spec => []TypeOK
  <1>1. Basics /\ RowsHold => TypeOK
    <2> SUFFICES ASSUME Basics, RowsHold PROVE TypeOK
      OBVIOUS
    <2>1. Forms \cup {None} \subseteq Form \cup {None}
      BY FormFacts
    <2>2. form \in [Threads -> Form \cup {None}]
      BY <2>1 DEF Basics, Types
    <2> QED BY <2>2 DEF Basics, Types, RowsHold, TypeOK, Steps
  <1> QED BY <1>1, BasicsHold, PTL

-----------------------------------------------------------------------------
(* Whoever subscribes a screen has the right to. *)

Rightful(f, e) ==
    /\ f.user \in Admins \/ Owns(f.user, ScreenOf(f, e))
    /\ CanSubscribe(f.user, ChannelOf(f, e))
    /\ f.page = "channel" \/ ~Disabled(ChannelOf(f, e))

\* The entries whose rights a request relies on.
Checked(t) ==
    IF form[t].page = "screen"
    THEN IF pc[t] = "check" THEN form[t].diff \ todo[t] ELSE form[t].diff
    ELSE {cur[t]} \ {None}

Subscribing(t) == pc[t] \in {"check", "select", "write"} /\ IsSubscription(form[t])

RightsAsked(t) ==
    Subscribing(t) /\ ~disturbed[t] =>
        /\ form[t].page = "screen" => form[t].user \in Admins \/ Owns(form[t].user, form[t].target)
        /\ \A e \in Checked(t) : e.add => Rightful(form[t], e)

\* A step that leaves the rights of a user on what his request names.
RightsStay(t) ==
    \A u \in {form[t].user} :
    /\ \A s \in Screens \cap Named(t) : Owns(u, s) => Owns(u, s)'
    /\ \A c \in Channels \cap Named(t) :
            (CanSubscribe(u, c) => CanSubscribe(u, c)') /\ (Disabled(c)' => Disabled(c))

\* What an entry is about, its request names.
LEMMA NamedFacts ==
    ASSUME Basics, NEW t \in Threads, pc[t] # "idle", IsSubscription(form[t])
    PROVE  /\ form[t] \in Forms /\ form[t].user \in Named(t) /\ form[t].target \in Named(t)
           /\ form[t].page = "screen" => form[t].target \in Screens
           /\ \A e \in form[t].diff : /\ ScreenOf(form[t], e) \in Screens \cap Named(t)
                                      /\ ChannelOf(form[t], e) \in Channels \cap Named(t)
  <1>1. form[t] \in Forms
    BY DEF Basics, Underway
  <1>2. form[t].user \in Named(t) /\ form[t].target \in Named(t)
        /\ \A e \in form[t].diff : e.key \in Named(t)
    BY DEF Named
  <1>3. form[t].page = "screen" => form[t].target \in Screens
    BY <1>1, FormFacts DEF Target
  <1> QED BY <1>1, <1>2, <1>3, PairFacts DEF ScreenOf, ChannelOf

\* A right that stays is one to subscribe still.
LEMMA RightfulStays ==
    ASSUME Basics, NEW t \in Threads, pc[t] # "idle", IsSubscription(form[t]), RightsStay(t),
           form'[t] = form[t]
    PROVE  /\ \A e \in form[t].diff : Rightful(form[t], e) => Rightful(form[t], e)'
           /\ form[t].page = "screen" /\ Owns(form[t].user, form[t].target)
                => Owns(form[t].user, form[t].target)'
  BY NamedFacts DEF RightsStay, Rightful

\* A change of another request to what this one names disturbs it.
LEMMA Disturbs ==
    ASSUME Basics, NEW t \in Threads, pc[t] # "idle", ~disturbed'[t],
           NEW v, v # t, NEW S, Disturb(v, S)
    PROVE  ~(S \subseteq Named(t))
  BY DEF Basics, Types, Disturb

LEMMA OthersKeepRights ==
    ASSUME Basics, NEW t \in Threads, pc[t] # "idle", IsSubscription(form[t]), ~disturbed'[t],
           NEW v \in Threads, v # t,
           \/ InsertSubscription(v) \/ InsertFails(v) \/ UpdateSubscription(v)
           \/ DeleteSubscription(v) \/ ChangeOwner(v) \/ Authorize(v)
           \/ DeleteScreen(v) \/ DeleteChannel(v)
    PROVE  RightsStay(t)
  <1>1. form[t].user \in Users /\ form[t].user \in Named(t)
    BY NamedFacts, FormFacts
  <1>2. CASE UNCHANGED <<screens, owner, authorized, public, active>>
    BY <1>2 DEF RightsStay, Owns, CanSubscribe, Disabled
  <1>3. CASE ChangeOwner(v)
    <2>1. UNCHANGED <<screens, authorized, public, active>>
          /\ ~({form[v].target, cur[v].key} \subseteq Named(t))
      BY <1>3, Disturbs DEF ChangeOwner, Writes
    <2>2. form[v].target \in Screens /\ cur[v].key \in Users
      BY <1>3, FormFacts DEF Basics, Underway, ChangeOwner, Writes, Target, Keys
    <2>3. \A s \in Screens \cap Named(t) : owner'[s][form[t].user] = owner[s][form[t].user]
      BY <1>1, <1>3, <2>1, <2>2 DEF Basics, Types, ChangeOwner
    <2> QED BY <2>1, <2>3 DEF RightsStay, Owns, CanSubscribe, Disabled
  <1>4. CASE Authorize(v)
    <2>1. UNCHANGED <<screens, owner, public, active>>
          /\ ~({form[v].target, cur[v].key} \subseteq Named(t))
      BY <1>4, Disturbs DEF Authorize, Writes
    <2>2. \A c \in Channels \cap Named(t) :
            form[t].user \in authorized[c] => form[t].user \in authorized'[c]
      BY <1>1, <1>4, <2>1 DEF Basics, Types, Authorize
    <2> QED BY <2>1, <2>2 DEF RightsStay, Owns, CanSubscribe, Disabled
  <1>5. CASE DeleteScreen(v)
    <2>1. UNCHANGED <<authorized, public, active>> /\ form[v].target \notin Named(t)
      <3>1. Cascade(v, form[v].target)
        BY <1>5 DEF DeleteScreen
      <3>2. Disturb(v, {form[v].target}) /\ UNCHANGED <<authorized, public, active>>
        BY <3>1 DEF Cascade
      <3> QED BY <3>2, Disturbs
    <2>2. \A s \in Screens \cap Named(t) :
            (s \in screens => s \in screens') /\ owner'[s] = owner[s]
      BY <1>5, <2>1 DEF Basics, Types, DeleteScreen
    <2> QED BY <2>1, <2>2 DEF RightsStay, Owns, CanSubscribe, Disabled
  <1>6. CASE DeleteChannel(v)
    BY <1>2, <1>6 DEF DeleteChannel, Cascade
  <1> QED
    BY <1>2, <1>3, <1>4, <1>5, <1>6
    DEF InsertSubscription, InsertFails, UpdateSubscription, DeleteSubscription, Writes

LEMMA EditsKeepRights ==
    ASSUME Basics, NEW t \in Threads, pc[t] # "idle", IsSubscription(form[t]), ~disturbed'[t],
           NEW c \in Edited, EditSubscriptionRight(c) \/ TogglePlugin(c)
    PROVE  RightsStay(t)
  <1>1. ~({c} \subseteq Named(t))
    BY Disturbs, SubscriptionsAssumption DEF EditSubscriptionRight, TogglePlugin
  <1>2. UNCHANGED <<screens, owner, authorized>>
        /\ \A d \in Channels \cap Named(t) :
              (d \in public => d \in public') /\ (d \in active => d \in active')
    BY <1>1 DEF EditSubscriptionRight, TogglePlugin
  <1> QED BY <1>2 DEF RightsStay, Owns, CanSubscribe, Disabled

\* A step of another request, or of none, that leaves the rights leaves what was asked.
LEMMA AskedStays ==
    ASSUME Basics, NEW t \in Threads, RightsAsked(t),
           pc'[t] = pc[t], form'[t] = form[t], todo'[t] = todo[t], cur'[t] = cur[t],
           ~disturbed'[t] => ~disturbed[t],
           Subscribing(t) /\ ~disturbed'[t] => RightsStay(t)
    PROVE  RightsAsked(t)'
  <1> SUFFICES ASSUME Subscribing(t), ~disturbed'[t]
               PROVE  /\ form[t].page = "screen" =>
                            form[t].user \in Admins \/ Owns(form[t].user, form[t].target)'
                      /\ \A e \in Checked(t) : e.add => Rightful(form[t], e)'
    <2>1. Subscribing(t)' = Subscribing(t) /\ Checked(t)' = Checked(t)
      BY DEF Subscribing, Checked, IsSubscription
    <2> QED BY <2>1 DEF RightsAsked
  <1>1. Checked(t) \subseteq form[t].diff
    BY DEF Basics, Underway, Checked
  <1>2. pc[t] # "idle" /\ IsSubscription(form[t])
    BY DEF Subscribing
  <1> QED BY <1>1, <1>2, RightfulStays DEF RightsAsked

\* What a request asks, it relies on until it ends: its own steps change no right.
LEMMA OpenAsks ==
    ASSUME Basics, NEW t \in Threads, NEW f \in Forms, Open(t, f)
    PROVE  RightsAsked(t)'
  <1>1. form'[t] = f /\ todo'[t] = f.diff /\ cur'[t] = None
        /\ UNCHANGED <<screens, owner>> /\ pc'[t] \in {"check", "delete"} /\ Gate(f)
    BY DEF Basics, Types, Underway, Open, At, tables
  <1>2. Subscribing(t)' => Checked(t)' = {}
    BY <1>1 DEF Subscribing, Checked
  <1>3. f.page = "screen" => f.user \in Admins \/ Owns(f.user, f.target)'
    BY <1>1 DEF Gate, Owns
  <1> QED BY <1>1, <1>2, <1>3 DEF RightsAsked

\* An entry that passes is one that may be added.
LEMMA PassingIsRightful ==
    ASSUME Basics, NEW t \in Threads, RightsAsked(t), Subscribing(t), ~disturbed[t],
           NEW e \in form[t].diff, Passes(t, e), e.add
    PROVE  Rightful(form[t], e)
  <1>1. CASE form[t].page = "screen"
    BY <1>1 DEF RightsAsked, Passes, Allowed, Rightful, ScreenOf
  <1>2. CASE form[t].page = "screens"
    BY <1>2 DEF Passes, Allowed, Rightful, CanSubscribe
  <1>3. CASE form[t].page = "channel"
    BY <1>3, SubscriptionsAssumption DEF Passes, Allowed, Rightful
  <1> QED BY <1>1, <1>2, <1>3 DEF Subscribing, IsSubscription

LEMMA CheckAsks ==
    ASSUME Basics, NEW t \in Threads, RightsAsked(t), NEW e \in todo[t], Check(t, e)
    PROVE  RightsAsked(t)'
  <1>1. /\ pc[t] = "check" /\ e \in form[t].diff /\ todo[t] \subseteq form[t].diff
        /\ cur[t] = None
        /\ UNCHANGED <<tables, form, disturbed>>
    BY DEF Basics, Underway, Check
  <1>2. CASE ~Passes(t, e)
    BY <1>2 DEF Basics, Types, Check, Answer, Refusal, RightsAsked, Subscribing
  <1>3. CASE Passes(t, e)
    <2> SUFFICES ASSUME Subscribing(t), ~disturbed[t]
                 PROVE  RightsAsked(t)'
      BY <1>1 DEF RightsAsked, Subscribing, IsSubscription
    <2>1. Checked(t)' \subseteq Checked(t) \cup {e}
      <3>1. CASE ChecksFirst(form[t])
        <4>1. CASE todo[t] = {e}
          BY <1>1, <1>3, <3>1, <4>1 DEF Basics, Types, Check, Checked, ChecksFirst
        <4>2. CASE todo[t] # {e}
          BY <1>1, <1>3, <3>1, <4>2 DEF Basics, Types, Check, Checked, ChecksFirst
        <4> QED BY <4>1, <4>2
      <3>2. CASE ~ChecksFirst(form[t])
        BY <1>1, <1>3, <3>2 DEF Basics, Types, Check, Checked, ChecksFirst
      <3> QED BY <3>1, <3>2
    <2>2. e.add => Rightful(form[t], e)
      BY <1>1, <1>3, PassingIsRightful
    <2>3. \A d \in Checked(t)' : d.add => Rightful(form[t], d)
      BY <2>1, <2>2 DEF RightsAsked
    <2>4. form'[t] = form[t] /\ (\A d : Rightful(form[t], d)' <=> Rightful(form[t], d))
          /\ (Owns(form[t].user, form[t].target)' <=> Owns(form[t].user, form[t].target))
      BY <1>1 DEF tables, Rightful, Owns, CanSubscribe, Disabled, ScreenOf, ChannelOf
    <2> QED BY <2>3, <2>4 DEF RightsAsked
  <1> QED BY <1>2, <1>3

LEMMA SelectAsks ==
    ASSUME Basics, NEW t \in Threads, RightsAsked(t), NEW e \in Entry, Select(t, e)
    PROVE  RightsAsked(t)'
  <1>1. /\ pc[t] = "select" /\ pc'[t] = "write" /\ cur'[t] = e
        /\ UNCHANGED <<tables, form, disturbed>>
    BY DEF Basics, Types, Select
  <1>2. form[t].page # "screen" => cur[t] = e
    BY <1>1 DEF Basics, Underway, Select
  <1>3. Checked(t)' = Checked(t) /\ Subscribing(t)' = Subscribing(t)
    BY <1>1, <1>2 DEF Checked, Subscribing, IsSubscription
  <1>4. (\A d : Rightful(form[t], d)' <=> Rightful(form[t], d))
        /\ (Owns(form[t].user, form[t].target)' <=> Owns(form[t].user, form[t].target))
    BY <1>1 DEF tables, Rightful, Owns, CanSubscribe, Disabled, ScreenOf, ChannelOf
  <1> QED BY <1>1, <1>3, <1>4 DEF RightsAsked

LEMMA WriteAsks ==
    ASSUME Basics, NEW t \in Threads, RightsAsked(t),
           \/ InsertSubscription(t) \/ InsertFails(t) \/ UpdateSubscription(t)
           \/ DeleteSubscription(t)
    PROVE  RightsAsked(t)'
  <1>1. /\ pc[t] = "write" /\ pc'[t] \in {"select", "check", "ok", "error"} /\ cur'[t] = None
        /\ pc'[t] = "check" => form[t].page # "screen"
        /\ UNCHANGED <<screens, owner, authorized, public, active, form>>
        /\ disturbed'[t] = disturbed[t]
    BY DEF Basics, Types, InsertSubscription, InsertFails, UpdateSubscription,
           DeleteSubscription, Writes, Continue, Answer, ChecksFirst, Disturb
  <1>2. Checked(t)' \subseteq Checked(t)
    BY <1>1 DEF Checked
  <1>3. (\A d : Rightful(form[t], d)' <=> Rightful(form[t], d))
        /\ (Owns(form[t].user, form[t].target)' <=> Owns(form[t].user, form[t].target))
    BY <1>1 DEF Rightful, Owns, CanSubscribe, Disabled, ScreenOf, ChannelOf
  <1> QED BY <1>1, <1>2, <1>3 DEF RightsAsked, Subscribing, IsSubscription

LEMMA OtherAsks ==
    ASSUME Basics, NEW t \in Threads,
           \/ ChangeOwner(t) \/ Authorize(t) \/ Close(t)
           \/ DeleteScreen(t) \/ ConfirmDelete(t) \/ DeleteChannel(t)
    PROVE  RightsAsked(t)'
  <1>1. \/ pc'[t] \notin {"check", "select", "write"}
        \/ form'[t] = form[t] /\ ~IsSubscription(form[t])
    BY DEF Basics, Types, ChangeOwner, Authorize, Close, DeleteScreen, ConfirmDelete,
           DeleteChannel, Writes, At, Cascade, IsSubscription
  <1> QED BY <1>1 DEF RightsAsked, Subscribing, IsSubscription

\* What another thread does.
Acts(v) ==
    \/ \E f \in Forms : Open(v, f)
    \/ \E e \in todo[v] : Check(v, e)
    \/ \E e \in Entry : Select(v, e)
    \/ InsertSubscription(v) \/ InsertFails(v) \/ UpdateSubscription(v)
    \/ DeleteSubscription(v) \/ ChangeOwner(v) \/ Authorize(v) \/ Close(v)
    \/ DeleteScreen(v) \/ ConfirmDelete(v) \/ DeleteChannel(v)

LEMMA OthersAsked ==
    ASSUME Basics, NEW t \in Threads, RightsAsked(t), NEW v \in Threads, v # t, Acts(v)
    PROVE  RightsAsked(t)'
  <1>1. CASE \/ \E f \in Forms : Open(v, f)
             \/ \E e \in todo[v] : Check(v, e)
             \/ \E e \in Entry : Select(v, e)
             \/ Close(v) \/ ConfirmDelete(v)
    <2>1. /\ UNCHANGED <<screens, owner, authorized, public, active>>
          /\ pc'[t] = pc[t] /\ form'[t] = form[t] /\ todo'[t] = todo[t] /\ cur'[t] = cur[t]
          /\ disturbed'[t] = disturbed[t]
      BY <1>1 DEF Basics, Types, Open, Check, Answer, Select, Close, ConfirmDelete, At, tables
    <2>2. RightsStay(t)
      BY <2>1 DEF RightsStay, Owns, CanSubscribe, Disabled
    <2> QED BY <2>1, <2>2, AskedStays
  <1>2. CASE \/ InsertSubscription(v) \/ InsertFails(v) \/ UpdateSubscription(v)
             \/ DeleteSubscription(v) \/ ChangeOwner(v) \/ Authorize(v)
             \/ DeleteScreen(v) \/ DeleteChannel(v)
    <2>1. /\ pc'[t] = pc[t] /\ form'[t] = form[t] /\ todo'[t] = todo[t] /\ cur'[t] = cur[t]
          /\ disturbed[t] => disturbed'[t]
      BY <1>2 DEF Basics, Types, InsertSubscription, InsertFails, UpdateSubscription,
           DeleteSubscription, ChangeOwner, Authorize, DeleteScreen, DeleteChannel, Writes,
           Continue, Answer, At, Cascade, Disturb
    <2>2. Subscribing(t) /\ ~disturbed'[t] => RightsStay(t)
      BY <1>2, OthersKeepRights DEF Subscribing
    <2> QED BY <2>1, <2>2, AskedStays
  <1> QED BY <1>1, <1>2 DEF Acts

LEMMA EditsAsked ==
    ASSUME Basics, NEW t \in Threads, RightsAsked(t),
           NEW c \in Edited, EditSubscriptionRight(c) \/ TogglePlugin(c)
    PROVE  RightsAsked(t)'
  <1>1. /\ pc'[t] = pc[t] /\ form'[t] = form[t] /\ todo'[t] = todo[t] /\ cur'[t] = cur[t]
        /\ disturbed[t] => disturbed'[t]
    BY DEF Basics, Types, EditSubscriptionRight, TogglePlugin, Disturb
  <1>2. Subscribing(t) /\ ~disturbed'[t] => RightsStay(t)
    BY EditsKeepRights DEF Subscribing
  <1> QED BY <1>1, <1>2, AskedStays

LEMMA AskedStep ==
    ASSUME Basics, \A t \in Threads : RightsAsked(t), [Next]_vars
    PROVE  \A t \in Threads : RightsAsked(t)'
  <1> TAKE t \in Threads
  <1>1. CASE UNCHANGED vars
    <2>1. RightsStay(t)
      BY <1>1 DEF vars, tables, RightsStay, Owns, CanSubscribe, Disabled
    <2> QED BY <1>1, <2>1, AskedStays DEF vars, tables
  <1>2. CASE Acts(t)
    BY <1>2, OpenAsks, CheckAsks, SelectAsks, WriteAsks, OtherAsks DEF Acts
  <1>3. CASE \E v \in Threads : v # t /\ Acts(v)
    BY <1>3, OthersAsked
  <1>4. CASE \E c \in Edited : EditSubscriptionRight(c) \/ TogglePlugin(c)
    BY <1>4, EditsAsked
  <1> QED BY <1>1, <1>2, <1>3, <1>4 DEF Next, Acts

\* A user who is about to subscribe a screen has asked for a right, in the lines before,
\* that nothing has taken back unless another request touched the same objects
\* (screens_page.py, screen_subscriptions_page.py, SubscribeScreensPage of channel_page.py).
THEOREM RightToSubscribe == Spec => []SubscribesByRight
  <1>1. Init => \A t \in Threads : RightsAsked(t)
    BY DEF Init, RightsAsked, Subscribing
  <1>2. Basics /\ Basics' /\ (\A t \in Threads : RightsAsked(t)) /\ [Next]_vars
            => (\A t \in Threads : RightsAsked(t))'
    BY AskedStep
  <1>3. Basics /\ (\A t \in Threads : RightsAsked(t)) => SubscribesByRight
    <2> SUFFICES ASSUME Basics, NEW t \in Threads, RightsAsked(t),
                        pc[t] \in {"select", "write"}, cur[t] # None, Subscribes(t), ~disturbed[t]
                 PROVE  Rightful(form[t], cur[t])
      BY DEF SubscribesByRight, Rightful, Pair
    <2>1. cur[t] \in Checked(t)
      BY DEF Basics, Underway, Checked
    <2> QED BY <2>1 DEF RightsAsked, Subscribing, Subscribes
  <1> QED BY <1>1, <1>2, <1>3, BasicsHold, PTL DEF Spec
-----------------------------------------------------------------------------
(* An answer is true. *)

\* What a request under way has done and found, when no other touched what it is about: what
\* it names is there; the row it looked for is as it found it; the entries it has treated
\* hold; it has written nothing when the page of a screen refuses; and it fails only on a
\* bundle.
Treated(t) ==
    IF form[t].page = "screen" /\ pc[t] = "check" THEN {}
    ELSE form[t].diff \ (todo[t] \cup {cur[t]})

Present(f) ==
    /\ f.target \in screens \cup channels
    /\ \A e \in f.diff : e.key \in screens \cup channels \cup Users

FindsRight(t) == found[t] = IF HasRow(form[t], cur[t]) THEN "row" ELSE "none"

Faithful(t) ==
    /\ Present(form[t])
    /\ pc[t] = "write" => FindsRight(t)
    /\ pc[t] \in {"check", "select", "write", "ok"} => \A e \in Treated(t) : Holds(form[t], e)
    /\ form[t].page = "screen" /\ pc[t] \in {"check", "refused", "error"} => ~applied[t]
    /\ pc[t] = "error" => /\ form[t].page = "screen"
                          /\ \E e \in form[t].diff : e.key \in Bundles /\ e.add

Undisturbed(t) == pc[t] # "idle" /\ form[t].diff # {} /\ ~disturbed[t]

AnswerInv(t) ==
    /\ pc[t] = "idle" => ~applied[t]
    /\ Undisturbed(t) => Faithful(t)

\* A step that leaves the objects of the request of t, its rows and what it found.
RowsStay(t) ==
    /\ \A f \in {form[t]} : (Present(f) => Present(f)')
                            /\ \A e \in f.diff : HasRow(f, e)' <=> HasRow(f, e)
    /\ found'[t] = found[t]

\* The objects of a request, and the pair of an entry of subscription, are named by it.
LEMMA NamesAll ==
    ASSUME Basics, NEW t \in Threads, pc[t] # "idle"
    PROVE  /\ form[t] \in Forms /\ form[t].target \in Named(t)
           /\ \A e \in form[t].diff :
                /\ e \in Entry /\ e # None /\ e.key \in Named(t)
                /\ ScreenOf(form[t], e) \in Named(t) /\ ChannelOf(form[t], e) \in Named(t)
                /\ IsSubscription(form[t]) =>
                        <<ScreenOf(form[t], e), ChannelOf(form[t], e)>> \in Screens \X Channels
  <1>1. form[t] \in Forms
    BY DEF Basics, Underway
  <1>2. form[t].target \in Named(t) /\ \A e \in form[t].diff : e.key \in Named(t)
    BY DEF Named
  <1> QED BY <1>1, <1>2, FormFacts, PairFacts DEF ScreenOf, ChannelOf

\* A subscription changes for the one that is written, which disturbs whoever names it.
LEMMA OthersWriteKeepsRows ==
    ASSUME Basics, RowsHold, NEW t \in Threads, pc[t] # "idle", ~disturbed'[t],
           NEW v \in Threads, v # t,
           \/ InsertSubscription(v) \/ InsertFails(v) \/ UpdateSubscription(v)
           \/ DeleteSubscription(v)
    PROVE  RowsStay(t)
  <1>1. UNCHANGED <<screens, channels, owner, authorized>> /\ pc[v] = "write"
    BY DEF InsertSubscription, InsertFails, UpdateSubscription, DeleteSubscription, Writes
  <1>2. form[t] \in Forms
    BY NamesAll
  <1> SUFFICES /\ found'[t] = found[t]
               /\ IsSubscription(form[t]) => \A e \in form[t].diff :
                    LET p == <<ScreenOf(form[t], e), ChannelOf(form[t], e)>>
                    IN  sub'[p] # None <=> sub[p] # None
    BY <1>1, <1>2 DEF RowsStay, Present, HasRow, Owns, ScreenOf, ChannelOf, IsSubscription
  <1>3. CASE InsertFails(v)
    BY <1>3 DEF InsertFails, Answer, Basics, Types
  <1>4. CASE UpdateSubscription(v)
    <2>1. found'[t] = found[t]
      BY <1>4 DEF UpdateSubscription, Basics, Types
    <2>2. form[v].user # None /\ cur[v] # None /\ IsSubscription(form[v])
      BY <1>1, <1>4, FormFacts, SubscriptionsAssumption
      DEF Basics, Underway, UpdateSubscription, Subscribes
    <2>3. Pair(v) \in Screens \X Channels
      BY <2>2, PairType
    <2>4. found[v] = "row" => sub[Pair(v)] # None
      BY <2>2 DEF RowsHold, RowIsThere
    <2>5. \A p \in Screens \X Channels : sub'[p] # None <=> sub[p] # None
      BY <1>4, <2>2, <2>3, <2>4 DEF UpdateSubscription, Basics, Types
    <2> QED BY <2>1, <2>5, NamesAll
  <1>5. CASE \/ InsertSubscription(v)
             \/ DeleteSubscription(v) /\ found[v] = "row"
    <2>1. ~({Pair(v)[1], Pair(v)[2]} \subseteq Named(t))
      BY <1>5, Disturbs DEF InsertSubscription, DeleteSubscription
    <2>2. \A e \in form[t].diff : <<ScreenOf(form[t], e), ChannelOf(form[t], e)>> # Pair(v)
      BY <2>1, NamesAll
    <2>3. \A p \in Screens \X Channels : p # Pair(v) => sub'[p] = sub[p]
      BY <1>5 DEF InsertSubscription, DeleteSubscription, Basics, Types
    <2>4. found'[t] = found[t]
      <3>1. CASE InsertSubscription(v)
        BY <3>1 DEF InsertSubscription, Basics, Types
      <3>2. CASE DeleteSubscription(v) /\ found[v] = "row"
        <4>1. found[t] = "row" => cur[t] \in form[t].diff
          BY DEF Basics, Underway
        <4> QED BY <2>2, <3>2, <4>1 DEF DeleteSubscription, Forget, Basics, Types
      <3> QED BY <1>5, <3>1, <3>2
    <2> QED BY <2>2, <2>3, <2>4, NamesAll
  <1>6. CASE DeleteSubscription(v) /\ found[v] # "row"
    BY <1>6 DEF DeleteSubscription, Basics, Types
  <1> QED BY <1>3, <1>4, <1>5, <1>6

LEMMA OthersGrantKeepsRows ==
    ASSUME Basics, NEW t \in Threads, pc[t] # "idle", ~disturbed'[t],
           NEW v \in Threads, v # t, ChangeOwner(v) \/ Authorize(v)
    PROVE  RowsStay(t)
  <1>1. /\ UNCHANGED <<screens, channels, sub>> /\ found'[t] = found[t]
        /\ ~({form[v].target, cur[v].key} \subseteq Named(t))
    <2>1. Disturb(v, {form[v].target, cur[v].key})
      BY DEF ChangeOwner, Authorize
    <2>2. UNCHANGED <<screens, channels, sub>> /\ found'[t] = found[t]
      BY DEF Basics, Types, ChangeOwner, Authorize, Writes
    <2> QED BY <2>1, <2>2, Disturbs
  <1>2. form[t] \in Forms
    BY NamesAll
  <1>3. form[v] \in Forms /\ cur[v] \in form[v].diff
    BY DEF Basics, Underway, ChangeOwner, Authorize, Writes
  <1>4. CASE ChangeOwner(v)
    <2>1. form[v].target \in Screens /\ cur[v].key \in Users /\ UNCHANGED authorized
      BY <1>3, <1>4, FormFacts DEF ChangeOwner, Target, Keys
    <2>2. \A s \in Screens \cap Named(t), u \in Users \cap Named(t) : owner'[s][u] = owner[s][u]
      BY <1>1, <1>4, <2>1 DEF Basics, Types, ChangeOwner
    <2>3. form[t].page = "chown" =>
            /\ form[t].target \in Screens \cap Named(t)
            /\ \A e \in form[t].diff : e.key \in Users \cap Named(t)
      <3>1. form[t].target \in Named(t) /\ \A e \in form[t].diff : e.key \in Named(t)
        BY NamesAll
      <3>2. form[t].page = "chown" => Target[form[t].page] = Screens /\ Keys[form[t].page] = Users
        BY DEF Target, Keys
      <3> QED BY <1>2, <3>1, <3>2, FormFacts
    <2>4. form[t].page = "chown" => \A e \in form[t].diff :
            Owns(e.key, form[t].target)' <=> Owns(e.key, form[t].target)
      <3>1. form'[t] = form[t]
        BY <1>4 DEF ChangeOwner, Writes
      <3> QED BY <1>1, <2>2, <2>3, <3>1 DEF Owns
    <2>5. form'[t] = form[t]
      BY <1>4 DEF ChangeOwner, Writes
    <2> QED BY <1>1, <2>1, <2>4, <2>5
            DEF RowsStay, Present, HasRow, ScreenOf, ChannelOf, IsSubscription
  <1>5. CASE Authorize(v)
    <2>1. form[v].target \in Channels /\ cur[v].key \in Users /\ UNCHANGED owner
      BY <1>3, <1>5, FormFacts DEF Authorize, Target, Keys
    <2>2. \A c \in Channels \cap Named(t), u \in Named(t) :
              u \in authorized'[c] <=> u \in authorized[c]
      BY <1>1, <1>5, <2>1 DEF Basics, Types, Authorize
    <2>3. form[t].page = "authorize" => form[t].target \in Channels
      BY <1>2, FormFacts DEF Target
    <2>4. form[t].page = "authorize" => \A e \in form[t].diff :
            e.key \in authorized'[form[t].target] <=> e.key \in authorized[form[t].target]
      BY <2>2, <2>3, NamesAll
    <2> QED BY <1>1, <2>1, <2>4
            DEF RowsStay, Present, HasRow, Owns, ScreenOf, ChannelOf, IsSubscription
  <1> QED BY <1>4, <1>5

LEMMA OthersDeleteKeepsRows ==
    ASSUME Basics, NEW t \in Threads, pc[t] # "idle", ~disturbed'[t],
           NEW v \in Threads, v # t, DeleteScreen(v) \/ DeleteChannel(v)
    PROVE  RowsStay(t)
  <1> PICK o \in {form[v].target} : TRUE
    OBVIOUS
  <1>1. Cascade(v, o) /\ UNCHANGED <<authorized, form>>
    <2>1. Cascade(v, form[v].target)
      BY DEF DeleteScreen, DeleteChannel
    <2>2. Cascade(v, o)
      BY <2>1
    <2> QED BY <2>2 DEF Cascade
  <1>2. o \notin Named(t)
    <2>1. Disturb(v, {o})
      BY <1>1 DEF Cascade
    <2> QED BY <2>1, Disturbs
  <1>3. form[t] \in Forms
    BY NamesAll
  <1>4. found'[t] = found[t]
    <2>1. found[t] = "row" => cur[t] \in form[t].diff
      BY DEF Basics, Underway
    <2>2. found[t] = "row" =>
            o \notin {ScreenOf(form[t], cur[t]), ChannelOf(form[t], cur[t])}
      BY <1>2, <2>1, NamesAll
    <2> QED BY <1>1, <2>2 DEF Cascade, Forget, Basics, Types
  <1>5. \A p \in Screens \X Channels : o \notin {p[1], p[2]} => sub'[p] = sub[p]
    BY <1>1 DEF Cascade, Basics, Types
  <1>6. IsSubscription(form[t]) => \A e \in form[t].diff :
            sub'[<<ScreenOf(form[t], e), ChannelOf(form[t], e)>>]
              = sub[<<ScreenOf(form[t], e), ChannelOf(form[t], e)>>]
    BY <1>2, <1>5, NamesAll
  <1>7. \A x \in Named(t) : /\ x \in screens' <=> x \in screens
                            /\ x \in channels' <=> x \in channels
    BY <1>2 DEF DeleteScreen, DeleteChannel
  <1>8. form[t].page = "chown" => owner'[form[t].target] = owner[form[t].target]
    <2>1. form[t].page = "chown" => form[t].target \in Screens
      BY <1>3, FormFacts DEF Target
    <2> QED BY <1>2, <2>1, NamesAll DEF DeleteScreen, DeleteChannel, Basics, Types
  <1>9. Present(form[t]) => Present(form[t])'
    BY <1>1, <1>7, NamesAll DEF Present
  <1>10. \A e \in form[t].diff : HasRow(form[t], e)' <=> HasRow(form[t], e)
    BY <1>1, <1>6, <1>7, <1>8, NamesAll DEF HasRow, Owns, ScreenOf, ChannelOf, IsSubscription
  <1> QED
    BY <1>1, <1>4, <1>9, <1>10
    DEF RowsStay, Present, HasRow, Owns, ScreenOf, ChannelOf, IsSubscription

LEMMA EditsKeepRows ==
    ASSUME Basics, NEW t \in Threads,
           NEW c \in Edited, EditSubscriptionRight(c) \/ TogglePlugin(c)
    PROVE  RowsStay(t)
  BY DEF EditSubscriptionRight, TogglePlugin, RowsStay, Present, HasRow, Owns, ScreenOf, ChannelOf

\* A step of another request, or of none, that leaves the rows leaves what was done.
LEMMA AnswerStays ==
    ASSUME Basics, NEW t \in Threads, AnswerInv(t),
           pc'[t] = pc[t], form'[t] = form[t], todo'[t] = todo[t], cur'[t] = cur[t],
           applied'[t] = applied[t],
           ~disturbed'[t] => ~disturbed[t],
           pc[t] # "idle" /\ ~disturbed'[t] => RowsStay(t)
    PROVE  AnswerInv(t)'
  <1>1. pc[t] = "idle" => ~applied'[t]
    BY DEF AnswerInv
  <1> SUFFICES ASSUME Undisturbed(t)' PROVE Faithful(t)'
    BY <1>1 DEF AnswerInv
  <1>2. pc[t] # "idle" /\ ~disturbed'[t] /\ ~disturbed[t] /\ form[t].diff # {}
    BY DEF Undisturbed
  <1>3. Faithful(t) /\ RowsStay(t)
    BY <1>2 DEF AnswerInv, Undisturbed
  <1>4. Present(form[t])' /\ found'[t] = found[t]
    BY <1>3 DEF RowsStay, Faithful
  <1>5. \A e \in form[t].diff : HasRow(form[t], e)' <=> HasRow(form[t], e)
    BY <1>3 DEF RowsStay
  <1>6. pc[t] = "write" => FindsRight(t)'
    <2>1. pc[t] = "write" => cur[t] \in form[t].diff
      BY DEF Basics, Underway
    <2> SUFFICES ASSUME pc[t] = "write" PROVE FindsRight(t)'
      OBVIOUS
    <2>2. found[t] = IF HasRow(form[t], cur[t]) THEN "row" ELSE "none"
      BY <1>3 DEF Faithful, FindsRight
    <2>3. HasRow(form[t], cur[t])' <=> HasRow(form[t], cur[t])
      BY <1>5, <2>1
    <2> QED BY <1>4, <2>2, <2>3 DEF FindsRight
  <1>7. Treated(t)' = Treated(t) /\ Treated(t) \subseteq form[t].diff
    BY DEF Treated
  <1>8. \A e \in Treated(t) : Holds(form[t], e)' <=> Holds(form[t], e)
    BY <1>5, <1>7 DEF Holds
  <1>9. pc[t] \in {"check", "select", "write", "ok"} => \A e \in Treated(t) : Holds(form[t], e)'
    BY <1>3, <1>8 DEF Faithful
  <1> QED BY <1>3, <1>4, <1>6, <1>7, <1>9 DEF Faithful

LEMMA OthersAnswer ==
    ASSUME Basics, RowsHold, NEW t \in Threads, AnswerInv(t), NEW v \in Threads, v # t, Acts(v)
    PROVE  AnswerInv(t)'
  <1>1. CASE \/ \E f \in Forms : Open(v, f)
             \/ \E e \in todo[v] : Check(v, e)
             \/ \E e \in Entry : Select(v, e)
             \/ Close(v) \/ ConfirmDelete(v)
    <2>1. /\ UNCHANGED tables
          /\ pc'[t] = pc[t] /\ form'[t] = form[t] /\ todo'[t] = todo[t] /\ cur'[t] = cur[t]
          /\ applied'[t] = applied[t] /\ disturbed'[t] = disturbed[t] /\ found'[t] = found[t]
      BY <1>1 DEF Basics, Types, Open, Check, Answer, Select, Close, ConfirmDelete, At
    <2>2. RowsStay(t)
      BY <2>1 DEF RowsStay, tables, Present, HasRow, Owns, ScreenOf, ChannelOf
    <2> QED BY <2>1, <2>2, AnswerStays
  <1>2. CASE \/ InsertSubscription(v) \/ InsertFails(v) \/ UpdateSubscription(v)
             \/ DeleteSubscription(v) \/ ChangeOwner(v) \/ Authorize(v)
             \/ DeleteScreen(v) \/ DeleteChannel(v)
    <2>1. /\ pc'[t] = pc[t] /\ form'[t] = form[t] /\ todo'[t] = todo[t] /\ cur'[t] = cur[t]
          /\ applied'[t] = applied[t]
          /\ disturbed[t] => disturbed'[t]
      BY <1>2 DEF Basics, Types, InsertSubscription, InsertFails, UpdateSubscription,
           DeleteSubscription, ChangeOwner, Authorize, DeleteScreen, DeleteChannel, Writes,
           Continue, Answer, At, Cascade, Disturb
    <2>2. pc[t] # "idle" /\ ~disturbed'[t] => RowsStay(t)
      BY <1>2, OthersWriteKeepsRows, OthersGrantKeepsRows, OthersDeleteKeepsRows
    <2> QED BY <2>1, <2>2, AnswerStays
  <1> QED BY <1>1, <1>2 DEF Acts

LEMMA EditsAnswer ==
    ASSUME Basics, NEW t \in Threads, AnswerInv(t),
           NEW c \in Edited, EditSubscriptionRight(c) \/ TogglePlugin(c)
    PROVE  AnswerInv(t)'
  <1>1. /\ pc'[t] = pc[t] /\ form'[t] = form[t] /\ todo'[t] = todo[t] /\ cur'[t] = cur[t]
        /\ applied'[t] = applied[t]
        /\ disturbed[t] => disturbed'[t]
    BY DEF Basics, Types, EditSubscriptionRight, TogglePlugin, Disturb
  <1> QED BY <1>1, EditsKeepRows, AnswerStays

\* Its own steps: a request is opened with nothing treated,
LEMMA OpenAnswers ==
    ASSUME Basics, NEW t \in Threads, AnswerInv(t), NEW f \in Forms, Open(t, f)
    PROVE  AnswerInv(t)'
  <1>1. /\ UNCHANGED tables /\ form'[t] = f /\ todo'[t] = f.diff
        /\ pc'[t] = IF Keys[f.page] = {} THEN "delete" ELSE "check"
        /\ applied'[t] = applied[t] /\ ~applied[t]
        /\ Present(f)
    BY DEF Basics, Types, Open, At, AnswerInv, Present
  <1>2. Treated(t)' = {}
    BY <1>1 DEF Treated
  <1>3. Present(f)'
    BY <1>1 DEF Present, tables
  <1> QED BY <1>1, <1>2, <1>3 DEF AnswerInv, Faithful

\* checks its entries,
LEMMA CheckAnswers ==
    ASSUME Basics, NEW t \in Threads, AnswerInv(t), NEW e \in todo[t], Check(t, e)
    PROVE  AnswerInv(t)'
  <1>1. /\ pc[t] = "check" /\ e \in form[t].diff /\ todo[t] \subseteq form[t].diff
        /\ cur[t] = None /\ form[t] \in Forms /\ \A d \in form[t].diff : d # None
        /\ form'[t] = form[t] /\ applied'[t] = applied[t] /\ disturbed'[t] = disturbed[t]
        /\ UNCHANGED tables /\ pc'[t] # "idle"
    BY FormFacts DEF Basics, Types, Underway, Check, Answer, Refusal
  <1> SUFFICES ASSUME ~disturbed[t] PROVE Faithful(t)'
    BY <1>1 DEF AnswerInv, Undisturbed
  <1>2. Faithful(t)
    BY <1>1 DEF AnswerInv, Undisturbed
  <1>3. (\A d : HasRow(form[t], d)' <=> HasRow(form[t], d))
        /\ (Present(form[t])' <=> Present(form[t]))
    BY <1>1 DEF tables, Present, HasRow, Owns, ScreenOf, ChannelOf
  <1>4. Present(form[t])
    BY <1>2 DEF Faithful
  <1>5. CASE ~Passes(t, e)
    <2>1. pc'[t] = Refusal(form[t], e)
      BY <1>1, <1>5 DEF Basics, Types, Check, Answer
    <2>2. Refusal(form[t], e) \in {"refused", "error"}
      BY DEF Refusal
    <2>3. form[t].page = "channel" => Exists(form[t], e)
      <3>1. form[t].page = "channel" => form[t].target \in Channels /\ e.key \in Screens
        BY <1>1, FormFacts DEF Target, Keys
      <3> QED BY <1>1, <1>4, <3>1, SubscriptionsAssumption
              DEF Basics, Types, Present, Exists, IsSubscription, ScreenOf, ChannelOf
    <2>4. Refusal(form[t], e) = "error" =>
            form[t].page = "screen" /\ Exists(form[t], e) /\ e.key \in Bundles
      BY <2>3 DEF Refusal
    <2>5. form[t].page = "screen" /\ Exists(form[t], e) => e.add
      BY <1>5 DEF Passes, Allowed
    <2>6. form[t].page = "screen" => ~applied[t]
      BY <1>1, <1>2 DEF Faithful
    <2> QED BY <1>1, <1>3, <1>4, <2>1, <2>2, <2>4, <2>5, <2>6 DEF Faithful
  <1>6. CASE Passes(t, e) /\ ChecksFirst(form[t])
    <2>1. form[t].page = "screen" /\ ~applied[t] /\ cur'[t] = None
      BY <1>1, <1>2, <1>6 DEF ChecksFirst, Faithful, Check
    <2>2. \/ pc'[t] = "check"
          \/ pc'[t] = "select" /\ todo'[t] = form[t].diff
      BY <1>1, <1>6 DEF Basics, Types, Check
    <2>3. Treated(t)' = {}
      BY <1>1, <2>1, <2>2 DEF Treated
    <2> QED BY <1>1, <1>3, <1>4, <2>1, <2>2, <2>3 DEF Faithful
  <1>7. CASE Passes(t, e) /\ ~ChecksFirst(form[t])
    <2>1. form[t].page # "screen" /\ cur'[t] = e /\ pc'[t] = "select" /\ todo'[t] = todo[t] \ {e}
      BY <1>1, <1>7 DEF Basics, Types, ChecksFirst, Check
    <2>2. Treated(t)' \subseteq Treated(t)
      BY <1>1, <2>1 DEF Treated
    <2>3. \A d \in Treated(t)' : Holds(form[t], d)'
      BY <1>1, <1>2, <1>3, <2>2 DEF Faithful, Holds
    <2> QED BY <1>1, <1>3, <1>4, <2>1, <2>3 DEF Faithful
  <1> QED BY <1>5, <1>6, <1>7

\* looks for the row of each,
LEMMA SelectAnswers ==
    ASSUME Basics, NEW t \in Threads, AnswerInv(t), NEW e \in Entry, Select(t, e)
    PROVE  AnswerInv(t)'
  <1>1. /\ pc[t] = "select" /\ pc'[t] = "write" /\ cur'[t] = e /\ todo'[t] = todo[t] \ {e}
        /\ form'[t] = form[t] /\ applied'[t] = applied[t] /\ disturbed'[t] = disturbed[t]
        /\ found'[t] = IF HasRow(form[t], e) THEN "row" ELSE "none"
        /\ UNCHANGED tables
        /\ cur[t] \in {None, e}
    BY DEF Basics, Types, Select
  <1> SUFFICES ASSUME ~disturbed[t], form[t].diff # {} PROVE Faithful(t)'
    BY <1>1 DEF AnswerInv, Undisturbed
  <1>2. Faithful(t)
    BY <1>1 DEF AnswerInv, Undisturbed
  <1>3. (\A d : HasRow(form[t], d)' <=> HasRow(form[t], d))
        /\ (Present(form[t])' <=> Present(form[t]))
    BY <1>1 DEF tables, Present, HasRow, Owns, ScreenOf, ChannelOf
  <1>4. form[t] \in Forms
    BY <1>1 DEF Basics, Underway
  <1>5. Treated(t)' \subseteq Treated(t)
    BY <1>1, <1>4, FormFacts DEF Treated
  <1>6. \A d \in Treated(t)' : Holds(form[t], d)'
    BY <1>1, <1>2, <1>3, <1>5 DEF Faithful, Holds
  <1>7. FindsRight(t)'
    BY <1>1, <1>3 DEF FindsRight
  <1> QED BY <1>1, <1>2, <1>3, <1>6, <1>7 DEF Faithful

\* and writes it, which is what its entry asks and leaves the rows of the others.
LEMMA ContinueAnswers ==
    ASSUME Basics, NEW t \in Threads, AnswerInv(t), pc[t] = "write", Continue(t),
           form'[t] = form[t], todo'[t] = todo[t], disturbed'[t] = disturbed[t],
           Undisturbed(t) =>
                /\ Present(form[t])'
                /\ \A d \in {cur[t]} : HasRow(form[t], d)' <=> d.add
                /\ \A d \in form[t].diff : d # cur[t] =>
                        (HasRow(form[t], d)' <=> HasRow(form[t], d))
    PROVE  AnswerInv(t)'
  <1>1. /\ pc'[t] \in {"ok", "select", "check"} /\ cur'[t] = None
        /\ pc'[t] = "check" => form[t].page # "screen"
        /\ cur[t] \in form[t].diff /\ cur[t] # None
    BY DEF Basics, Types, Underway, Continue, ChecksFirst
  <1> SUFFICES ASSUME ~disturbed[t], form[t].diff # {} PROVE Faithful(t)'
    BY <1>1 DEF AnswerInv, Undisturbed
  <1>2. Faithful(t) /\ Undisturbed(t)
    BY DEF AnswerInv, Undisturbed
  <1>3. Treated(t)' \subseteq Treated(t) \cup {cur[t]}
    BY <1>1 DEF Treated
  <1>4. \A d \in Treated(t) : d \in form[t].diff /\ d # cur[t] /\ Holds(form[t], d)
    BY <1>2 DEF Treated, Faithful
  <1>5. \A d \in Treated(t)' : Holds(form[t], d)'
    BY <1>2, <1>3, <1>4 DEF Holds
  <1> QED BY <1>1, <1>2, <1>5 DEF Faithful

\* A diff has one entry for a key, so the entries of a form have rows of their own.
LEMMA OwnKeys ==
    ASSUME NEW f \in Forms, NEW d \in f.diff, NEW e \in f.diff, d # e
    PROVE  /\ d.key # e.key
           /\ IsSubscription(f) =>
                <<ScreenOf(f, d), ChannelOf(f, d)>> # <<ScreenOf(f, e), ChannelOf(f, e)>>
  BY SubscriptionsAssumption DEF ADiff, ScreenOf, ChannelOf

\* The row of a request that writes, when no other touched what it names.
LEMMA WriteFacts ==
    ASSUME Basics, NEW t \in Threads, AnswerInv(t), pc[t] = "write"
    PROVE  /\ form[t] \in Forms /\ cur[t] \in form[t].diff /\ cur[t] # None
           /\ IsSubscription(form[t]) => Pair(t) \in Screens \X Channels
           /\ Undisturbed(t) =>
                /\ Present(form[t])
                /\ found[t] = IF HasRow(form[t], cur[t]) THEN "row" ELSE "none"
                /\ IsSubscription(form[t]) =>
                        /\ Pair(t) \in screens \X channels
                        /\ HasRow(form[t], cur[t]) <=> sub[Pair(t)] # None
  <1>1. form[t] \in Forms /\ cur[t] \in form[t].diff /\ cur[t] # None
    BY DEF Basics, Underway
  <1>2. IsSubscription(form[t]) => Pair(t) \in Screens \X Channels
    BY <1>1, PairType
  <1>3. Undisturbed(t) =>
            /\ Present(form[t])
            /\ found[t] = IF HasRow(form[t], cur[t]) THEN "row" ELSE "none"
    BY DEF AnswerInv, Faithful, FindsRight
  <1>4. IsSubscription(form[t]) => (HasRow(form[t], cur[t]) <=> sub[Pair(t)] # None)
    BY DEF HasRow, IsSubscription, Pair
  <1>5. Undisturbed(t) /\ IsSubscription(form[t]) => Pair(t) \in screens \X channels
    <2>1. Pair(t) = IF form[t].page = "channel" THEN <<cur[t].key, form[t].target>>
                                                ELSE <<form[t].target, cur[t].key>>
      BY DEF Pair, ScreenOf, ChannelOf
    <2> QED BY <1>1, <1>2, <1>3, <2>1, SubscriptionsAssumption DEF Basics, Types, Present
  <1> QED BY <1>1, <1>2, <1>3, <1>4, <1>5

\* What is written in the table of subscriptions.
LEMMA SubscriptionWritten ==
    ASSUME Basics, NEW t \in Threads, AnswerInv(t), pc[t] = "write", Continue(t),
           IsSubscription(form[t]), UNCHANGED <<screens, channels, form, todo>>,
           disturbed'[t] = disturbed[t],
           \A p \in Screens \X Channels : p # Pair(t) => sub'[p] = sub[p],
           Undisturbed(t) => (sub'[Pair(t)] # None <=> cur[t].add)
    PROVE  AnswerInv(t)'
  <1>1. \A e : HasRow(form[t], e)' <=> sub'[<<ScreenOf(form[t], e), ChannelOf(form[t], e)>>] # None
    BY DEF HasRow, IsSubscription, ScreenOf, ChannelOf
  <1>2. \A e : HasRow(form[t], e) <=> sub[<<ScreenOf(form[t], e), ChannelOf(form[t], e)>>] # None
    BY DEF HasRow, IsSubscription
  <1>3. \A d \in form[t].diff : d # cur[t] => (HasRow(form[t], d)' <=> HasRow(form[t], d))
    <2> TAKE d \in form[t].diff
    <2> HAVE d # cur[t]
    <2>1. <<ScreenOf(form[t], d), ChannelOf(form[t], d)>> # Pair(t)
      BY WriteFacts, OwnKeys DEF Pair
    <2>2. <<ScreenOf(form[t], d), ChannelOf(form[t], d)>> \in Screens \X Channels
      BY WriteFacts, PairFacts
    <2> QED BY <1>1, <1>2, <2>1, <2>2
  <1>4. Undisturbed(t) => \A d \in {cur[t]} : HasRow(form[t], d)' <=> d.add
    BY <1>1 DEF Pair
  <1>5. Undisturbed(t) => Present(form[t])'
    BY WriteFacts DEF Present
  <1> QED BY <1>3, <1>4, <1>5, ContinueAnswers

LEMMA InsertAnswers ==
    ASSUME Basics, NEW t \in Threads, AnswerInv(t), InsertSubscription(t)
    PROVE  AnswerInv(t)'
  <1>1. /\ pc[t] = "write" /\ UNCHANGED <<screens, channels, form, todo>> /\ Continue(t)
        /\ IsSubscription(form[t]) /\ cur[t].add /\ disturbed'[t] = disturbed[t]
        /\ sub' = [sub EXCEPT ![Pair(t)] = form[t].user]
    BY DEF InsertSubscription, Writes, Subscribes, Disturb, Basics, Types
  <1>2. form[t].user # None /\ Pair(t) \in Screens \X Channels
    BY <1>1, WriteFacts, FormFacts, SubscriptionsAssumption
  <1>3. /\ \A p \in Screens \X Channels : p # Pair(t) => sub'[p] = sub[p]
        /\ sub'[Pair(t)] # None
    BY <1>1, <1>2 DEF Basics, Types
  <1> QED BY <1>1, <1>3, SubscriptionWritten

LEMMA InsertFailsAnswers ==
    ASSUME Basics, NEW t \in Threads, AnswerInv(t), InsertFails(t)
    PROVE  AnswerInv(t)'
  <1>1. /\ pc[t] = "write" /\ IsSubscription(form[t]) /\ found[t] = "none"
        /\ Pair(t) \in screens \X channels => sub[Pair(t)] # None
        /\ form'[t] = form[t] /\ pc'[t] # "idle" /\ disturbed'[t] = disturbed[t]
    BY DEF InsertFails, Writes, Subscribes, Continue, Answer, Basics, Types, ChecksFirst
  <1>2. ~Undisturbed(t)
    BY <1>1, WriteFacts
  <1> QED BY <1>1, <1>2 DEF AnswerInv, Undisturbed

LEMMA UpdateAnswers ==
    ASSUME Basics, NEW t \in Threads, AnswerInv(t), UpdateSubscription(t)
    PROVE  AnswerInv(t)'
  <1>1. /\ pc[t] = "write" /\ UNCHANGED <<screens, channels, form, todo>> /\ Continue(t)
        /\ IsSubscription(form[t]) /\ cur[t].add /\ disturbed'[t] = disturbed[t]
        /\ sub' = IF found[t] = "row" THEN [sub EXCEPT ![Pair(t)] = form[t].user] ELSE sub
        /\ found[t] # "none"
    BY DEF UpdateSubscription, Writes, Subscribes
  <1>2. form[t].user # None /\ Pair(t) \in Screens \X Channels
    BY <1>1, WriteFacts, FormFacts, SubscriptionsAssumption
  <1>3. Undisturbed(t) => found[t] = "row"
    BY <1>1, WriteFacts
  <1>4. /\ \A p \in Screens \X Channels : p # Pair(t) => sub'[p] = sub[p]
        /\ Undisturbed(t) => sub'[Pair(t)] # None
    BY <1>1, <1>2, <1>3 DEF Basics, Types
  <1> QED BY <1>1, <1>4, SubscriptionWritten

LEMMA DeleteAnswers ==
    ASSUME Basics, NEW t \in Threads, AnswerInv(t), DeleteSubscription(t)
    PROVE  AnswerInv(t)'
  <1>1. /\ pc[t] = "write" /\ UNCHANGED <<screens, channels, form, todo>> /\ Continue(t)
        /\ IsSubscription(form[t]) /\ ~cur[t].add /\ disturbed'[t] = disturbed[t]
        /\ sub' = IF found[t] = "row" THEN [sub EXCEPT ![Pair(t)] = None] ELSE sub
    BY DEF DeleteSubscription, Writes, Disturb, Basics, Types
  <1>2. Pair(t) \in Screens \X Channels
    BY <1>1, WriteFacts
  <1>3. Undisturbed(t) /\ found[t] # "row" => sub[Pair(t)] = None
    BY <1>1, WriteFacts
  <1>4. /\ \A p \in Screens \X Channels : p # Pair(t) => sub'[p] = sub[p]
        /\ Undisturbed(t) => sub'[Pair(t)] = None
    BY <1>1, <1>2, <1>3 DEF Basics, Types
  <1> QED BY <1>1, <1>4, SubscriptionWritten

LEMMA ChangeOwnerAnswers ==
    ASSUME Basics, NEW t \in Threads, AnswerInv(t), ChangeOwner(t)
    PROVE  AnswerInv(t)'
  <1> DEFINE s == form[t].target
             u == cur[t].key
  <1>1. /\ pc[t] = "write" /\ UNCHANGED <<screens, channels, form, todo>> /\ Continue(t)
        /\ form[t].page = "chown" /\ disturbed'[t] = disturbed[t]
    BY DEF ChangeOwner, Writes, Disturb, Basics, Types
  <1>2. s \in Screens /\ u \in Users
    BY <1>1, WriteFacts, FormFacts DEF Target, Keys
  <1>3. owner[s][u] \in Nat
    BY <1>2 DEF Basics, Types
  <1>4. \A x \in Users : x # u => owner'[s][x] = owner[s][x]
    BY <1>2 DEF ChangeOwner, Basics, Types
  <1>5. \A e : HasRow(form[t], e) <=> Owns(e.key, form[t].target)
    BY <1>1 DEF HasRow, IsSubscription
  <1>6. \A e : HasRow(form[t], e)' <=> s \in screens /\ owner'[s][e.key] > 0
    BY <1>1 DEF HasRow, IsSubscription, Owns
  <1>7. \A d \in form[t].diff : d # cur[t] => (HasRow(form[t], d)' <=> HasRow(form[t], d))
    <2> TAKE d \in form[t].diff
    <2> HAVE d # cur[t]
    <2>1. d.key # u /\ d.key \in Users
      BY <1>1, WriteFacts, OwnKeys, FormFacts DEF Keys
    <2> QED BY <1>4, <1>5, <1>6, <2>1 DEF Owns
  <1>8. Undisturbed(t) => s \in screens
    <2>1. Undisturbed(t) => s \in screens \cup channels
      BY <1>1, WriteFacts DEF Present
    <2> QED BY <1>2, <2>1, SubscriptionsAssumption DEF Basics, Types
  <1>9. Undisturbed(t) => \A d \in {cur[t]} : HasRow(form[t], d)' <=> d.add
    <2> SUFFICES ASSUME Undisturbed(t)
                 PROVE  s \in screens /\ owner'[s][u] > 0 <=> cur[t].add
      BY <1>6
    <2>1. CASE ~cur[t].add
      <3>1. owner'[s][u] = 0
        BY <1>2, <2>1 DEF ChangeOwner, Basics, Types
      <3> QED BY <2>1, <3>1
    <2>2. CASE cur[t].add /\ found[t] = "none"
      <3>1. owner'[s][u] = owner[s][u] + 1
        BY <1>2, <1>8, <2>2 DEF ChangeOwner, Basics, Types
      <3> QED BY <1>3, <1>8, <2>2, <3>1
    <2>3. CASE cur[t].add /\ found[t] # "none"
      <3>1. owner'[s][u] = owner[s][u]
        BY <1>2, <2>3 DEF ChangeOwner, Basics, Types
      <3>2. owner[s][u] > 0
        BY <1>1, <1>5, <2>3, WriteFacts DEF Owns
      <3> QED BY <1>8, <2>3, <3>1, <3>2
    <2> QED BY <2>1, <2>2, <2>3
  <1>10. Undisturbed(t) => Present(form[t])'
    BY <1>1, WriteFacts DEF Present
  <1> QED BY <1>1, <1>7, <1>9, <1>10, ContinueAnswers

LEMMA AuthorizeAnswers ==
    ASSUME Basics, NEW t \in Threads, AnswerInv(t), Authorize(t)
    PROVE  AnswerInv(t)'
  <1> DEFINE c == form[t].target
  <1>1. /\ pc[t] = "write" /\ UNCHANGED <<screens, channels, form, todo>> /\ Continue(t)
        /\ form[t].page = "authorize" /\ disturbed'[t] = disturbed[t]
    BY DEF Authorize, Writes, Disturb, Basics, Types
  <1>2. c \in Channels
    BY <1>1, WriteFacts, FormFacts DEF Target
  <1>3. authorized'[c] = IF cur[t].add THEN authorized[c] \cup {cur[t].key}
                                       ELSE authorized[c] \ {cur[t].key}
    BY <1>2 DEF Authorize, Basics, Types
  <1>4. \A e : HasRow(form[t], e) <=> e.key \in authorized[c]
    BY <1>1 DEF HasRow, IsSubscription
  <1>5. \A e : HasRow(form[t], e)' <=> e.key \in authorized'[c]
    BY <1>1 DEF HasRow, IsSubscription
  <1>6. \A d \in form[t].diff : d # cur[t] => (HasRow(form[t], d)' <=> HasRow(form[t], d))
    BY <1>3, <1>4, <1>5, WriteFacts, OwnKeys, <1>1
  <1>7. Undisturbed(t) => /\ \A d \in {cur[t]} : HasRow(form[t], d)' <=> d.add
                          /\ Present(form[t])'
    BY <1>1, <1>3, <1>5, WriteFacts DEF Present
  <1> QED BY <1>1, <1>6, <1>7, ContinueAnswers

\* A deletion has no entries, and a request that is closed leaves nothing applied.
LEMMA EndAnswers ==
    ASSUME Basics, NEW t \in Threads, AnswerInv(t),
           Close(t) \/ DeleteScreen(t) \/ ConfirmDelete(t) \/ DeleteChannel(t)
    PROVE  AnswerInv(t)'
  <1>1. CASE Close(t)
    BY <1>1 DEF Close, AnswerInv, Undisturbed, Basics, Types
  <1>2. CASE DeleteScreen(t) \/ ConfirmDelete(t) \/ DeleteChannel(t)
    <2>1. /\ pc[t] \in {"delete", "destroy"} /\ form'[t] = form[t] /\ pc'[t] # "idle"
          /\ form[t].page \in {"delete_screen", "delete_channel"}
      BY <1>2 DEF DeleteScreen, ConfirmDelete, DeleteChannel, At, Cascade, Basics, Types, Underway
    <2>2. form[t].diff = {}
      BY <2>1, FormFacts DEF Basics, Underway, Keys
    <2> QED BY <2>1, <2>2 DEF AnswerInv, Undisturbed
  <1> QED BY <1>1, <1>2

LEMMA AnswerStep ==
    ASSUME Basics, RowsHold, \A t \in Threads : AnswerInv(t), [Next]_vars
    PROVE  \A t \in Threads : AnswerInv(t)'
  <1> TAKE t \in Threads
  <1>1. CASE UNCHANGED vars
    <2>1. RowsStay(t)
      BY <1>1 DEF vars, tables, RowsStay, Present, HasRow, Owns, ScreenOf, ChannelOf
    <2> QED BY <1>1, <2>1, AnswerStays DEF vars, tables
  <1>2. CASE Acts(t)
    BY <1>2, OpenAnswers, CheckAnswers, SelectAnswers, InsertAnswers, InsertFailsAnswers,
       UpdateAnswers, DeleteAnswers, ChangeOwnerAnswers, AuthorizeAnswers, EndAnswers DEF Acts
  <1>3. CASE \E v \in Threads : v # t /\ Acts(v)
    BY <1>3, OthersAnswer
  <1>4. CASE \E c \in Edited : EditSubscriptionRight(c) \/ TogglePlugin(c)
    BY <1>4, EditsAnswer
  <1> QED BY <1>1, <1>2, <1>3, <1>4 DEF Next, Acts

\* What requests have done and found is theirs to answer, in every state.
LEMMA AnswersHold == Spec => [](Basics /\ RowsHold /\ \A t \in Threads : AnswerInv(t))
  <1>1. Init => \A t \in Threads : AnswerInv(t)
    BY DEF Init, AnswerInv, Undisturbed
  <1>2. Basics /\ RowsHold /\ (\A t \in Threads : AnswerInv(t)) /\ [Next]_vars
            => (\A t \in Threads : AnswerInv(t))'
    BY AnswerStep
  <1> QED BY <1>1, <1>2, BasicsHold, PTL DEF Spec

\* When no other request touched what this one is about, `ok` says that the database holds
\* the whole diff, a refusal by the page of a screen that nothing was written, and only a
\* refused bundle ends in an exception (subscribe_to, unsubscribe_from, safe_add_user).
THEOREM AnswersAreTrue == Spec => []AnswerIsTrue
  <1>1. Basics /\ (\A t \in Threads : AnswerInv(t)) => AnswerIsTrue
    <2> SUFFICES ASSUME Basics, NEW t \in Threads, AnswerInv(t), Undisturbed(t)
                 PROVE  /\ pc[t] = "ok" => \A e \in form[t].diff : Holds(form[t], e)
                        /\ pc[t] \in {"refused", "error"} /\ form[t].page = "screen" => ~applied[t]
                        /\ pc[t] = "error" => /\ form[t].page = "screen"
                                              /\ \E e \in form[t].diff : e.key \in Bundles /\ e.add
      BY DEF AnswerIsTrue, Undisturbed
    <2>1. pc[t] = "ok" => Treated(t) = form[t].diff
      <3>1. \A e \in form[t].diff : e # None
        BY FormFacts DEF Undisturbed, Basics, Underway
      <3> QED BY <3>1 DEF Basics, Underway, Types, Treated
    <2> QED BY <2>1 DEF AnswerInv, Faithful
  <1> QED BY <1>1, AnswersHold, PTL

\* A step that adds an owner who already is one belongs to a request that another one
\* disturbed between its look at the table and its insertion: safe_add_user looks first,
\* and the table has no unique index.
THEOREM OwnersAreCountedOnce == Spec => OwnsOnceUnlessRace
  <1> DEFINE Once == \A s \in Screens, u \in Users :
                        owner'[s][u] > owner[s][u] /\ owner[s][u] > 0 =>
                            \E t \in Threads : pc[t] = "write" /\ disturbed[t]
  <1>1. Basics /\ (\A t \in Threads : AnswerInv(t)) /\ [Next]_vars => Once
    <2> SUFFICES ASSUME Basics, \A t \in Threads : AnswerInv(t), [Next]_vars,
                        NEW s \in Screens, NEW u \in Users,
                        owner'[s][u] > owner[s][u], owner[s][u] > 0
                 PROVE  \E t \in Threads : pc[t] = "write" /\ disturbed[t]
      OBVIOUS
    <2>1. owner[s][u] \in Nat /\ owner'[s][u] # owner[s][u] /\ owner'[s][u] # 0
      <3>1. owner[s][u] \in Nat
        BY DEF Basics, Types
      <3>2. owner'[s][u] # owner[s][u]
        BY <3>1
      <3>3. owner'[s][u] # 0
        BY <3>1
      <3> QED BY <3>1, <3>2, <3>3
    <2>2. PICK t \in Threads : ChangeOwner(t) \/ DeleteScreen(t)
      BY <2>1 DEF Next, vars, tables, Open, Check, Select, InsertSubscription, InsertFails,
         UpdateSubscription, DeleteSubscription, Authorize, Close, ConfirmDelete, DeleteChannel,
         EditSubscriptionRight, TogglePlugin
    <2>3. ~DeleteScreen(t)
      BY <2>1 DEF DeleteScreen, Basics, Types
    <2>4. pc[t] = "write" /\ form[t].page = "chown"
      BY <2>2, <2>3 DEF ChangeOwner, Writes
    <2>5. form[t] \in Forms /\ cur[t] \in form[t].diff
      BY <2>4, WriteFacts
    <2>6. form[t].target \in Screens /\ cur[t].key \in Users
      BY <2>4, <2>5, FormFacts DEF Target, Keys
    <2>7. form[t].target = s /\ cur[t].key = u /\ found[t] = "none" /\ form[t].target \in screens
      BY <2>1, <2>2, <2>3, <2>6 DEF ChangeOwner, Basics, Types
    <2>8. HasRow(form[t], cur[t])
      BY <2>4, <2>7 DEF HasRow, Owns
    <2>9. ~Undisturbed(t)
      BY <2>4, <2>7, <2>8, WriteFacts
    <2> QED BY <2>4, <2>5, <2>9 DEF Undisturbed
  <1>2. Basics /\ (\A t \in Threads : AnswerInv(t)) /\ [Next]_vars => [Once]_vars
    BY <1>1
  <1> QED BY <1>2, AnswersHold, PTL DEF Spec, OwnsOnceUnlessRace
=============================================================================
