------------------------------ MODULE Catalogue ------------------------------
(***************************************************************************)
(* The forms by which administrators create, edit and delete buildings     *)
(* (ictv/pages/buildings_page.py), screens with their MAC addresses        *)
(* (screens_page.py) and channels (channels_page.py).                      *)
(*                                                                         *)
(* A form takes several SQL statements, each of which commits on its own,  *)
(* and any of which the database may refuse: a name is unique among        *)
(* buildings and among channels, the pair of a name and a building among   *)
(* screens, a MAC address among all, and a building with screens stays.    *)
(* What was written before a refusal remains.  Requests interleave.        *)
(***************************************************************************)
EXTENDS FiniteSets

CONSTANTS
    Buildings, Screens, Channels,   \* identifiers of rows
    Names, Macs,
    Rights,     \* the subscription rights of channels, for all they say but their name
    Threads,    \* request threads
    None,       \* no such row
    Gone,       \* a row that was deleted, whose identifier is not used again
    Initial,    \* the identifiers in use at first, with their rows
    Forms       \* bound: the forms that are sent

Ids == Buildings \cup Screens \cup Channels

\* A row: its name, with the building of a screen or the right of a channel.
Row == [name : Names, in : Buildings \cup Rights \cup {None}]

Form == [action : {"create", "edit", "delete"}, id : Ids, new : Row, macs : SUBSET Macs]

\* The unique indexes: the row r at i and the row q at j cannot both be there.
Clash(i, r, j, q) ==
    /\ i # j
    /\ \/ {i, j} \subseteq Screens /\ r = q
       \/ \E S \in {Buildings, Channels} : {i, j} \subseteq S /\ r.name = q.name

\* Tables have their identifiers, and the database keeps its constraints from the start.
ASSUME CatalogueAssumption ==
    /\ Buildings \cap Screens = {} /\ Channels \cap (Buildings \cup Screens) = {}
    /\ DOMAIN Initial \subseteq Ids /\ \A i \in DOMAIN Initial : Initial[i] \in Row
    /\ \A i, j \in DOMAIN Initial : ~Clash(i, Initial[i], j, Initial[j])
    /\ \A i \in DOMAIN Initial : i \in Screens => Initial[i].in \in Buildings \cap DOMAIN Initial
    /\ Forms \subseteq Form
    /\ {None, Gone} \cap (Row \cup Ids \cup Form) = {} /\ None # Gone
    /\ \A f \in Forms : /\ f.id \in Screens => f.new.in \in Buildings
                        /\ f.id \notin Screens => f.macs = {}
                        /\ f.action = "delete" => f.id \notin Channels

VARIABLES
    row,        \* row[i], for each identifier
    mac,        \* mac[m]: the screen that has it, or None
    pc, form,   \* of a thread: its next step, and the form it was sent
    before,     \* the row of its form when the request began
    remove, add,    \* the MAC addresses that it has still to remove and to add
    disturbed   \* history: another request wrote what this one is about

catalogueVars == <<row, mac, pc, form, before, remove, add, disturbed>>

CatalogueInit ==
    /\ row = [i \in Ids |-> IF i \in DOMAIN Initial THEN Initial[i] ELSE None]
    /\ mac = [m \in Macs |-> None]
    /\ pc = [t \in Threads |-> "idle"]
    /\ form = [t \in Threads |-> None] /\ before = [t \in Threads |-> None]
    /\ remove = [t \in Threads |-> {}] /\ add = [t \in Threads |-> {}]
    /\ disturbed = [t \in Threads |-> FALSE]

-----------------------------------------------------------------------------
(* The database. *)

Live(i) == row[i] \notin {None, Gone}

MacsOf(s) == {m \in Macs : mac[m] = s}

ScreensIn(b) == {s \in Screens : Live(s) /\ row[s].in = b}

\* What the unique indexes say to a row r at i.
Taken(i, r) == \E j \in Ids : Live(j) /\ Clash(i, r, j, row[j])

\* The foreign key of screens.
Orphan(i, r) == i \in Screens /\ ~Live(r.in)

Disturb(t, objects, building) ==
    disturbed' = [v \in Threads |->
        disturbed[v] \/ /\ v # t /\ form[v] # None
                        /\ \/ objects \cap ({form[v].id, form[v].new.in} \cup form[v].macs) # {}
                           \/ form[v].action = "delete" /\ form[v].id = building]

Moves(t, from, to) == pc[t] = from /\ pc' = [pc EXCEPT ![t] = to]

\* The statement of t that gives its row the value r: what follows it, or its refusal.  An
\* UPDATE of a row that is gone does nothing.
Write(t, from, r, next, refused) ==
    LET i == form[t].id IN
    IF row[i] = Gone THEN Moves(t, from, next) /\ UNCHANGED <<row, disturbed>>
    ELSE IF Taken(i, r) \/ Orphan(i, r)
    THEN /\ Moves(t, from, IF Taken(i, r) THEN refused ELSE "error")
         /\ UNCHANGED <<row, disturbed>>
    ELSE /\ Moves(t, from, next)
         /\ row' = [row EXCEPT ![i] = r]
         /\ Disturb(t, {i}, r.in)

-----------------------------------------------------------------------------
(* Requests. *)

Open(t, f) ==
    /\ IF f.action = "create"
       THEN row[f.id] = None /\ \A v \in Threads : form[v] # None => form[v].id # f.id
       ELSE Live(f.id)
    /\ f.id \in Screens /\ f.action # "delete" => Live(f.new.in)
    /\ Moves(t, "idle", f.action)
    /\ form' = [form EXCEPT ![t] = f]
    /\ before' = [before EXCEPT ![t] = row[f.id]]
    /\ UNCHANGED <<row, mac, remove, add, disturbed>>

Create(t) ==
    /\ pc[t] = "create"
    /\ Write(t, "create", form[t].new, IF form[t].id \in Screens THEN "macs" ELSE "ok", "taken")
    /\ UNCHANGED <<mac, form, before, remove, add>>

\* A building, or a channel: it is written at once.  A channel whose name is taken is then
\* written again as it was when the request read it,
Edit(t) ==
    /\ pc[t] = "edit" /\ form[t].id \notin Screens
    /\ Write(t, "edit", form[t].new, "ok",
             IF form[t].id \in Channels THEN "rollback" ELSE "taken")
    /\ UNCHANGED <<mac, form, before, remove, add>>

\* and this may be refused as well.
Rollback(t) ==
    /\ pc[t] = "rollback"
    /\ Write(t, "rollback", before[t], "taken", "error")
    /\ UNCHANGED <<mac, form, before, remove, add>>

\* A screen: its name,
EditName(t) ==
    /\ pc[t] = "edit" /\ form[t].id \in Screens
    /\ Write(t, "edit", [row[form[t].id] EXCEPT !.name = form[t].new.name], "building", "taken")
    /\ UNCHANGED <<mac, form, before, remove, add>>

\* then its building,
EditBuilding(t) ==
    /\ pc[t] = "building"
    /\ Write(t, "building", [row[form[t].id] EXCEPT !.in = form[t].new.in], "macs", "taken")
    /\ UNCHANGED <<mac, form, before, remove, add>>

\* Mutant of ReadMacs: addresses that are not in the form are kept.
KeepMacs(t) ==
    /\ Moves(t, "macs", "remove")
    /\ add' = [add EXCEPT ![t] = form[t].macs \ MacsOf(form[t].id)]
    /\ UNCHANGED <<row, mac, form, before, remove, disturbed>>

\* then its addresses: those it has are compared with those of the form,
ReadMacs(t) ==
    /\ Moves(t, "macs", "remove")
    /\ remove' = [remove EXCEPT ![t] = MacsOf(form[t].id) \ form[t].macs]
    /\ add' = [add EXCEPT ![t] = form[t].macs \ MacsOf(form[t].id)]
    /\ UNCHANGED <<row, mac, form, before, disturbed>>

\* removed, from the screen that has them now,
RemoveMac(t, m) ==
    /\ m \in remove[t]
    /\ Moves(t, "remove", IF mac[m] = None THEN "error" ELSE "remove")
    /\ mac' = [mac EXCEPT ![m] = None]
    /\ remove' = [remove EXCEPT ![t] = @ \ {m}]
    /\ Disturb(t, {m, mac[m], form[t].id}, None)
    /\ UNCHANGED <<row, form, before, add>>

\* and added, until one is another screen's.
AddMac(t, m) ==
    /\ m \in add[t] /\ remove[t] = {}
    /\ IF mac[m] # None \/ ~Live(form[t].id)
       THEN /\ Moves(t, "remove", IF mac[m] # None THEN "mac" ELSE "error")
            /\ UNCHANGED <<mac, disturbed>>
       ELSE /\ Moves(t, "remove", "remove")
            /\ mac' = [mac EXCEPT ![m] = form[t].id]
            /\ Disturb(t, {m, mac[m], form[t].id}, None)
    /\ add' = [add EXCEPT ![t] = @ \ {m}]
    /\ UNCHANGED <<row, form, before, remove>>

MacsDone(t) ==
    /\ remove[t] = {} /\ add[t] = {}
    /\ Moves(t, "remove", "ok")
    /\ UNCHANGED <<row, mac, form, before, remove, add, disturbed>>

\* A building is deleted if no screen is in it,
CountScreens(t) ==
    /\ pc[t] = "delete" /\ form[t].id \in Buildings
    /\ Moves(t, "delete", IF ScreensIn(form[t].id) # {} THEN "refused" ELSE "destroy")
    /\ UNCHANGED <<row, mac, form, before, remove, add, disturbed>>

\* which the database checks again;
DeleteBuilding(t) ==
    /\ pc[t] = "destroy"
    /\ IF ScreensIn(form[t].id) # {}
       THEN Moves(t, "destroy", "error") /\ UNCHANGED <<row, disturbed>>
       ELSE /\ Moves(t, "destroy", "ok")
            /\ row' = [row EXCEPT ![form[t].id] = Gone]
            /\ Disturb(t, {form[t].id}, None)
    /\ UNCHANGED <<mac, form, before, remove, add>>

\* a screen, with its addresses.
DeleteScreen(t) ==
    /\ pc[t] = "delete" /\ form[t].id \in Screens
    /\ Moves(t, "delete", "ok")
    /\ row' = [row EXCEPT ![form[t].id] = Gone]
    /\ mac' = [m \in Macs |-> IF mac[m] = form[t].id THEN None ELSE mac[m]]
    /\ Disturb(t, {form[t].id}, None)
    /\ UNCHANGED <<form, before, remove, add>>

Answered(t) == pc[t] \in {"ok", "taken", "mac", "refused", "error"}

Close(t) ==
    /\ Answered(t)
    /\ pc' = [pc EXCEPT ![t] = "idle"]
    /\ form' = [form EXCEPT ![t] = None] /\ before' = [before EXCEPT ![t] = None]
    /\ remove' = [remove EXCEPT ![t] = {}] /\ add' = [add EXCEPT ![t] = {}]
    /\ disturbed' = [disturbed EXCEPT ![t] = FALSE]
    /\ UNCHANGED <<row, mac>>

-----------------------------------------------------------------------------

CatalogueNext ==
    \E t \in Threads :
        \/ \E f \in Forms : Open(t, f)
        \/ Create(t) \/ Edit(t) \/ Rollback(t) \/ EditName(t) \/ EditBuilding(t)
        \/ ReadMacs(t) \/ MacsDone(t)
        \/ \E m \in Macs : RemoveMac(t, m) \/ AddMac(t, m)
        \/ CountScreens(t) \/ DeleteBuilding(t) \/ DeleteScreen(t) \/ Close(t)

CatalogueSpec == CatalogueInit /\ [][CatalogueNext]_catalogueVars

-----------------------------------------------------------------------------
(* Properties. *)

\* What the database holds when a form is answered, if no other request wrote the same row,
\* the same addresses or the building meanwhile.  `ok`: what the form says.  A name that is
\* taken: what was there before, but for a screen that should have changed both its name
\* and its building, which keeps its new name in its old building.  An address that is
\* taken: the screen is saved all the same.  And no exception.
SavedAsAnswered ==
    \A t \in Threads : Answered(t) /\ form[t].action # "delete" /\ ~disturbed[t] =>
        LET now == row[form[t].id]  new == form[t].new  old == before[t] IN
        /\ pc[t] # "error"
        /\ pc[t] \in {"ok", "mac"} => now = new
        /\ pc[t] = "ok" /\ form[t].id \in Screens => MacsOf(form[t].id) = form[t].macs
        /\ pc[t] = "taken" =>
               \/ now = old
               \/ /\ form[t].id \in Screens /\ form[t].action = "edit"
                  /\ new.name # old.name /\ new.in # old.in
                  /\ now = [old EXCEPT !.name = new.name]

\* A screen loses an address by a form about that screen only, unless somebody changed the
\* addresses of the screen of the form after it had read them.
OthersKeepTheirMacs ==
    [][\A m \in Macs : mac[m] # None /\ mac'[m] # mac[m] =>
            \E t \in Threads : /\ pc[t] # "idle"
                               /\ form[t].id = mac[m] \/ disturbed[t]
                               /\ form[t].id \in Screens]_catalogueVars
=============================================================================
