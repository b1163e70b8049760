---------------------------- MODULE MCAdministration ----------------------------
(***************************************************************************)
(* Small instances of Catalogue, Plugins, WebSession and EmailDigester for *)
(* TLC: the rows that the forms of administrators write, the routes that   *)
(* follow the rows of channels, the cookie that overlapping requests       *)
(* write, and the mails that users receive.  They share no state: one of   *)
(* them moves, and the others stay in their initial state.                 *)
(***************************************************************************)
EXTENDS Catalogue, Plugins, WebSession, EmailDigester, TLC

CONSTANTS n1, n2, hall, lab, s1, s2, k1, k2, m1, public, restricted

R(n, in) == [name |-> n, in |-> in]
MCInitial == hall :> R(n1, None) @@ lab :> R(n2, None) @@ s1 :> R(n1, hall) @@ k1 :> R(n1, public) @@ k2 :> R(n2, public)

F(action, id, news, macs) == [action : {action}, id : {id}, new : news, macs : macs]
MCForms ==
    UNION {F("create", s2, {R(n2, hall)}, {{m1}}),
           F("edit", s1, {R(n1, hall)}, {{m1}}),
           F("edit", s2, {R(n1, hall)}, {{}}), F("edit", s2, {R(n2, lab)}, {{m1}}),
           F("delete", s1, {R(n1, hall)}, {{}}),
           F("edit", lab, {R(n1, None)}, {{}}), F("delete", lab, {R(n2, None)}, {{}}),
           F("edit", k1, {R(n1, restricted), R(n2, public)}, {{}})}

VARIABLE part      \* the component that moves

MCInit ==
    /\ part \in {"forms", "session", "plugins", "digests"}
    /\ CatalogueInit /\ SessionInit /\ PluginsInit /\ Init

MCNext ==
    \/ /\ part = "forms" /\ CatalogueNext
       /\ UNCHANGED <<part, sessionVars, pluginVars, vars>>
    \/ /\ part = "session" /\ SessionNext
       /\ UNCHANGED <<part, catalogueVars, pluginVars, vars>>
    \/ /\ part = "plugins" /\ PluginsNext
       /\ UNCHANGED <<part, catalogueVars, sessionVars, vars>>
    \/ /\ part = "digests" /\ Next
       /\ UNCHANGED <<part, catalogueVars, sessionVars, pluginVars>>

MCSpec == MCInit /\ [][MCNext]_<<part, catalogueVars, sessionVars, pluginVars, vars>>

\* The configuration gives threads, tabs and workers the same names, and accounts, plugins
\* and users too.
Symmetry ==
    Permutations(Threads \cup Tabs \cup Workers) \cup Permutations(Accounts \cup PluginNames \cup Users)
=============================================================================
