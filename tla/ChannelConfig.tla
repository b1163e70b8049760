---------------------------- MODULE ChannelConfig ----------------------------
(***************************************************************************)
(* The parameters of a channel and who may change them: the `configure`    *)
(* form of ictv/pages/channels_page.py, the `reset-config` form of         *)
(* ictv/pages/channel_page.py, and the `configure` form of                 *)
(* ictv/pages/plugins_page.py, which gives the rights on each parameter    *)
(* (ictv/models/plugin_param_access_rights.py).                            *)
(*                                                                         *)
(* The parameters are one column of the row of the channel: a request      *)
(* reads it once and writes it whole.  The rights are a row for each       *)
(* parameter, read when they are needed, and written column by column.     *)
(***************************************************************************)
EXTENDS Naturals, Sequences

CONSTANTS
    Order,          \* the parameters of the plugin, in the order of its channels_params
    Default,        \* Default[p]: its value where a channel has none, or Unset
    Unset,
    Ignored,        \* an entry of a form: the field is missing or the number out of range
    Unparsable,     \* an entry of a form: not a number, for a parameter that is one
    Editors,        \* request threads
    Requesters,     \* bound: the levels of those who send the forms of the channel
    ConfigForms,          \* bound: what the form of a channel may hold, for each parameter
    RightsForms     \* bound: what the form of the plugin may hold

GrantedLevels == {"channel_contributor", "channel_administrator", "administrator"}

Params == {Order[i] : i \in DOMAIN Order}

ASSUME ConfigAssumption ==
    /\ Order \in Seq(Params)
    /\ \A f \in ConfigForms, p \in Params : f[p] # Unset

VARIABLES
    config,     \* the column plugin_config of the channel; Unset: the key is not there
    rights,     \* rights[p][l]: the columns of level l, "read" and "write", in the row of p
    doing,      \* what the request of a thread does; "saved", "refused": how the last ended
    request,    \* what it knows
    overtaken   \* history: threads since the start of whose request another one has changed
                \* the rights or the parameters

configVars == <<config, rights, doing, request, overtaken>>

NoRequest == [kind |-> "none"]
Rests == {"idle", "saved", "refused"}

\* The defaults of PluginParamAccessRights.
DefaultRights ==
    [p \in Params |-> [l \in GrantedLevels |->
        [read |-> l # "channel_contributor", write |-> l = "administrator"]]]

ConfigInit ==
    /\ config = [p \in Params |-> Unset]
    /\ rights = DefaultRights
    /\ doing = [t \in Editors |-> "idle"]
    /\ request = [t \in Editors |-> NoRequest]
    /\ overtaken = {}

\* get_config_param
Effective(row, p) == IF row[p] = Unset THEN Default[p] ELSE row[p]

\* get_access_rights_for
AccessRights(p, l) ==
    IF l = "super_administrator" THEN [read |-> TRUE, write |-> TRUE] ELSE rights[p][l]

Goes(t, from, to) == doing[t] = from /\ doing' = [doing EXCEPT ![t] = to]

\* A request arrives.
Begins(t, to, r) ==
    /\ \E from \in Rests : Goes(t, from, to)
    /\ request' = [request EXCEPT ![t] = r]
    /\ overtaken' = overtaken \ {t}
    /\ UNCHANGED <<config, rights>>

\* History: t has changed the rights or the parameters.
Disturbs(t) ==
    overtaken' = IF <<config, rights>>' = <<config, rights>> THEN overtaken
                                                            ELSE overtaken \cup (Editors \ {t})

-----------------------------------------------------------------------------
(* The forms of a channel, for a user whose level on it is l. *)

Configure(t, l, f) ==
    Begins(t, "rights", [kind |-> "configure", level |-> l, form |-> f, row |-> config,
                         allowed |-> {}, todo |-> Order])

\* `all`, or one parameter.
ResetConfig(t, l, all, params) ==
    Begins(t, "rights", [kind |-> "reset", level |-> l, form |-> [p \in Params |-> Unset],
                         row |-> config, allowed |-> {}, todo |-> params, all |-> all])

Grants(r, p) ==
    LET access == AccessRights(p, r.level) IN
    access.write /\ (r.kind = "reset" => access.read)

\* The rights on one parameter; one that is reset is taken out, to be saved at once.
ReadRights(t) ==
    LET r == request[t]
        p == Head(r.todo)
        granted == Grants(r, p)
        after == [r EXCEPT !.todo = Tail(@), !.allowed = IF granted THEN @ \cup {p} ELSE @]
    IN
    /\ doing[t] = "rights" /\ r.todo # <<>>
    /\ Goes(t, "rights", IF r.kind = "reset" /\ granted THEN "save" ELSE "rights")
    /\ request' = [request EXCEPT ![t] =
            IF r.kind = "reset" /\ granted THEN [after EXCEPT !.row[p] = Unset] ELSE after]
    /\ UNCHANGED <<config, rights, overtaken>>

\* All of them are known.  To reset one parameter without the right to is forbidden; to reset
\* all of them is not.  Of a configuration, the fields that the user may write are converted,
\* and the options that a super administrator gives are stored, one of which may not be a number.
RightsRead(t) ==
    LET r == request[t] IN
    /\ doing[t] = "rights" /\ r.todo = <<>>
    /\ \/ /\ r.kind = "reset"
          /\ Goes(t, "rights", IF r.all \/ r.allowed # {} THEN "saved" ELSE "refused")
       \/ /\ r.kind = "configure"
          /\ \/ /\ \A p \in r.allowed : r.form[p] # Unparsable
                /\ Goes(t, "rights", "save")
             \/ /\ \/ \E p \in r.allowed : r.form[p] = Unparsable
                   \/ r.level = "super_administrator"
                /\ Goes(t, "rights", "refused")
    /\ UNCHANGED <<config, rights, request, overtaken>>

\* Mutant of Merged: the rights of the user are not looked at.
MergedAll(r) ==
    [p \in Params |->
        IF r.form[p] \notin {Ignored, Unset} /\ Effective(r.row, p) # r.form[p]
        THEN r.form[p] ELSE r.row[p]]

\* Mutant of Merged: a value that is the default one is not stored.
MergedUnlessDefault(r) ==
    [p \in Params |->
        IF p \in r.allowed /\ r.form[p] \notin {Ignored, Unset} /\ Default[p] # r.form[p]
        THEN r.form[p] ELSE r.row[p]]

\* A value that is the effective one is not stored.
Merged(r) ==
    [p \in Params |->
        IF p \in r.allowed /\ r.form[p] \notin {Ignored, Unset} /\ Effective(r.row, p) # r.form[p]
        THEN r.form[p] ELSE r.row[p]]

\* The whole column.  What the plugin then says of the new parameters changes the answer
\* only.
Save(t) ==
    LET r == request[t] IN
    /\ Goes(t, "save", IF r.kind = "reset" THEN "rights" ELSE "saved")
    /\ config' = Merged(r)
    /\ UNCHANGED <<rights, request>>
    /\ Disturbs(t)

-----------------------------------------------------------------------------
(* The form of the plugin. *)

\* The columns in the order in which they are written, and the field that each is given.
\* administrator_read is not written: its field goes to administrator_write.
Columns ==
    << <<"channel_contributor", "read", "read">>, <<"channel_contributor", "write", "write">>,
       <<"channel_administrator", "read", "read">>, <<"channel_administrator", "write", "write">>,
       <<"administrator", "write", "read">>, <<"administrator", "write", "write">> >>

ConfigurePlugin(t, f) ==
    Begins(t, "columns", [kind |-> "plugin", form |-> f, todo |-> Order, at |-> 1])

WriteColumn(t) ==
    LET r == request[t]
        p == Head(r.todo)
        column == Columns[r.at]
    IN
    /\ doing[t] = "columns" /\ r.todo # <<>>
    /\ rights' = [rights EXCEPT ![p][column[1]][column[2]] = r.form[p][column[1]][column[3]]]
    /\ request' = [request EXCEPT ![t] =
            IF r.at < Len(Columns) THEN [r EXCEPT !.at = @ + 1]
                                   ELSE [r EXCEPT !.at = 1, !.todo = Tail(@)]]
    /\ UNCHANGED <<config, doing>>
    /\ Disturbs(t)

\* With a validity that is a number, or not.
PluginConfigured(t) ==
    /\ doing[t] = "columns" /\ request[t].todo = <<>>
    /\ \E answer \in {"saved", "refused"} : Goes(t, "columns", answer)
    /\ UNCHANGED <<config, rights, request, overtaken>>

ConfigNext ==
    \E t \in Editors :
        \/ \E l \in Requesters :
            \/ \E f \in ConfigForms : Configure(t, l, f)
            \/ ResetConfig(t, l, TRUE, Order)
            \/ \E p \in Params : ResetConfig(t, l, FALSE, <<p>>)
        \/ \E f \in RightsForms : ConfigurePlugin(t, f)
        \/ ReadRights(t) \/ RightsRead(t) \/ WriteColumn(t)
        \/ Save(t)
        \/ PluginConfigured(t)

ConfigSpec == ConfigInit /\ [][ConfigNext]_configVars

-----------------------------------------------------------------------------
(* Properties. *)

\* A parameter is changed by a request of a user who has the right to write it, as the rights
\* then are: unless another request has changed rights or parameters since that one began,
\* which may then write an old value back without any right to.
ParametersAreWrittenByRight ==
    [][\A p \in Params : config'[p] # config[p] =>
        \E t \in Editors :
            /\ doing[t] = "save" /\ doing'[t] # "save"
            /\ AccessRights(p, request[t].level).write \/ t \in overtaken]_configVars

\* Whatever other requests do before it begins, one that has been saved leaves each parameter
\* that its user may write with the value of the form, those of others as they were, and one
\* that was refused leaves all as they were; until another one changes the rights or the
\* parameters.
ConfigIsAsAnswered ==
    \A t \in Editors \ overtaken :
        LET r == request[t]
            Asked(p) == p \in r.allowed /\ r.form[p] # Ignored
        IN
        /\ r.kind \in {"configure", "reset"} /\ doing[t] = "saved" =>
            \A p \in Params :
                /\ p \in r.allowed => AccessRights(p, r.level).write
                /\ IF Asked(p) THEN Effective(config, p) = Effective(r.form, p)
                               ELSE config[p] = r.row[p]
        /\ r.kind \in {"configure", "reset"} /\ doing[t] = "refused" => config = r.row
=============================================================================
