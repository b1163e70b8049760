------------------------------ MODULE Processors ------------------------------
(***************************************************************************)
(* What is run around each request (FrankenFlask, in                       *)
(* ictv/flask/migration_adapter.py): the processors that the application   *)
(* registers when it starts, and that are applied to it and to the web     *)
(* applications of plugins, which request threads mount.                   *)
(*                                                                         *)
(* Processors before and after requests and handlers of errors have each   *)
(* their list, and the same code: one list stands for the three.  Two      *)
(* processors applied in the wrong order, or twice, do harm: the           *)
(* authentication comes first, and rotate_feedbacks loses the messages of  *)
(* the request when it is run again.                                       *)
(***************************************************************************)
EXTENDS Naturals, Sequences

CONSTANTS
    Given,      \* the processors that main registers, in its order
    Cascading,  \* those that are for the web applications too
    Routes,     \* the channels that are given one
    Instances,  \* bound: the instances that are made of the web application of the plugin
    Mounters,   \* request threads
    NoInstance

Core == "core"
Apps == {Core} \cup Instances

ASSUME ProcessorsAssumption ==
    /\ NoInstance \notin Apps /\ Core \notin Instances
    /\ Given \in Seq({Given[i] : i \in DOMAIN Given})

VARIABLES
    list,       \* list[a]: pre_processors of the application a, in order: [name, applied]
    running,    \* running[a]: what Flask runs around each request of a
    dispatching,    \* main has applied the processors of the core and serves requests
    instance,   \* plugins_apps: the instance in use, or NoInstance
    appset,     \* the instances that have been given their processors
    mounted,    \* plugins: the instance that serves each route, or NoInstance
    at,         \* what a thread does: "idle", "get", "make" an instance, "register" or
                \* "apply" its processors, "mount" it
    job,        \* its route, its instance, and the index of its next processor
    together    \* history: instances that two threads have registered or applied at once

mounterVars == <<at, job>>
processorVars == <<list, running, dispatching, instance, appset, mounted, mounterVars, together>>

NoJob == [route |-> NoInstance, app |-> NoInstance, next |-> 1]
Registered(p) == [name |-> p, applied |-> FALSE]

\* main has registered the processors, in order.
ProcessorsInit ==
    /\ list = [a \in Apps |-> IF a = Core THEN [i \in DOMAIN Given |-> Registered(Given[i])]
                                          ELSE <<>>]
    /\ running = [a \in Apps |-> <<>>]
    /\ dispatching = FALSE
    /\ instance = NoInstance /\ appset = {}
    /\ mounted = [r \in Routes |-> NoInstance]
    /\ at = [t \in Mounters |-> "idle"] /\ job = [t \in Mounters |-> NoJob]
    /\ together = {}

Moves(t, from, to) == at[t] = from /\ at' = [at EXCEPT ![t] = to]

\* get_app_dispatcher, the last step of main, which one thread runs: each processor of the
\* core that is not applied yet is applied.  The instances in appset have no processor left.
Dispatch ==
    /\ ~dispatching /\ dispatching' = TRUE
    /\ running' = [running EXCEPT ![Core] =
            @ \o [i \in DOMAIN list[Core] |-> list[Core][i].name]]
    /\ list' = [list EXCEPT ![Core] = [i \in DOMAIN @ |-> [@[i] EXCEPT !.applied = TRUE]]]
    /\ UNCHANGED <<instance, appset, mounted, mounterVars, together>>

-----------------------------------------------------------------------------
(* add_mapping: get_plugin_webapp, then register_plugin. *)

\* main adds the mappings of the channels before it dispatches, and has one thread.
MapRoute(t, r) ==
    /\ dispatching \/ \A u \in Mounters : at[u] = "idle"
    /\ Moves(t, "idle", IF instance = NoInstance THEN "make" ELSE "get")
    /\ job' = [job EXCEPT ![t] = [NoJob EXCEPT !.route = r]]
    /\ UNCHANGED <<list, running, dispatching, instance, appset, mounted, together>>

\* The module was not there when the thread looked: it stores an instance.
Make(t, a) ==
    /\ a # instance /\ list[a] = <<>> /\ \A u \in Mounters : job[u].app # a
    /\ Moves(t, "make", "get")
    /\ instance' = a
    /\ UNCHANGED <<list, running, dispatching, appset, mounted, job, together>>

\* History: another thread is still to add a to appset.
Together(t, a) ==
    together' = IF \E u \in Mounters \ {t} : job[u].app = a THEN together \cup {a} ELSE together

\* Mutant of Enter: the processors are registered for each mapping.
EnterAnyway(t) ==
    /\ Moves(t, "get", "register")
    /\ job' = [job EXCEPT ![t].app = instance]
    /\ Together(t, instance)
    /\ UNCHANGED <<list, running, dispatching, instance, appset, mounted>>

\* The instance, and `if app not in self.appset`.
Enter(t) ==
    /\ Moves(t, "get", IF instance \in appset THEN "mount" ELSE "register")
    /\ job' = [job EXCEPT ![t].app = instance]
    /\ IF instance \in appset THEN UNCHANGED together ELSE Together(t, instance)
    /\ UNCHANGED <<list, running, dispatching, instance, appset, mounted>>

Advance(t) == job' = [job EXCEPT ![t].next = @ + 1]

\* The next processor of the core, registered in the instance when it cascades.
Register(t) ==
    LET p == list[Core][job[t].next].name IN
    /\ at[t] = "register" /\ job[t].next \in DOMAIN list[Core]
    /\ list' = IF p \in Cascading THEN [list EXCEPT ![job[t].app] = Append(@, Registered(p))]
                                  ELSE list
    /\ Advance(t)
    /\ UNCHANGED <<running, dispatching, instance, appset, mounted, at, together>>

AllRegistered(t) ==
    /\ job[t].next \notin DOMAIN list[Core]
    /\ Moves(t, "register", "apply")
    /\ job' = [job EXCEPT ![t].next = 1]
    /\ UNCHANGED <<list, running, dispatching, instance, appset, mounted, together>>

\* The next processor of the instance, unless its flag says that it is applied.
Apply(t) ==
    LET a == job[t].app
        i == job[t].next
    IN
    /\ at[t] = "apply" /\ i \in DOMAIN list[a]
    /\ list' = [list EXCEPT ![a][i].applied = TRUE]
    /\ running' = IF list[a][i].applied THEN running
                  ELSE [running EXCEPT ![a] = Append(@, list[a][i].name)]
    /\ Advance(t)
    /\ UNCHANGED <<dispatching, instance, appset, mounted, at, together>>

AllApplied(t) ==
    /\ Moves(t, "apply", "mount")
    /\ job[t].next \notin DOMAIN list[job[t].app]
    /\ UNCHANGED <<list, running, dispatching, instance, appset, mounted, job, together>>

\* plugins[route] = app, then appset.add(app).
Mount(t) ==
    /\ Moves(t, "mount", "add")
    /\ mounted' = [mounted EXCEPT ![job[t].route] = job[t].app]
    /\ UNCHANGED <<list, running, dispatching, instance, appset, job, together>>

Remember(t) ==
    /\ Moves(t, "add", "idle")
    /\ appset' = appset \cup {job[t].app}
    /\ job' = [job EXCEPT ![t] = NoJob]
    /\ UNCHANGED <<list, running, dispatching, instance, mounted, together>>

ProcessorsNext ==
    \/ Dispatch
    \/ \E t \in Mounters :
        \/ \E r \in Routes : MapRoute(t, r)
        \/ \E a \in Instances : Make(t, a)
        \/ Enter(t) \/ Register(t) \/ AllRegistered(t) \/ Apply(t) \/ AllApplied(t)
        \/ Mount(t) \/ Remember(t)

ProcessorsSpec == ProcessorsInit /\ [][ProcessorsNext]_processorVars

-----------------------------------------------------------------------------
(* Properties. *)

\* The sequence s is, in the order of main, those of its first n processors that cascade.
Selected(s, n) ==
    \E place \in [DOMAIN s -> 1 .. n] :
        /\ \A i, j \in DOMAIN s : i < j => place[i] < place[j]
        /\ \A i \in DOMAIN s : s[i] = Given[place[i]]
        /\ \A k \in 1 .. n : Given[k] \in Cascading <=> \E i \in DOMAIN s : place[i] = k

\* A request that is routed to a web application goes through each of the processors for it,
\* once and in the order of main, however many channels the application is mounted for and
\* by whom: unless two threads gave it its processors at once.
MountedAppsAreGuarded ==
    /\ dispatching => running[Core] = Given
    /\ \A r \in Routes :
        mounted[r] \notin together \cup {NoInstance} =>
            Selected(running[mounted[r]], Len(Given))
=============================================================================
