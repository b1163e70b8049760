----------------------------- MODULE SlideFilter -----------------------------
(***************************************************************************)
(* The slides of a channel whose text is longer than their template allows *)
(* (get_plugin_content, filter_non_complying_content and send_email_alert  *)
(* in ictv/plugin_manager/plugin_manager.py, get_non_complying_fields in   *)
(* ictv/renderer/renderer.py): they are not shown, and those who look      *)
(* after the channel are told of them.                                     *)
(*                                                                         *)
(* A slide is the lengths of the texts of its fields.  The mails are those *)
(* that are given to the digester, which EmailDigester models.             *)
(***************************************************************************)
EXTENDS Integers, Sequences, SequencesExt

CONSTANTS
    MaxChars,       \* MaxChars[f]: the limit of a field in the template
    AllSlides,      \* the slides a plugin may give
    Contents,       \* bound: what the plugin gives, as a sequence of capsules, each of slides
    People          \* those who may be administrators of the channel

ASSUME FilterAssumption == Contents \subseteq Seq(Seq(AllSlides))

SuperAdmins == "super administrators"

VARIABLES
    emailing,       \* alert_template_limits.activated in the configuration file
    keep,           \* keep_noncomplying_capsules of the channel
    silent,         \* drop_silently_non_complying_slides, or the default of its plugin
    managers,       \* users with the role of administrator on the channel
    content,        \* what the plugin gave when the channel was last rendered,
    shown,          \* what was rendered,
    filteredOut,    \* the slides that were not, each as the set of its faulty fields
    alerted         \* and those who were sent a mail about them

settings == <<emailing, keep, silent, managers>>
filterVars == <<settings, content, shown, filteredOut, alerted>>

FilterInit ==
    /\ emailing = FALSE /\ keep = FALSE /\ silent = FALSE /\ managers = {}
    /\ content = <<>> /\ shown = <<>> /\ filteredOut = <<>> /\ alerted = {}

NonComplyingFields(slide) == {f \in DOMAIN slide : slide[f] > MaxChars[f]}

Complying == {s \in AllSlides : NonComplyingFields(s) = {}}
Faulty == AllSlides \ Complying

\* What a loop over seq appends to a list: the members of seq that are in S, in their order.
Only(seq, S) ==
    LET found[i \in 0 .. Len(seq)] ==
            IF i = 0 THEN <<>>
            ELSE IF seq[i] \in S THEN Append(found[i - 1], seq[i]) ELSE found[i - 1]
    IN  found[Len(seq)]

Reports(slides) == [i \in DOMAIN slides |-> NonComplyingFields(slides[i])]

\* Mutant of FilterCapsule: what was found in a capsule counts against the next ones.
FilterCapsuleAfterOthers(out, capsule, keeps) ==
    LET reports == out.reports \o Reports(Only(capsule, Faulty))
        complying == Only(capsule, Complying)
    IN  [capsules |-> IF reports = <<>> THEN Append(out.capsules, capsule)
                      ELSE IF keeps /\ complying # <<>> THEN Append(out.capsules, complying)
                      ELSE out.capsules,
         reports |-> reports]

\* One turn of the loop over capsules: FilteredCapsule has the slides that comply.
FilterCapsule(out, capsule, keeps) ==
    LET faulty == Only(capsule, Faulty)
        complying == Only(capsule, Complying)
    IN  [capsules |-> IF faulty = <<>> THEN Append(out.capsules, capsule)
                      ELSE IF keeps /\ complying # <<>> THEN Append(out.capsules, complying)
                      ELSE out.capsules,
         reports |-> out.reports \o Reports(faulty)]

FilterNonComplyingContent(capsules, keeps) ==
    LET out[i \in 0 .. Len(capsules)] ==
            IF i = 0 THEN [capsules |-> <<>>, reports |-> <<>>]
            ELSE FilterCapsule(out[i - 1], capsules[i], keeps)
    IN  out[Len(capsules)]

\* send_email_alert: the administrators of the channel, or the super administrators.
Recipients == IF managers = {} THEN {SuperAdmins} ELSE managers

Render(c) ==
    LET result == FilterNonComplyingContent(c, keep) IN
    /\ content' = c
    /\ shown' = result.capsules
    /\ filteredOut' = result.reports
    /\ alerted' = IF result.reports # <<>> /\ emailing /\ ~silent THEN Recipients ELSE {}
    /\ UNCHANGED settings

NothingRendered == content' = <<>> /\ shown' = <<>> /\ filteredOut' = <<>> /\ alerted' = {}

\* What the forms of the channel change.
ConfigureFilter(k, s, people) ==
    /\ keep' = k /\ silent' = s /\ managers' = people
    /\ NothingRendered
    /\ UNCHANGED emailing

\* The application starts, with a configuration file that asks for mails or not.
StartEmailing(activated) ==
    /\ emailing' = activated
    /\ NothingRendered
    /\ UNCHANGED <<keep, silent, managers>>

FilterNext ==
    \/ \E c \in Contents : Render(c)
    \/ \E k, s \in BOOLEAN, people \in SUBSET People : ConfigureFilter(k, s, people)
    \/ \E activated \in BOOLEAN : StartEmailing(activated)

FilterSpec == FilterInit /\ [][FilterNext]_filterVars

-----------------------------------------------------------------------------
(* Properties. *)

Slides(capsules) == FlattenSeq(capsules)

\* Of the content, in its order, what is shown is all the slides that comply when capsules are
\* kept, and else all the capsules whose slides all do; and each other slide is reported once.
\* When a capsule is not shown whole and mails are activated, those who look after the channel
\* are told, unless the channel drops slides silently; in any other case nobody is.
FilterIsFaithful ==
    /\ IF keep THEN Slides(shown) = Only(Slides(content), Complying)
               ELSE shown = Only(content, Seq(Complying))
    /\ filteredOut = Reports(Only(Slides(content), Faulty))
    /\ IF emailing /\ ~silent
       THEN shown # content => alerted # {} /\ (managers # {} => alerted = managers)
       ELSE alerted = {}
    /\ filteredOut = <<>> => alerted = {}
=============================================================================
