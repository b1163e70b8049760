------------------------------- MODULE Themes -------------------------------
(***************************************************************************)
(* The themes of slides (ThemesMeta and Themes, in                         *)
(* ictv/renderer/renderer.py): what is built from the directory of themes  *)
(* when the application starts, and the style sheets that a page with some *)
(* themes includes, in the order in which they override each other.        *)
(*                                                                         *)
(* The state is the directory; the class is built from it by recursion.    *)
(***************************************************************************)
EXTENDS Integers, Sequences, FiniteSets, FiniteSetsExt, SequencesExt

CONSTANTS
    ThemeNames,
    Default,    \* default_theme
    NoTheme

VARIABLES
    parent,     \* parent[t]: the parent that the config.yaml of t names, NoTheme, or "ignored"
                \* when t has no config.yaml
    styled      \* the themes whose config.yaml says that they have css

themeVars == <<parent, styled>>

ThemesInit ==
    /\ parent = [t \in ThemeNames |-> IF t = Default THEN NoTheme ELSE "ignored"]
    /\ styled = {}

Loaded == {t \in ThemeNames : parent[t] # "ignored"}
Children(t) == {c \in Loaded : parent[c] = t}   \* _child_themes
Parents == {p \in ThemeNames : Children(p) # {}}

\* The themes that remove_theme(t) removes, children first.
RECURSIVE Removed(_)
Removed(t) == {t} \cup UNION {Removed(c) : c \in Children(t)}

\* The message before it says that a theme whose parent is not found will be ignored, but
\* remove_theme(parent) takes the parent out of _themes, where it is not: the KeyError ends
\* the import.
ImportFails == \E p \in Parents \ Loaded : ~(Removed(p) \subseteq Loaded)

\* Mutant of SetThemeLevel: children have the level of their parent.
RECURSIVE SetSameLevel(_, _, _)
SetSameLevel(t, n, level) ==
    IF level[t] >= n THEN level
    ELSE FoldSet(LAMBDA c, l : SetSameLevel(c, n, l), [level EXCEPT ![t] = n], Children(t))

\* set_theme_level; the level of a theme that has none is -1.
RECURSIVE SetThemeLevel(_, _, _)
SetThemeLevel(t, n, level) ==
    IF level[t] >= n THEN level
    ELSE FoldSet(LAMBDA c, l : SetThemeLevel(c, n + 1, l), [level EXCEPT ![t] = n], Children(t))

Level == FoldSet(LAMBDA t, l : SetThemeLevel(t, 0, l), [t \in ThemeNames |-> -1],
                 {t \in Loaded : parent[t] = NoTheme})

\* recurse_up_parentship, which does not end for a theme under a cycle.
RECURSIVE Up(_)
Up(t) == IF parent[t] = NoTheme THEN {} ELSE {parent[t]} \cup Up(parent[t])

\* render_capsule: a theme that is not there is replaced.
Rendered(t) == IF t \in Loaded THEN t ELSE Default

\* prepare_for_css_inclusion: the themes, with those they inherit from, that have css, sorted
\* by level.
Inclusion(themes) ==
    LET all == themes \cup UNION {Up(t) : t \in themes}
        level == Level
    IN  SetToSortSeq(all \cap styled, LAMBDA t, u : level[t] < level[u])

\* get_sorted_themes reads the level of every theme, and raises KeyError if one has none.
SortingFails == LET level == Level IN \E t \in Loaded : level[t] < 0

\* Else it lists each tree of themes, children after their parent.
RECURSIVE Tree(_)
Tree(t) == <<t>> \o FlattenSeq(SetToSeq({Tree(c) : c \in Children(t)}))
SortedThemes ==
    LET level == Level IN FlattenSeq(SetToSeq({Tree(t) : t \in {u \in Loaded : level[u] = 0}}))

\* A theme is installed, edited or removed, and the application started again.
Install(t, p, css) ==
    /\ parent' = [parent EXCEPT ![t] = p]
    /\ styled' = IF css THEN styled \cup {t} ELSE styled \ {t}

Uninstall(t) ==
    /\ t # Default
    /\ parent' = [parent EXCEPT ![t] = "ignored"]
    /\ styled' = styled \ {t}

ThemesNext ==
    \E t \in ThemeNames :
        \/ Uninstall(t)
        \/ \E p \in ThemeNames \cup {NoTheme}, css \in BOOLEAN : Install(t, p, css)

-----------------------------------------------------------------------------
(* Properties. *)

\* The themes that inherit, in some steps, from a theme without a parent.
Complete ==
    {t \in Loaded : \A S \in SUBSET Loaded :
        (\A u \in Loaded : parent[u] \in S \cup {NoTheme} => u \in S) => t \in S}

\* The themes of S and all those that they inherit from, in some steps.
WithAncestors(S) ==
    {t \in Loaded : \A A \in SUBSET Loaded :
        S \subseteq A /\ (\A u \in A : parent[u] \in A \cup {NoTheme}) => t \in A}

\* t overrides u in a list when it comes later.
InOrder(list) ==
    \A i, j \in DOMAIN list : list[i] # list[j] /\ list[i] \in WithAncestors({list[j]}) => i < j

\* When the application starts, a theme has a level exactly when its parents end in one that
\* has none, and do not run in a circle.  The style sheets of any two capsules with such
\* themes are those of their themes and of all that these inherit from, if they have css, each
\* once and before those that override it.  The list of themes fails exactly when the parents
\* of one run in a circle, and else has each of them once, after those it inherits from.
ThemesAreInOrder ==
    LET complete == Complete IN
    ~ImportFails =>
        /\ LET level == Level IN {t \in Loaded : level[t] >= 0} = complete
        /\ \A themes \in SUBSET {Rendered(t) : t \in ThemeNames} :
              themes \subseteq complete /\ Cardinality(themes) \in 1..2 =>
                  LET list == Inclusion(themes) IN
                  /\ ToSet(list) = WithAncestors(themes) \cap styled
                  /\ IsInjective(list) /\ InOrder(list)
        /\ SortingFails <=> Loaded # complete
        /\ ~SortingFails => LET list == SortedThemes IN
                  ToSet(list) = Loaded /\ IsInjective(list) /\ InOrder(list)
=============================================================================
