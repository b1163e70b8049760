--------------------------- MODULE MCScreenContent ---------------------------
(***************************************************************************)
(* Small instances of ScreenContent, SlideFilter, Themes and Processors    *)
(* for TLC: which channels a screen shows, which of their slides, in which *)
(* style, and what is run around the requests on the web applications that *)
(* make them.  They share no state: each is explored from the initial      *)
(* state of the others, which stay there.                                  *)
(***************************************************************************)
EXTENDS ScreenContent, SlideFilter, Themes, Processors, TLC

CONSTANTS title, text, u1, u2, auth, db, rotate

\* One slide that complies, at the limits, and two that do not.
MCMaxChars == title :> 1 @@ text :> 2
MCSlides == {title :> 1 @@ text :> 2, title :> 2 @@ text :> 0, title :> 2 @@ text :> 3}
MCContents == SeqOf(SeqOf(MCSlides, 2), 2)

MCGiven == <<auth, db, rotate>>

MCInit == ScreenInit /\ FilterInit /\ ThemesInit /\ ProcessorsInit

MCNext ==
    \/ /\ FilterInit /\ ThemesInit /\ ProcessorsInit
       /\ ScreenNext /\ UNCHANGED <<filterVars, themeVars, processorVars>>
    \/ /\ ScreenInit /\ ThemesInit /\ ProcessorsInit
       /\ FilterNext /\ UNCHANGED <<screenVars, themeVars, processorVars>>
    \/ /\ ScreenInit /\ FilterInit /\ ProcessorsInit
       /\ ThemesNext /\ UNCHANGED <<screenVars, filterVars, processorVars>>
    \/ /\ ScreenInit /\ FilterInit /\ ThemesInit
       /\ ProcessorsNext /\ UNCHANGED <<screenVars, filterVars, themeVars>>

MCSpec == MCInit /\ [][MCNext]_<<screenVars, filterVars, themeVars, processorVars>>

Symmetry == Permutations(Bundles) \cup Permutations(PluginChannels) \cup Permutations(Mounters)
=============================================================================
