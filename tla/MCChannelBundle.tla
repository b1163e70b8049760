--------------------------- MODULE MCChannelBundle ---------------------------
(* Small instances of ChannelBundle for TLC. *)
EXTENDS ChannelBundle, TLC

\* Bundles are alike, and so are plugin channels and threads.
Symmetry == Permutations(Bundles) \cup Permutations(PluginChannels) \cup Permutations(Threads)
=============================================================================
