------------------------- MODULE MCBrowserSession -------------------------
(* Instances of BrowserSession for TLC. *)
EXTENDS BrowserSession, TLC

MCSymmetry ==
    Permutations(Calls) \cup Permutations(Pairs) \cup
    Permutations(Tabs) \cup Permutations(Users)
===========================================================================
