-------------------------- MODULE MC_PortableVault --------------------------
(* Instances of PortableVault: a phone with one panel and a browser whose  *)
(* panel can be opened a second time.                                      *)
EXTENDS PortableVault, TLC

CONSTANTS phone, browser, p1, b1, b2, v1, v2, w1, w2, t1, t2

TwoDevices == {phone, browser}
OneBrowser == {browser}

OnePanelEach == {p1, b1}
HomeOfEach == p1 :> phone @@ b1 :> browser
SecondTab == {p1, b1, b2}
HomeOfTabs == p1 :> phone @@ b1 :> browser @@ b2 :> browser

\* The two identities are alike, and so are the two tasks.
Alike == Permutations({v1, v2}) \cup Permutations({t1, t2})
=============================================================================
