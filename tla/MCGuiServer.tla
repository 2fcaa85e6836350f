---------------------------- MODULE MCGuiServer -----------------------------
(* GuiServer with two launches, two tabs of one browser, a second browser   *)
(* and two profiles; only the user of the first tab picks profiles.         *)
EXTENDS GuiServer

CONSTANTS s1, s2, t1, t2, b1, b2

MCServer == {s1, s2}
MCTab == {t1, t2}
MCBrowser == {b1, b2}
MCPicks == [t \in MCTab |-> IF t = t1 THEN Profile ELSE {}]
MCIn == [t \in MCTab |-> b1]

\* The first launch serves already.
MCInit == launch = [s \in Server |-> IF s = s1 THEN "serving" ELSE "new"] /\ Rest
MCSpec == MCInit /\ [][Next]_vars /\ Fairness
=============================================================================
