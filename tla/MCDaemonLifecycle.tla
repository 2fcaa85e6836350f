---- MODULE MCDaemonLifecycle ----
EXTENDS DaemonLifecycle, TLC

CONSTANTS c1, c2, d1, d2, d3, none, old, new

MCClient == {c1, c2}
MCDaemon == {d1, d2, d3}
MCBuild  == (c1 :> old) @@ (c2 :> new)

(* Someone has started a daemon, which is serving. *)
MCInit ==
  /\ main = [d \in Daemon |-> IF d = d1 THEN "serving" ELSE "none"]
  /\ stop = [d \in Daemon |-> "no"]
  /\ build = [d \in Daemon |-> IF d = d1 THEN old ELSE None]
  /\ listening = {d1} /\ signal = [d \in Daemon |-> "no"]
  /\ fd = [d \in Daemon |-> IF d = d1 THEN d1 ELSE None] /\ flock = fd /\ info = fd
  /\ sock = d1 /\ pid = [daemon |-> d1, executable |-> old] /\ lock = d1
  /\ at = [c \in Client |-> "idle"] /\ seen = [c \in Client |-> {}]
  /\ active = [c \in Client |-> None] /\ polls = [c \in Client |-> 0]
  /\ evicted = [d \in Daemon |-> {}] /\ unnamed = "no"
MCSpec == MCInit /\ [][Next]_vars /\ Fairness
====
