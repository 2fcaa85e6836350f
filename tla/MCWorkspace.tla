---------------------------- MODULE MCWorkspace ----------------------------
(* A root with two projects below it; one environment file for each way two *)
(* aliases, a default and a profile can disagree.                           *)
EXTENDS Workspace

CONSTANTS root, left, right, dev, box, live, work, default

MCUpward == [d \in Dir |-> IF d = root THEN <<root>> ELSE <<d, root>>]
MCSorted == <<box, dev>>
Env(p, t) == [profile |-> p, tier |-> t]
V2(def, es) == [profile |-> None, default |-> def, environments |-> es]
MCWritten ==
  { \* the README's: a default, and a production environment under a plain name
    V2(dev, [a \in {dev, box} |-> IF a = dev THEN Env(work, "dev") ELSE Env(live, "prod")]),
    \* no default; the two aliases share a profile
    V2(None, [a \in {dev, box} |-> IF a = dev THEN Env(live, "dev") ELSE Env(live, "prod")]),
    \* an environment without a profile, an alias that is a profile's name
    V2(None, [a \in {box} |-> Env(None, "prod")]),
    \* a default that does not exist, over a profile of its own
    [profile |-> work, default |-> dev, environments |-> [a \in {box} |-> Env(box, "unset")]] }
=============================================================================
