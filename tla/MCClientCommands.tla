-------------------------- MODULE MCClientCommands --------------------------
(* Two clients and two profiles, one tagged prod under a name that does not *)
(* say so; two variables of the dotenv file that share a path.              *)
EXTENDS ClientCommands

CONSTANTS c1, c2, Work, Other, own, spare, f1, f2

MCToken == [c \in Client |-> IF c = c2 THEN Work ELSE None]
MCKept == {<<Work, own>>}
MCUses == [c \in Client |-> IF c = c1 THEN {Work} ELSE Profile]
MCCommands == [c \in Client |-> IF c = c2 THEN 1 ELSE 2]
MCFile == <<f1, f2>>
MCPath == [f \in {f1, f2} |-> own]
MCTier == [p \in Profile |-> IF p = Work THEN "prod" ELSE "dev"]
=============================================================================
