---- MODULE MCVaultFile ----
EXTENDS VaultFile, TLC

CONSTANTS c1, c2, default, dev, e1, origin, nokey, missing, torn, none

MCClient  == {c1, c2}
MCProfile == {default, dev}
MCEntry   == {e1}
MCCommand == (c1 :> CommandName) @@ (c2 :> {"open", "restore"})

(* The default profile is complete and unlocked; the other is new, or an   *)
(* old one without slot.                                                   *)
MCInit ==
  /\ Init
  /\ HasSlot(vault[default]) /\ Nested(vault[default])
  /\ acked = Entries(vault[default]) /\ acked # {}
  /\ ram[default] # None
  /\ vault[dev] # Missing => ram[dev] # None /\ vault[dev].format = "v1"
  /\ sealed = {p \in Profile : keychain[p] # NoKey}
MCSpec == MCInit /\ [][Next]_vars
====
