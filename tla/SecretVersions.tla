--------------------------- MODULE SecretVersions ---------------------------
(***************************************************************************)
(* What the daemon promises about the versions of a secret: every write    *)
(* and every rollback files the state it replaces in the secret's history, *)
(* which keeps the last Limit of them unchanged for as long as they are    *)
(* there, and what happens to one path leaves every other path alone       *)
(* (docs/skills/sec-agent-integration/SKILL.md, 5.22).                     *)
(***************************************************************************)
EXTENDS Integers, Sequences

CONSTANTS
  Path,    \* paths of secrets
  None,    \* no entry
  Limit    \* versions a history keeps

VARIABLE entries  \* for each path its entry, or None

vars == <<entries>>

(* The history of e once e has been replaced. *)
Filed(e) ==
  LET h == Append(e.history,
                  [version |-> e.version, data |-> e.data, meta |-> e.meta])
  IN  IF Len(h) > Limit THEN Tail(h) ELSE h

(* What may become of the entry of one path, from old to new. *)
Created(old, new) ==
  /\ new # None
  /\ new.version \in {0, 1}
  /\ new.history = << >>

(* A write, or a rollback, which writes an older state. *)
Replaced(old, new) ==
  /\ old # None /\ new # None
  /\ new.version = old.version + 1
  /\ new.history = Filed(old)
  /\ new.trashed = "no"

(* Data, metadata and the soft-delete mark change without a new version. *)
Adjusted(old, new) ==
  /\ old # None /\ new # None
  /\ new.version = old.version
  /\ new.history = old.history

Purged(old, new) == new = None

Change(p) ==
  \/ Created(entries[p], entries'[p])
  \/ Replaced(entries[p], entries'[p])
  \/ Adjusted(entries[p], entries'[p])
  \/ Purged(entries[p], entries'[p])

Move(p, q) ==
  /\ entries[p] # None
  /\ entries'[q] = entries[p]
  /\ entries'[p] = None

Duplicate(p, q) ==
  /\ entries[p] # None
  /\ entries'[q] = entries[p]
  /\ entries'[p] = entries[p]

Init == entries = [p \in Path |-> None]

(* Only the paths an operation names change. *)
Only(ps) == \A q \in Path \ ps : entries'[q] = entries[q]

Next ==
  \E p \in Path :
    \/ Only({p}) /\ Change(p)
    \/ \E q \in Path \ {p} : Only({p, q}) /\ (Move(p, q) \/ Duplicate(p, q))

Spec == Init /\ [][Next]_vars
=============================================================================
