--------------------------- MODULE SecretHistory ---------------------------
(***************************************************************************)
(* The secret operations of processRequest on the daemon's map of entries  *)
(* (internal/daemon/daemon.go), at the level at which Go executes them.    *)
(*                                                                         *)
(* An entry is copied by value, but two of its fields are references: the  *)
(* metadata map, and the history, a slice of a backing array.  append      *)
(* writes into the backing array when its capacity allows and moves to a   *)
(* new array when not, and the cut to the last Limit versions only moves   *)
(* the slice's start.  So `copy` leaves two entries with one array and one *)
(* map, and `rollback` and `relabel` work on a map that a version in the   *)
(* history may hold too.                                                   *)
(*                                                                         *)
(* data stands for value, comment, description and notes, which are        *)
(* copied by value together.  Timestamps and access counts are left out,   *)
(* so `get`, `list`, `get_group`, `backup` and `history` change nothing    *)
(* here.  Operations on a prefix do to each path what is modelled here     *)
(* for one.                                                                *)
(***************************************************************************)
EXTENDS Integers, Sequences, FiniteSets

CONSTANTS
  Path,        \* paths of secrets
  Data,        \* value, comment, description and notes of a secret
  Meta,        \* contents of a metadata map
  NilMeta,     \* what reading a nil map shows: an empty map
  Array,       \* backing arrays; one more than paths is enough
  Map,         \* bound on the map objects in use at a time
  None,        \* nil, or no entry
  Limit,       \* 10, the versions a history keeps
  MaxVersion,  \* bound on versions
  MayCopy      \* does anyone call `copy`

ASSUME HistoryAssumption ==
  /\ NilMeta \in Meta
  /\ Limit \in Nat \ {0}
  /\ MaxVersion \in Nat
  /\ MayCopy \in BOOLEAN
  /\ None \notin Array \cup Map
  /\ Data # {}

Record  == [version : Nat, data : Data, map : Map \cup {None}]
Entry   == [version : Nat, data : Data, map : Map \cup {None},
            arr : Array \cup {None}, off : Nat, len : Nat,
            trashed : {"no", "yes"}]
Blank   == [version |-> 0, data |-> CHOOSE d \in Data : TRUE, map |-> None]

ASSUME NoneAssumption == None \notin Entry

VARIABLES
  secrets,  \* d.secretsStore.Secrets: for each path its entry, or None
  arrays,   \* the cells of each backing array
  maps      \* the contents of each map

historyVars == <<secrets, arrays, maps>>

Stored == {p \in Path : secrets[p] # None}

HistoryTypeOK ==
  /\ \A p \in Path : secrets[p] = None \/ secrets[p] \in Entry
  /\ arrays \in [Array -> Seq(Record)]
  /\ maps \in [Map -> Meta]
  /\ \A p \in Stored :
       LET e == secrets[p]
       IN  e.len > 0 => e.arr # None /\ e.off + e.len <= Len(arrays[e.arr])
-----------------------------------------------------------------------------
(* The slice entry.History, from the array it lies in. *)
History(e, as) == [i \in 1 .. e.len |-> as[e.arr][e.off + i]]
Capacity(e, as) == IF e.arr = None THEN 0 ELSE Len(as[e.arr]) - e.off

UsedArrays(s) == {s[p].arr : p \in {q \in Path : s[q] # None}}
UsedMaps(s, as) ==
  {s[p].map : p \in {q \in Path : s[q] # None}} \cup
  UNION {{as[a][i].map : i \in DOMAIN as[a]} : a \in UsedArrays(s) \ {None}}

FreshArray == CHOOSE a \in Array : a \notin UsedArrays(secrets)
FreshMap   == CHOOSE x \in Map : x \notin UsedMaps(secrets, arrays)

ArrayLeft  == ~ Array \subseteq UsedArrays(secrets)
MapLeft    == ~ Map \subseteq UsedMaps(secrets, arrays)

(* One operation leaves the entries s, the arrays as and the maps ms; what *)
(* nothing refers to any more is collected.                                *)
Store(s, as, ms) ==
  /\ secrets' = s
  /\ arrays' = [a \in Array |-> IF a \in UsedArrays(s) THEN as[a] ELSE << >>]
  /\ maps' = [x \in Map |-> IF x \in UsedMaps(s, as) THEN ms[x] ELSE NilMeta]

(* The version of e that a write or a rollback files. *)
Snapshot(e) == [version |-> e.version, data |-> e.data, map |-> e.map]

(* Mutants of the history a write files.                                   *)
AppendsWhenFull(e) ==  \* in place also where no cell is left
  LET inPlace == e.len <= Capacity(e, arrays)
      excess  == IF e.len + 1 > Limit THEN e.len + 1 - Limit ELSE 0
  IN  [arr |-> IF inPlace THEN e.arr ELSE FreshArray,
       off |-> (IF inPlace THEN e.off ELSE 0) + excess,
       len |-> e.len + 1 - excess]

CutDropsNewest(e) ==  \* history[:Limit]
  LET inPlace == e.len < Capacity(e, arrays)
  IN  [arr |-> IF inPlace THEN e.arr ELSE FreshArray,
       off |-> IF inPlace THEN e.off ELSE 0,
       len |-> IF e.len + 1 > Limit THEN Limit ELSE e.len + 1]

(* append(e.History, Snapshot(e)), then the cut: the slice it yields ...   *)
FiledSlice(e) ==
  LET inPlace == e.len < Capacity(e, arrays)
      base    == IF inPlace THEN e.off ELSE 0
      excess  == IF e.len + 1 > Limit THEN e.len + 1 - Limit ELSE 0
  IN  [arr |-> IF inPlace THEN e.arr ELSE FreshArray,
       off |-> base + excess, len |-> e.len + 1 - excess]

(* Mutant: the version lands at the length, whatever the slice's start. *)
FiledAtLength(e) ==
  LET cap == Capacity(e, arrays)
  IN  IF e.len < cap
        THEN [arrays EXCEPT ![e.arr][e.len + 1] = Snapshot(e)]
        ELSE [arrays EXCEPT ![FreshArray] =
                [i \in 1 .. (IF cap = 0 THEN 1 ELSE 2 * cap) |->
                   IF i <= e.len THEN History(e, arrays)[i]
                   ELSE IF i = e.len + 1 THEN Snapshot(e) ELSE Blank]]

(* ... and the arrays after it.  A new array has twice the capacity.       *)
FiledArrays(e) ==
  LET cap  == Capacity(e, arrays)
      grow == IF cap = 0 THEN 1 ELSE 2 * cap
      cell(i) == IF i <= e.len THEN History(e, arrays)[i]
                 ELSE IF i = e.len + 1 THEN Snapshot(e) ELSE Blank
  IN  IF e.len < cap
        THEN [arrays EXCEPT ![e.arr][e.off + e.len + 1] = Snapshot(e)]
        ELSE [arrays EXCEPT ![FreshArray] = [i \in 1 .. grow |-> cell(i)]]
-----------------------------------------------------------------------------
(* The metadata map of a request: a new one, or nil if it has none. *)
NewMap(m)  == IF m = None THEN None ELSE FreshMap
NewMaps(m) == IF m = None THEN maps ELSE [maps EXCEPT ![FreshMap] = m]

(* An entry of version v without a history. *)
Plain(v, d, x) == [version |-> v, data |-> d, map |-> x, arr |-> None,
                   off |-> 0, len |-> 0, trashed |-> "no"]

(* e once it has been filed and replaced by d and x. *)
Succeeded(e, d, x) ==
  LET slice == FiledSlice(e)
  IN  [version |-> e.version + 1, data |-> d, map |-> x, arr |-> slice.arr,
       off |-> slice.off, len |-> slice.len, trashed |-> "no"]

(* `set` on a path without an entry. *)
Create(p, d, m) ==
  /\ secrets[p] = None
  /\ m # None => MapLeft
  /\ Store([secrets EXCEPT ![p] = Plain(1, d, NewMap(m))], arrays, NewMaps(m))

(* `set` on an entry, soft-deleted or not: the metadata is the request's.  *)
Set(p, d, m) ==
  /\ p \in Stored
  /\ secrets[p].version < MaxVersion
  /\ ArrayLeft
  /\ m # None => MapLeft
  /\ Store([secrets EXCEPT ![p] = Succeeded(@, d, NewMap(m))],
           FiledArrays(secrets[p]), NewMaps(m))

(* `relabel` changes the entry's own fields and, in place, its map.        *)
Relabel(p, d, m) ==
  /\ p \in Stored
  /\ secrets[p].trashed = "no"
  /\ secrets[p].map = None => MapLeft
  /\ LET x == IF secrets[p].map = None THEN FreshMap ELSE secrets[p].map
     IN  Store([secrets EXCEPT ![p].data = d, ![p].map = x], arrays,
               [maps EXCEPT ![x] = m])

(* `rollback` to the i-th version the history still has; the entry takes   *)
(* over that version's map.                                                *)
Rollback(p, i) ==
  /\ p \in Stored
  /\ secrets[p].trashed = "no"
  /\ secrets[p].version < MaxVersion
  /\ ArrayLeft
  /\ i \in 1 .. secrets[p].len
  /\ LET e     == [secrets[p] EXCEPT !.version = IF @ = 0 THEN 1 ELSE @]
         found == History(e, arrays)[i]
     IN  Store([secrets EXCEPT ![p] = Succeeded(e, found.data, found.map)],
               FiledArrays(e), maps)

(* `delete`: soft, and again if it was already. *)
Delete(p) ==
  /\ p \in Stored
  /\ Store([secrets EXCEPT ![p].trashed = "yes"], arrays, maps)

(* `delete` with permanent, on any path. *)
Purge(p) == Store([secrets EXCEPT ![p] = None], arrays, maps)

(* `restore_deleted`. *)
RestoreDeleted(p) ==
  /\ p \in Stored
  /\ secrets[p].trashed = "yes"
  /\ Store([secrets EXCEPT ![p].trashed = "no"], arrays, maps)

(* `restore` of an entry without a history; leases and vaults of earlier   *)
(* releases have entries of version 0.                                     *)
Restore(p, d, v) == Store([secrets EXCEPT ![p] = Plain(v, d, None)], arrays, maps)

(* `rename` moves the entry, soft-deleted or not, over what is there. *)
Rename(p, q) ==
  /\ p \in Stored
  /\ Store([[secrets EXCEPT ![p] = None] EXCEPT ![q] = secrets[p]], arrays, maps)

(* `copy` copies the entry and with it both references. *)
Copy(p, q) ==
  /\ MayCopy
  /\ p \in Stored
  /\ secrets[p].trashed = "no"
  /\ Store([secrets EXCEPT ![q] = secrets[p]], arrays, maps)
-----------------------------------------------------------------------------
HistoryInit ==
  /\ secrets = [p \in Path |-> None]
  /\ arrays = [a \in Array |-> << >>]
  /\ maps = [x \in Map |-> NilMeta]

HistoryNext ==
  \E p \in Path :
    \/ \E d \in Data :
         \/ \E m \in (Meta \ {NilMeta}) \cup {None} : Create(p, d, m) \/ Set(p, d, m)
         \/ \E m \in Meta : Relabel(p, d, m)
         \/ \E v \in {0, 1} : Restore(p, d, v)
    \/ \E i \in 1 .. Limit : Rollback(p, i)
    \/ Delete(p) \/ Purge(p) \/ RestoreDeleted(p)
    \/ \E q \in Path : Rename(p, q) \/ Copy(p, q)

HistorySpec == HistoryInit /\ [][HistoryNext]_historyVars
-----------------------------------------------------------------------------
(* Versions stay in step with the history whatever shares an array: the    *)
(* history holds at most Limit versions, and they are the ones that end    *)
(* just below the current version, in order.  A rollback to a version      *)
(* therefore finds that version or none (`set`, `rollback`, `copy`).       *)
HistoryContiguous ==
  \A p \in Stored :
    LET e == secrets[p]
    IN  /\ e.len <= Limit
        /\ \A i \in 1 .. e.len :
             History(e, arrays)[i].version = e.version - e.len - 1 + i

(* An entry as a client sees it. *)
Shown == [version : Nat, data : Data, meta : Meta,
          history : Seq([version : Nat, data : Data, meta : Meta]),
          trashed : {"no", "yes"}]
ASSUME ShownAssumption == None \notin Shown

MetaOf(x) == IF x = None THEN NilMeta ELSE maps[x]
Seen(p) ==
  IF secrets[p] = None THEN None
  ELSE LET e == secrets[p]
       IN  [version |-> e.version, data |-> e.data, meta |-> MetaOf(e.map),
            history |-> [i \in 1 .. e.len |->
              LET r == History(e, arrays)[i]
              IN  [version |-> r.version, data |-> r.data,
                   meta |-> MetaOf(r.map)]],
            trashed |-> e.trashed]

Versions == INSTANCE SecretVersions WITH entries <- [p \in Path |-> Seen(p)]

(* Where no two entries share references, the slices and maps implement    *)
(* the versions a client was promised: a history only ever gains the       *)
(* version just replaced and loses the oldest, and no operation on one     *)
(* path shows on another.                                                  *)
VersionsKept == Versions!Spec

(* docs/skills/sec-agent-integration/SKILL.md:442 "revert a secret key to  *)
(* a previous version snapshot without losing current data": an operation  *)
(* that leaves an entry's history slice as it is leaves the versions filed *)
(* in it as they are.                                                      *)
FiledVersionsKept ==
  [][\A p \in Stored :
       /\ secrets'[p] # None
       /\ secrets'[p].arr = secrets[p].arr
       /\ secrets'[p].off = secrets[p].off
       /\ secrets'[p].len = secrets[p].len
       => Seen(p)'.history = Seen(p).history]_historyVars
=============================================================================
