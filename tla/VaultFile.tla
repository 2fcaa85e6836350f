----------------------------- MODULE VaultFile -----------------------------
(***************************************************************************)
(* The vault files on disk and everybody who writes them: the daemons of   *)
(* the profiles (store.SaveStore), and the commands that go to the files   *)
(* directly: `open` and `profile new` (InitializeMasterKey), `migrate-v2`, *)
(* `session recover`, `profile summary`, `doctor --repair`, `snapshot      *)
(* create` and `restore`, `dedupe`, `keychain prune`.  No lock is shared   *)
(* between these processes, so every read and every replacement of a file  *)
(* is a step of its own.                                                   *)
(*                                                                         *)
(* A vault is the envelope of WriteVaultEnvelope: the key its payload is   *)
(* encrypted under, the entries in the payload, the recovery slot and the  *)
(* summary beside it.  A replacement takes three steps: the temporary file *)
(* is written ("save"), the file it replaces is filed as a snapshot        *)
(* ("staged"), and the temporary file renamed ("filed").  A process can    *)
(* end at any step: an error, a prompt answered with no, a signal, a crash.*)
(***************************************************************************)
EXTENDS FiniteSets

CONSTANTS
  Client,      \* terminals; each runs one command
  Profile,     \* profiles; the daemon of a profile is named by it
  Default,     \* the profile of secrets.enc
  Entry,       \* secrets
  Command,     \* the commands a client runs
  Origin,      \* who made the key of a vault that exists at the start
  NoKey, Missing, Torn, None

Writer == Client \cup Profile
Key    == (Client \cup {Origin}) \X Profile
Slot   == [seed : Client \cup {Origin}, key : Key]
Envelope == [format : {"v1", "v2", "nested"}, key : Key, data : SUBSET Entry,
             slot : Slot \cup {None}, summary : Client \cup {Origin, None}]

CommandName == {"open", "new", "migrate", "recover", "summary", "flatten",
                "snapshot", "restore", "dedupe", "prune", "init"}

ASSUME NamesAssumption ==
  /\ Client \cap Profile = {}
  /\ Origin \notin Client
  /\ Default \in Profile
  /\ NoKey \notin Key
  /\ None \notin Slot /\ None \notin Client /\ None \notin Envelope
  /\ Missing # Torn
  /\ {Missing, Torn} \cap Envelope = {}
  /\ Command \in [Client -> SUBSET CommandName]

VARIABLES
  vault,    \* the vault file of each profile
  snaps,    \* the readable envelopes in each profile's snapshot directory
  keychain, \* the key in each profile's keychain item
  sealed,   \* profiles whose item is bound to the current set of fingers
  ram,      \* the key and the entries each profile's daemon holds, or None
  at,       \* the next step of each writer
  job,      \* what the writer works on
  acked,    \* history: entries a daemon answered to have stored
  strayed,  \* history: profiles that may have got a second key: two first
            \* openings overlapped, or `dedupe` fell back on the source's key
  rough     \* history: why a version of a vault may be in no snapshot

item == <<keychain, sealed>>
vars == <<vault, snaps, item, ram, at, job, acked, strayed, rough>>
ghosts == <<acked, strayed, rough>>

Steps == {"idle", "init", "reset", "readd", "save", "staged", "filed", "query",
          "slot", "blank", "read", "verify", "evict", "copy", "confirm", "write",
          "swap", "load", "second", "done"}
Store == [key : Key, data : SUBSET Entry]
Job == [cmd : CommandName \cup {"serve"}, on : Profile, then : Steps,
        key : Key \cup {NoKey}, data : SUBSET Entry,
        other : Profile, otherKey : Key \cup {NoKey}, otherData : SUBSET Entry,
        env : Envelope \cup {None},
        base : Envelope \cup {Missing, Torn},
        seen : Envelope \cup {Missing, Torn}]
(* base: the file the new envelope was made from; seen: the file as it was *)
(* when it was filed, or when InitializeMasterKey looked for it.           *)

TypeOK ==
  /\ vault \in [Profile -> Envelope \cup {Missing, Torn}]
  /\ snaps \in [Profile -> SUBSET Envelope]
  /\ keychain \in [Profile -> Key \cup {NoKey}]
  /\ sealed \subseteq Profile
  /\ ram \in [Profile -> Store \cup {None}]
  /\ at \in [Writer -> Steps]
  /\ job \in [Writer -> Job]
  /\ acked \subseteq Entry
  /\ strayed \subseteq Profile
  /\ rough \subseteq {"overlap", "unfiled", "repaired"}
-----------------------------------------------------------------------------
Complete(f) == f \notin {Missing, Torn}
IsV2(f)     == Complete(f) /\ f.format # "v1"
HasSlot(f)  == IsV2(f) /\ f.slot # None

Nested(f)   == IsV2(f) /\ f.format = "nested"

(* LoadStore with a key: a missing file is an empty store, nested          *)
(* envelopes are peeled, and the payload must decrypt.                     *)
Loads(f, key) == f = Missing \/ (Complete(f) /\ f.key = key)
Entries(f)    == IF f = Missing THEN {} ELSE f.data

(* A broken SaveStore that takes nothing over. *)
SealedBare(f, key, data) ==
  [format |-> "v2", key |-> key, data |-> data, slot |-> None, summary |-> None]

(* The envelope SaveStore makes: what is on disk lends slot and summary. *)
Sealed(f, key, data) ==
  [format |-> "v2", key |-> key, data |-> data,
   slot |-> IF IsV2(f) THEN f.slot ELSE None,
   summary |-> IF IsV2(f) THEN f.summary ELSE None]

(* A broken copy that does not mind what it copies. *)
CopiedUnread(f, p, key) == [snaps EXCEPT ![p] = @ \cup {f}]

(* The snapshot directories after CreateSnapshot copied f.  With a key at  *)
(* hand the copy is rewritten, and that presave files one more copy, under *)
(* "default": the name of a snapshot is not the name of a vault.           *)
Copied(f, p, key) ==
  [q \in Profile |-> snaps[q] \cup
     IF Complete(f) /\ (q = p \/ (q = Default /\ key # NoKey /\ IsV2(f)))
       THEN {f} ELSE {}]

Home(w)  == IF w \in Profile THEN w ELSE Default
(* The snapshots ListSnapshots marks as readable with a key. *)
Matching(p, key) == {s \in snaps[p] : s.key = key}

NoJob(w) == [cmd |-> "serve", on |-> Home(w), then |-> "done",
             key |-> NoKey, data |-> {}, other |-> Home(w), otherKey |-> NoKey, otherData |-> {}, env |-> None,
             base |-> Missing, seen |-> Missing]

Goto(w, s) == at' = [at EXCEPT ![w] = s]

(* What a command does once it has the key of the profile it works on. *)
Proceed(w) ==
  CASE job[w].cmd = "open" -> "query"
    [] job[w].cmd = "new"  -> "slot"
    [] job[w].cmd = "init" -> "blank"
    [] job[w].cmd = "dedupe" /\ job[w].otherKey = NoKey -> "swap"
    [] job[w].cmd = "dedupe" /\ job[w].otherKey # NoKey -> "load"
    [] OTHER -> "done"
(* What it does once it has sealed the key again or stored it.             *)
Resume(w) ==
  IF job[w].then = "reset" \/ job[w].cmd = "recover" THEN "evict" ELSE Proceed(w)

(* A terminal starts a command on a profile. *)
Start(c, cmd, p, q, step) ==
  /\ at[c] = "idle"
  /\ cmd \in Command[c]
  /\ job' = [job EXCEPT ![c] =
               [NoJob(c) EXCEPT !.cmd = cmd, !.on = p, !.other = q]]
  /\ Goto(c, step)
  /\ UNCHANGED <<vault, snaps, item, ram, ghosts>>

StartOpen(c, p)   == Start(c, "open", p, p, "init")
(* `profile new` wants a named profile without a vault, and so does the    *)
(* part of `init --vault` that precedes its migration.                     *)
StartNew(c, p)    == p # Default /\ vault[p] = Missing
                       /\ Start(c, "new", p, p, "init")
StartInit(c, p)   == Start(c, "init", p, p,
                           IF vault[p] = Missing THEN "init" ELSE "read")
(* migrate-v2 lists the vault files; one that is complete is left alone    *)
(* unless a new seed is forced, which the user may always do.              *)
StartMigrate(c, p) == vault[p] # Missing /\ Start(c, "migrate", p, p, "read")
StartRecover(c, p) == IsV2(vault[p]) /\ Start(c, "recover", p, p, "read")
StartSummary(c, p) == vault[p] # Missing /\ Start(c, "summary", p, p, "read")
StartFlatten(c, p) == Nested(vault[p]) /\ Start(c, "flatten", p, p, "read")
StartPrune(c, p)   == Start(c, "prune", p, p, "read")
StartSnapshot(c, p) == Start(c, "snapshot", p, p, "copy")
StartRestore(c, p) == Start(c, "restore", p, p, "copy")
StartDedupe(c, p, q) == p # q /\ Start(c, "dedupe", p, q, "init")

(* The command ends before its next step: it failed, the prompt was        *)
(* answered with no, it was killed.                                        *)
Ends(c) ==
  /\ at[c] \notin {"idle", "done"}
  /\ Goto(c, "done")
  /\ job' = [job EXCEPT ![c] = NoJob(c)]
  /\ UNCHANGED <<vault, snaps, item, ram, ghosts>>

(* The daemon ends; or its save fails and it goes on. *)
DaemonEnds(p) ==
  /\ ram[p] # None
  /\ ram' = [ram EXCEPT ![p] = None]
  /\ Goto(p, "idle")
  /\ job' = [job EXCEPT ![p] = NoJob(p)]
  /\ UNCHANGED <<vault, snaps, item, ghosts>>
SaveFails(p) ==
  /\ at[p] \in {"staged", "filed"}
  /\ Goto(p, "idle")
  /\ job' = [job EXCEPT ![p] = NoJob(p)]
  /\ UNCHANGED <<vault, snaps, item, ram, ghosts>>

(* A finger is enrolled: an item bound to the current set is invalid. *)
Invalidate(p) ==
  /\ p \in sealed
  /\ keychain' = [keychain EXCEPT ![p] = NoKey]
  /\ sealed' = sealed \ {p}
  /\ UNCHANGED <<vault, snaps, ram, at, job, ghosts>>
-----------------------------------------------------------------------------
(* A write request of a client: the entry is set in memory, all is saved. *)
Set(p, e) ==
  /\ ram[p] # None /\ at[p] = "idle"
  /\ e \notin ram[p].data
  /\ ram' = [ram EXCEPT ![p].data = @ \cup {e}]
  /\ job' = [job EXCEPT ![p].key = ram[p].key, ![p].data = ram'[p].data,
                        ![p].then = "idle"]
  /\ Goto(p, "save")
  /\ UNCHANGED <<vault, snaps, item, ghosts>>

(* SaveStore makes the envelope; WriteVaultEnvelope writes it aside. *)
Save(w) ==
  /\ at[w] = "save"
  /\ job' = [job EXCEPT ![w].base = vault[job[w].on],
       ![w].env = Sealed(vault[job[w].on], job[w].key, job[w].data)]
  /\ Goto(w, "staged")
  /\ UNCHANGED <<vault, snaps, item, ram, ghosts>>

(* A broken presave that files nothing. *)
FileNothing(w) ==
  /\ at[w] = "staged"
  /\ job' = [job EXCEPT ![w].seen = vault[job[w].on]]
  /\ Goto(w, "filed")
  /\ UNCHANGED <<vault, snaps, item, ram, ghosts>>

(* The file about to be replaced is filed; that this fails stops nothing. *)
File(w) ==
  /\ at[w] = "staged"
  /\ job' = [job EXCEPT ![w].seen = vault[job[w].on]]
  /\ \/ /\ snaps' = Copied(vault[job[w].on], job[w].on, NoKey)
        /\ UNCHANGED rough
     \/ /\ Complete(vault[job[w].on])
        /\ rough' = rough \cup {"unfiled"}
        /\ UNCHANGED snaps
  /\ Goto(w, "filed")
  /\ UNCHANGED <<vault, item, ram, acked, strayed>>

Written(w) ==
  IF w \in Profile \/ job[w].then = "done" THEN NoJob(w)
  ELSE [job[w] EXCEPT !.env = None, !.base = Missing, !.seen = Missing]

(* The temporary file is renamed; a daemon then answers.  Who is filling   *)
(* the file in place fills a file that has no name any more.               *)
Rename(w) ==
  /\ at[w] = "filed"
  /\ vault' = [vault EXCEPT ![job[w].on] = job[w].env]
  /\ rough' = rough \cup
       IF vault[job[w].on] # job[w].seen THEN {"overlap"} ELSE {}
  /\ acked' = IF w \in Profile THEN acked \cup job[w].env.data ELSE acked
  /\ Goto(w, job[w].then)
  /\ job' = [x \in Writer |->
       IF x = w THEN Written(w)
       ELSE IF at[x] = "write" /\ job[x].on = job[w].on
         THEN [job[x] EXCEPT !.env = None]
         ELSE job[x]]
  /\ UNCHANGED <<snaps, item, ram, strayed>>
-----------------------------------------------------------------------------
FreshKey(c) == <<c, job[c].on>>

(* A broken InitializeMasterKey that does not look for the vault. *)
InitAnyway(c) ==
  /\ at[c] = "init"
  /\ IF keychain[job[c].on] # NoKey
       THEN /\ job' = [job EXCEPT ![c].key = keychain[job[c].on]]
            /\ Goto(c, Proceed(c))
       ELSE /\ job' = [job EXCEPT ![c].key = FreshKey(c), ![c].then = "save",
                                  ![c].seen = vault[job[c].on]]
            /\ Goto(c, "reset")
  /\ UNCHANGED <<vault, snaps, item, ram, ghosts>>

(* InitializeMasterKey: the key of the keychain, sealed again after an     *)
(* upgrade of the program; or, if it cannot be had and there is no vault,  *)
(* a fresh one.                                                            *)
InitializeMasterKey(c) ==
  /\ at[c] = "init"
  /\ \/ /\ keychain[job[c].on] # NoKey
        /\ job' = [job EXCEPT ![c].key = keychain[job[c].on]]
        /\ Goto(c, Proceed(c)) \/ Goto(c, "reset")
     \/ /\ vault[job[c].on] = Missing
        /\ job' = [job EXCEPT ![c].key = FreshKey(c), ![c].then = "save",
                              ![c].seen = Missing]
        /\ Goto(c, "reset")
  /\ UNCHANGED <<vault, snaps, item, ram, ghosts>>

(* dedupe cannot get the target's key, or not store a fresh one: it uses   *)
(* the source's.                                                           *)
FallBack(c) ==
  /\ job[c].cmd = "dedupe" /\ job[c].otherKey # NoKey
  /\ \/ at[c] = "init" /\ vault[job[c].on] # Missing
     \/ at[c] = "readd" /\ job[c].then = "save"
  /\ job' = [job EXCEPT ![c].key = job[c].otherKey]
  /\ Goto(c, "load")
  /\ UNCHANGED <<vault, snaps, item, ram, ghosts>>

(* keychain.Set and ResealKeychainForProfile: the item is deleted, ... *)
DeleteItem(c) ==
  /\ at[c] = "reset"
  /\ keychain' = [keychain EXCEPT ![job[c].on] = NoKey]
  /\ sealed' = sealed \ {job[c].on}
  /\ Goto(c, "readd")
  /\ UNCHANGED <<vault, snaps, ram, job, ghosts>>

(* Nobody else opens the profile for the first time. *)
Alone(c) ==
  /\ vault[job[c].on] = job[c].seen
  /\ keychain[job[c].on] = NoKey
  /\ ram[job[c].on] = None
  /\ \A w \in Writer \ {c} :
       at[w] \in {"idle", "done"} \/ job[c].on \notin {job[w].on, job[w].other}

(* ... and added: after a fresh key comes its empty vault.  Only an item   *)
(* that was sealed again is bound to the current set of fingers.           *)
AddItem(c) ==
  /\ at[c] = "readd"
  /\ sealed' = IF job[c].then = "save" \/ Resume(c) = "evict"
                 THEN sealed \ {job[c].on} ELSE sealed \cup {job[c].on}
  /\ keychain' = [keychain EXCEPT ![job[c].on] = job[c].key]
  /\ IF job[c].then = "save"
       THEN /\ strayed' = strayed \cup IF Alone(c) THEN {} ELSE {job[c].on}
            /\ job' = [job EXCEPT ![c].then = Proceed(c), ![c].data = {}]
            /\ Goto(c, "save")
       ELSE /\ Goto(c, Resume(c))
            /\ UNCHANGED <<strayed, job>>
  /\ UNCHANGED <<vault, snaps, ram, acked, rough>>

(* The item cannot be added, and nobody minds: migrate-v2 and the silent   *)
(* re-enrolment after an upgrade ignore the error.                         *)
AddItemFails(c) ==
  /\ at[c] = "readd" /\ job[c].then # "save"
  /\ job[c].cmd \notin {"recover", "prune"}
  /\ Goto(c, Resume(c))
  /\ UNCHANGED <<vault, snaps, item, ram, job, ghosts>>

(* `open`: the daemon loads the vault with the key it is sent. *)
Open(c) ==
  /\ at[c] = "query" /\ at[job[c].on] = "idle"
  /\ Loads(vault[job[c].on], job[c].key)
  /\ ram' = [ram EXCEPT ![job[c].on] =
       [key |-> job[c].key, data |-> Entries(vault[job[c].on])]]
  /\ Goto(c, "done")
  /\ UNCHANGED <<vault, snaps, item, job, ghosts>>

(* `init --vault` saves an empty vault, whatever is there by now, and goes *)
(* on to migrate it.                                                       *)
SaveEmpty(c) ==
  /\ at[c] = "blank"
  /\ job' = [job EXCEPT ![c].then = "read", ![c].data = {}]
  /\ Goto(c, "save")
  /\ UNCHANGED <<vault, snaps, item, ram, ghosts>>

(* `profile new` writes the recovery slot, and a summary if it was given   *)
(* one; a profile that had a key and no vault gets the vault first.        *)
EnrolSlot(c) ==
  /\ at[c] = "slot"
  /\ IF vault[job[c].on] = Missing
       THEN /\ job' = [job EXCEPT ![c].then = "slot", ![c].data = {}]
            /\ Goto(c, "save")
       ELSE /\ IsV2(vault[job[c].on])
            /\ \E s \in {vault[job[c].on].summary, c} :
                 job' = [job EXCEPT ![c].then = "done",
                   ![c].base = vault[job[c].on],
                   ![c].env = [vault[job[c].on] EXCEPT !.format = "v2",
                     !.slot = [seed |-> c, key |-> job[c].key],
                     !.summary = s]]
            /\ Goto(c, "staged")
  /\ UNCHANGED <<vault, snaps, item, ram, ghosts>>
-----------------------------------------------------------------------------
(* migrate-v2, for one pending profile: the keychain's key is wrapped with *)
(* the new seed if it decrypts the payload.  The summary is not taken      *)
(* over.  The keychain item is set and the daemon evicted afterwards.      *)
Migrate(c) ==
  /\ at[c] = "read" /\ job[c].cmd \in {"migrate", "init"}
  /\ keychain[job[c].on] # NoKey
  /\ Complete(vault[job[c].on])
  /\ vault[job[c].on].key = keychain[job[c].on]
  /\ job' = [job EXCEPT ![c].then = "reset", ![c].key = keychain[job[c].on],
       ![c].base = vault[job[c].on],
       ![c].env = [format |-> "v2", key |-> vault[job[c].on].key,
                   data |-> vault[job[c].on].data, summary |-> None,
                   slot |-> [seed |-> c, key |-> keychain[job[c].on]]]]
  /\ Goto(c, "staged")
  /\ UNCHANGED <<vault, snaps, item, ram, ghosts>>

(* session recover: the seed unwraps the slot's key, ... *)
Unwrap(c) ==
  /\ at[c] = "read" /\ job[c].cmd = "recover"
  /\ HasSlot(vault[job[c].on])
  /\ job' = [job EXCEPT ![c].key = vault[job[c].on].slot.key]
  /\ Goto(c, "verify")
  /\ UNCHANGED <<vault, snaps, item, ram, ghosts>>

(* ... which is enrolled if it loads the vault, read again. *)
Verify(c) ==
  /\ at[c] = "verify"
  /\ Loads(vault[job[c].on], job[c].key)
  /\ Goto(c, "reset")
  /\ UNCHANGED <<vault, snaps, item, ram, job, ghosts>>

(* keychain prune enrols the key it reads. *)
Prune(c) ==
  /\ at[c] = "read" /\ job[c].cmd = "prune"
  /\ keychain[job[c].on] # NoKey
  /\ job' = [job EXCEPT ![c].key = keychain[job[c].on]]
  /\ Goto(c, "reset")
  /\ UNCHANGED <<vault, snaps, item, ram, ghosts>>

(* UpdateProfileSummary *)
UpdateProfileSummary(c) ==
  /\ at[c] = "read" /\ job[c].cmd = "summary"
  /\ IsV2(vault[job[c].on])
  /\ \E s \in {None, c} :
       job' = [job EXCEPT ![c].base = vault[job[c].on],
         ![c].env = [vault[job[c].on] EXCEPT !.format = "v2", !.summary = s]]
  /\ Goto(c, "staged")
  /\ UNCHANGED <<vault, snaps, item, ram, ghosts>>

(* FlattenVaultFile, from `doctor --repair`: for nested envelopes only. *)
FlattenVaultFile(c) ==
  /\ at[c] = "read" /\ job[c].cmd = "flatten"
  /\ Nested(vault[job[c].on])
  /\ job' = [job EXCEPT ![c].base = vault[job[c].on],
       ![c].env = [vault[job[c].on] EXCEPT !.format = "v2"]]
  /\ Goto(c, "staged")
  /\ UNCHANGED <<vault, snaps, item, ram, ghosts>>

(* evictStaleDaemon, the last step of migrate-v2, recover and restore. *)
Evict(c) ==
  /\ at[c] = "evict"
  /\ ram' = [ram EXCEPT ![job[c].on] = None]
  /\ at' = [at EXCEPT ![c] = "done", ![job[c].on] = "idle"]
  /\ job' = [job EXCEPT ![job[c].on] = NoJob(job[c].on)]
  /\ UNCHANGED <<vault, snaps, item, ghosts>>

(* snapshot create, with the keychain's key if there is one. *)
CreateSnapshot(c) ==
  /\ at[c] = "copy" /\ job[c].cmd = "snapshot"
  /\ vault[job[c].on] # Missing
  /\ snaps' = Copied(vault[job[c].on], job[c].on, keychain[job[c].on])
  /\ Goto(c, "done")
  /\ UNCHANGED <<vault, item, ram, job, ghosts>>

(* snapshot restore: the vault is filed, unless that fails; the snapshot   *)
(* must decrypt with the keychain's key; the user is asked; ...            *)
ChooseSnapshot(c) ==
  /\ at[c] = "copy" /\ job[c].cmd = "restore"
  /\ keychain[job[c].on] # NoKey
  /\ \/ /\ snaps' = Copied(vault[job[c].on], job[c].on, keychain[job[c].on])
        /\ UNCHANGED rough
     \/ /\ Complete(vault[job[c].on])
        /\ rough' = rough \cup {"unfiled"}
        /\ UNCHANGED snaps
  /\ \E s \in Matching(job[c].on, keychain[job[c].on]) :
       job' = [job EXCEPT ![c].env = s, ![c].then = "evict",
                          ![c].seen = vault[job[c].on]]
  /\ Goto(c, "confirm")
  /\ UNCHANGED <<vault, item, ram, acked, strayed>>

(* ... and os.WriteFile truncates the vault file ... *)
Truncate(c) ==
  /\ at[c] = "confirm"
  /\ vault' = [vault EXCEPT ![job[c].on] = Torn]
  /\ rough' = rough \cup
       IF job[c].cmd = "dedupe" THEN {"repaired"}
       ELSE IF vault[job[c].on] # job[c].seen THEN {"overlap"} ELSE {}
  /\ Goto(c, "write")
  /\ UNCHANGED <<snaps, item, ram, job, acked, strayed>>

(* ... and fills it, unless it was replaced; two who fill it may mix. *)
Fill(c) ==
  /\ at[c] = "write"
  /\ IF job[c].env = None
       THEN UNCHANGED <<vault, rough>>
       ELSE \E f \in {job[c].env} \cup (IF vault[job[c].on] = Torn THEN {} ELSE {Torn}) :
              /\ vault' = [vault EXCEPT ![job[c].on] = f]
              /\ rough' = rough \cup
                   IF vault[job[c].on] # Torn THEN {"overlap"} ELSE {}
  /\ job' = [job EXCEPT ![c] = Written(c)]
  /\ Goto(c, job[c].then)
  /\ UNCHANGED <<snaps, item, ram, acked, strayed>>
-----------------------------------------------------------------------------
(* dedupe turns from the source to the target, ... *)
Turn(c) ==
  /\ at[c] \in {"swap", "second"}
  /\ job' = [job EXCEPT ![c].on = job[c].other, ![c].other = job[c].on,
       ![c].key = job[c].otherKey, ![c].otherKey = job[c].key,
       ![c].data = job[c].otherData, ![c].then = "done"]
  /\ Goto(c, IF at[c] = "swap" THEN "init" ELSE "save")
  /\ UNCHANGED <<vault, snaps, item, ram, ghosts>>

(* ... loads both, moves the entries under the prefix in memory, and saves *)
(* the source, without them, first.                                        *)
Deduplicate(c) ==
  /\ at[c] = "load"
  /\ Loads(vault[job[c].other], job[c].otherKey)
  /\ Loads(vault[job[c].on], job[c].key)
  /\ \E m \in SUBSET Entries(vault[job[c].other]) \ {{}} :
       job' = [job EXCEPT ![c].on = job[c].other, ![c].other = job[c].on,
         ![c].key = job[c].otherKey, ![c].otherKey = job[c].key,
         ![c].data = Entries(vault[job[c].other]) \ m,
         ![c].otherData = Entries(vault[job[c].on]) \cup m,
         ![c].then = "second"]
  /\ strayed' = strayed \cup
       IF job[c].key = job[c].otherKey THEN {job[c].on} ELSE {}
  /\ Goto(c, "save")
  /\ UNCHANGED <<vault, snaps, item, ram, acked, rough>>

(* A target that does not load is overwritten by one of its snapshots that *)
(* the source's key decrypts.                                              *)
RepairTarget(c) ==
  /\ at[c] = "load"
  /\ Loads(vault[job[c].other], job[c].otherKey)
  /\ ~Loads(vault[job[c].on], job[c].key)
  /\ \E s \in Matching(job[c].on, job[c].otherKey) :
       job' = [job EXCEPT ![c].env = s, ![c].then = "load",
                          ![c].key = job[c].otherKey]
  /\ strayed' = strayed \cup {job[c].on}
  /\ Goto(c, "confirm")
  /\ UNCHANGED <<vault, snaps, item, ram, acked, rough>>
-----------------------------------------------------------------------------
OrigKey(p) == <<Origin, p>>
Bare(p, f, d) ==
  [format |-> f, key |-> OrigKey(p), data |-> d, slot |-> None, summary |-> None]
Slotted(p, f, d) ==
  [Bare(p, f, d) EXCEPT !.summary = Origin,
                        !.slot = [seed |-> Origin, key |-> OrigKey(p)]]

(* A profile has no vault, one of version 1, one nested without a slot, or *)
(* one with a recovery slot and a summary, which older versions of the     *)
(* program may have nested; its daemon may be unlocked.                    *)
InitialVaults(p) ==
  {Missing} \cup
  {Bare(p, f, d) : f \in {"v1", "nested"}, d \in SUBSET Entry} \cup
  {Slotted(p, f, d) : f \in {"v2", "nested"}, d \in SUBSET Entry}

Init ==
  /\ vault \in [Profile -> UNION {InitialVaults(p) : p \in Profile}]
  /\ \A p \in Profile : vault[p] \in InitialVaults(p)
  /\ sealed \in SUBSET {p \in Profile : vault[p] # Missing}
  /\ keychain = [p \in Profile |-> IF vault[p] = Missing THEN NoKey
                                                         ELSE OrigKey(p)]
  /\ snaps = [p \in Profile |-> {}]
  /\ ram \in [Profile -> {None} \cup
       {[key |-> OrigKey(p), data |-> d] : p \in Profile, d \in SUBSET Entry}]
  /\ \A p \in Profile : ram[p] # None =>
       vault[p] # Missing /\ ram[p] = [key |-> vault[p].key, data |-> vault[p].data]
  /\ at = [w \in Writer |-> "idle"]
  /\ job = [w \in Writer |-> NoJob(w)]
  /\ acked = UNION {Entries(vault[p]) : p \in Profile}
  /\ strayed = {} /\ rough = {}

ClientStep(c) ==
  \/ \E p, q \in Profile : StartDedupe(c, p, q)
  \/ \E p \in Profile :
       \/ StartOpen(c, p) \/ StartNew(c, p) \/ StartInit(c, p)
       \/ StartMigrate(c, p) \/ StartRecover(c, p) \/ StartPrune(c, p)
       \/ StartSummary(c, p) \/ StartFlatten(c, p)
       \/ StartSnapshot(c, p) \/ StartRestore(c, p)
  \/ Ends(c) \/ InitializeMasterKey(c) \/ FallBack(c)
  \/ DeleteItem(c) \/ AddItem(c) \/ AddItemFails(c)
  \/ Open(c) \/ SaveEmpty(c) \/ EnrolSlot(c)
  \/ Migrate(c) \/ Unwrap(c) \/ Verify(c) \/ Prune(c)
  \/ UpdateProfileSummary(c) \/ FlattenVaultFile(c) \/ Evict(c)
  \/ CreateSnapshot(c) \/ ChooseSnapshot(c) \/ Truncate(c) \/ Fill(c)
  \/ Turn(c) \/ Deduplicate(c) \/ RepairTarget(c)

Next ==
  \/ \E c \in Client : ClientStep(c)
  \/ \E w \in Writer : Save(w) \/ File(w) \/ Rename(w)
  \/ \E p \in Profile, e \in Entry : Set(p, e)
  \/ \E p \in Profile : DaemonEnds(p) \/ SaveFails(p) \/ Invalidate(p)

Spec == Init /\ [][Next]_vars
-----------------------------------------------------------------------------
(* Nothing a daemon answered to have stored is gone: it is in some vault   *)
(* or in some snapshot, whoever replaced which file and whoever was killed *)
(* in between - except if a file was replaced by another process after it  *)
(* had been filed (WriteVaultEnvelope, snapshot restore), if filing it     *)
(* failed, or if dedupe repaired its target.                               *)
NothingGone ==
  rough = {} =>
    acked \subseteq UNION {Entries(f) : f \in
      {vault[p] : p \in {q \in Profile : vault[q] # Torn}}
        \cup UNION {snaps[p] : p \in Profile}}

(* A profile's vault, its keychain item and its recovery slot keep to one  *)
(* key through first openings, migrations, recoveries, restores and        *)
(* deduplications (InitializeMasterKey, handleMigrateV2, handleSession-    *)
(* Recover, handleSnapshotRestore), unless the profile strayed.  Snapshots *)
(* of every profile are filed under "default" as well, so that the slot of *)
(* the default profile may come from another one that strayed.             *)
KeysAgree ==
  \A p \in Profile \ strayed :
    Complete(vault[p]) =>
      /\ keychain[p] \in {NoKey, vault[p].key}
      /\ vault[p].slot # None /\ (p = Default => strayed = {}) =>
           vault[p].slot.key = vault[p].key

(* Replacing a complete vault takes over its recovery slot, and, unless it *)
(* is a migration or an update of the summary, its summary - if the file   *)
(* is still the one the new envelope was made from (SaveStore's read of    *)
(* the old envelope), and nobody is filling it in place.                   *)
CarriedOver ==
  [][\A p \in Profile :
       (/\ IsV2(vault[p]) /\ Complete(vault'[p]) /\ vault'[p] # vault[p]
        /\ \A w \in Writer : at[w] = "write" => job[w].on # p) =>
         \E w \in Writer :
           /\ job[w].on = p /\ at[w] = "filed" /\ at'[w] # "filed"
           /\ \/ job[w].base # vault[p]
              \/ /\ vault[p].slot # None => vault'[p].slot # None
                 /\ \/ job[w].cmd \in {"migrate", "init", "summary", "new"}
                    \/ vault'[p].summary = vault[p].summary]_vars
=============================================================================
