--------------------------- MODULE ClientCommands ---------------------------
(***************************************************************************)
(* The commands of the sec client (cmd_secrets.go, cmd_lease.go,           *)
(* cmd_import_export.go, cmd_profile.go) as users run them at the same     *)
(* time, against the daemons of their profiles.  A request is one step of  *)
(* its daemon, which holds d.mu while it answers; a command is one or more *)
(* requests, with a prompt, an editor, a rotation hook or a file between   *)
(* them, during which other commands run and sessions end.                 *)
(*                                                                         *)
(* An entry's value is named after who wrote it; its past is the versions  *)
(* of its history (fewer than maxHistory here: SecretHistory has the cap). *)
(* Notes stand for the labels a set leaves alone.  A save that fails, and  *)
(* what reaches the vault file, are VaultFile's; a profile that extends    *)
(* another one is SecretHistory's.                                         *)
(***************************************************************************)
EXTENDS Integers, Sequences, FiniteSets

CONSTANTS
  Client,
  Profile,
  Key,
  File,       \* the dotenv file: a sequence of variables, each with its value
  Path,       \* Path[f]: the secret path migrate-local derives from f
  Kept,       \* the entries <<p, k>> that are there at the start
  Backup,     \* the keys of the KDBX backup that is there at the start
  LeaseKey,   \* where a lease is stored: a fresh path in the code
  Tier,       \* Tier[p]: "prod" or "dev", the profile's __profile_env__ tag
  ProdNamed,  \* the profiles whose name says production
  AutoOpen,   \* the clients with SEC_AUTO_OPEN=1
  Agrees,     \* the clients whose user agrees to touch production
  Token,      \* Token[c]: the profile whose SEC_SESSION_TOKEN c has, or None
  Uses,       \* bound: Uses[c], the profiles c starts commands for
  Commands,   \* bound: the commands each client starts
  Opens,      \* bound: the sessions other terminals open
  Old, Kdbx, Placeholder, None

Var == {File[i] : i \in DOMAIN File}

ASSUME ClientAssumption ==
  /\ File \in Seq(Var) /\ Path \in [Var -> Key]
  /\ Kept \subseteq Profile \X Key
  /\ Backup \subseteq Key /\ LeaseKey \in Key
  /\ Tier \in [Profile -> {"prod", "dev"}]
  /\ ProdNamed \subseteq Profile
  /\ AutoOpen \subseteq Client /\ Agrees \subseteq Client
  /\ Token \in [Client -> Profile \cup {None}]
  /\ Uses \in [Client -> SUBSET Profile]
  /\ Commands \in [Client -> Nat] /\ Opens \in Nat

VARIABLES
  store,     \* store[p][k]: d.secretsStore of the daemon of p
  session,   \* session[p]: "open", or "locked" (or no daemon)
  confirmed, \* d.prodConfirmed of each daemon
  holds,     \* the token each client sends: None, a profile's, or "stale"
  at,        \* the step each client's command waits at, None without one
  on,        \* the profile it is about
  seen,      \* what it has read and still has to write
  file,      \* the value of each variable of the dotenv file
  kdbx,      \* the backup file: its keys and their values
  started,   \* commands each client has started
  opened,    \* sessions other terminals opened
  acked,     \* history: <<p, k, v>>, v was saved at k and nobody erased it
  noted,     \* history: noted[p][k], whose notes were saved last
  moved,     \* history: the variables whose value a migration saved
  consented  \* history: the profiles whose use somebody agreed to

daemonVars  == <<store, session, confirmed>>
clientVars  == <<holds, at, on, seen, started>>
historyVars == <<acked, noted, moved, consented>>
files       == <<file, kdbx>>
vars == <<daemonVars, clientVars, files, opened, historyVars>>

Value == Client \cup Var \cup {Old, Kdbx, Placeholder}
Notes == Client \cup {None}
Entry == [value : Value, notes : Notes, past : SUBSET (Value \X Notes),
          gone : BOOLEAN]
Fresh(v) == [value |-> v, notes |-> None, past |-> {}, gone |-> FALSE]

Has(p, k)  == store[p][k] # None
Live(p, k) == Has(p, k) /\ ~store[p][k].gone
Erased(p, ks) == {a \in acked : a[1] = p /\ a[2] \in ks}

Step == {"edit", "copy", "diff", "backup", "rotate", "hook", "import", "merge", "migrate",
         "ping", "prompt", "group", "running"}

ASSUME NamesAssumption ==
  None \notin Profile \cup Step \cup Entry /\ Placeholder \notin Var

TypeOK ==
  /\ store \in [Profile -> [Key -> Entry \cup {None}]]
  /\ session \in [Profile -> {"open", "locked"}]
  /\ confirmed \in [Profile -> BOOLEAN]
  /\ \A p \in Profile : confirmed[p] => session[p] = "open"
  /\ holds \in [Client -> Profile \cup {None, "stale"}]
  /\ at \in [Client -> Step \cup {None}]
  /\ on \in [Client -> Profile \cup {None}]
  /\ \A c \in Client : at[c] = None <=> on[c] = None
  /\ \A c \in Client : at[c] = None => seen[c] = None
  /\ file \in [Var -> Var \cup {Placeholder}]
  /\ DOMAIN kdbx \subseteq Key /\ \A k \in DOMAIN kdbx : kdbx[k] \in Value
  /\ (\A c \in Client : started[c] \in 0..Commands[c]) /\ opened \in 0..Opens
  /\ acked \subseteq Profile \X Key \X Value
  /\ noted \in [Profile -> [Key -> Notes]]
  /\ moved \subseteq Var \cup {Placeholder} /\ consented \subseteq Profile

Init ==
  /\ store = [p \in Profile |->
               [k \in Key |-> IF <<p, k>> \in Kept THEN Fresh(Old) ELSE None]]
  /\ session = [p \in Profile |-> "open"]
  /\ confirmed = [p \in Profile |-> FALSE]
  /\ holds = Token
  /\ at = [c \in Client |-> None] /\ on = at /\ seen = at
  /\ file = [f \in Var |-> f]
  /\ kdbx = [k \in Backup |-> Kdbx]
  /\ started = [c \in Client |-> 0] /\ opened = 0
  /\ acked = {<<e[1], e[2], Old>> : e \in Kept}
  /\ noted = [p \in Profile |-> [k \in Key |-> None]]
  /\ moved = {} /\ consented = {}

-----------------------------------------------------------------------------
(* The daemon's side of a request (handleConn's switch).                   *)

\* The session gate: a token is compared only when one is sent.
Accepts(c, p) == session[p] = "open" /\ holds[c] \in {None, p}

\* queryDaemonRaw for a request that must be answered.
Raw(c, p) == Accepts(c, p) /\ UNCHANGED <<session, holds>>

Opened(c, p) ==
  session[p] = "locked" /\ c \in AutoOpen /\ session' = [session EXCEPT ![p] = "open"]

\* queryDaemon: a locked session is opened and the request repeated, without
\* a terminal by Touch ID and with the new token, in a terminal with the one
\* the client had.
Query(c, p) ==
  \/ Raw(c, p)
  \/ Opened(c, p) /\ holds' = [holds EXCEPT ![c] = p]
  \/ Opened(c, p) /\ holds[c] = None /\ UNCHANGED holds

\* It comes back with an error: the session is locked (and the user did not
\* open it), or another token is asked for, also after it was opened.
Refused(c, p) ==
  \/ ~Accepts(c, p) /\ UNCHANGED <<session, holds>>
  \/ Opened(c, p) /\ holds[c] \notin {None, p} /\ UNCHANGED holds

Put(p, k, e) == store' = [store EXCEPT ![p][k] = e]

\* set: the old value goes to the history, notes are kept, a deleted entry
\* comes back.
Saved(p, k, v) ==
  IF ~Has(p, k) THEN Fresh(v)
  ELSE [store[p][k] EXCEPT !.past = @ \cup {<<store[p][k].value, store[p][k].notes>>},
                           !.value = v, !.gone = FALSE]

SaveEntry(p, k, v) == Put(p, k, Saved(p, k, v)) /\ acked' = acked \cup {<<p, k, v>>}

\* Mutant of Labelled: edit-notes sends back the whole entry it has read.
LabelledBack(c, p, k) ==
  /\ Put(p, k, [(IF at[c] = "edit" THEN seen[c][2] ELSE store[p][k]) EXCEPT !.notes = c])
  /\ noted' = [noted EXCEPT ![p][k] = c]

\* relabel: refused if the entry is not there; the value is not touched.
Labelled(c, p, k) ==
  /\ Put(p, k, [store[p][k] EXCEPT !.notes = c])
  /\ noted' = [noted EXCEPT ![p][k] = c]

\* restore: every entry of the request replaces the one that is there; the
\* history is not in a backup, nor are the notes.
Replace(p, m) ==
  LET In(k) == k \in DOMAIN m IN
  /\ store' = [store EXCEPT ![p] = [k \in Key |-> IF In(k) THEN Fresh(m[k]) ELSE @[k]]]
  /\ acked' = (acked \ Erased(p, DOMAIN m)) \cup {<<p, k, m[k]>> : k \in DOMAIN m}
  /\ noted' = [noted EXCEPT ![p] = [k \in Key |-> IF In(k) THEN None ELSE @[k]]]

\* validateProdMutationSafety, by the name of the profile: the user passes
\* --confirm-prod or answers yes, or the command ends before it starts.
Safe(c, p) == p \in ProdNamed => c \in Agrees

-----------------------------------------------------------------------------
(* A command: one request, or a first step and others.                     *)

\* A command that is over with its one request.
Once(c, p) ==
  /\ at[c] = None /\ started[c] < Commands[c]
  /\ started' = [started EXCEPT ![c] = @ + 1]
  /\ Query(c, p)
  /\ UNCHANGED <<confirmed, at, on, seen, files, opened, moved, consented>>

\* A command that waits at a step, with what it has read.
Wait(c, p, step, data) ==
  /\ at[c] = None /\ started[c] < Commands[c]
  /\ started' = [started EXCEPT ![c] = @ + 1]
  /\ at' = [at EXCEPT ![c] = step]
  /\ on' = [on EXCEPT ![c] = p]
  /\ seen' = [seen EXCEPT ![c] = data]
  /\ UNCHANGED <<files, opened, moved>>

GoOn(c, step, data) ==
  /\ at' = [at EXCEPT ![c] = step]
  /\ seen' = [seen EXCEPT ![c] = data]
  /\ UNCHANGED <<on, started, opened>>

Done(c) ==
  /\ at' = [at EXCEPT ![c] = None] /\ on' = [on EXCEPT ![c] = None]
  /\ seen' = [seen EXCEPT ![c] = None]
  /\ UNCHANGED <<started, opened>>

Look(c, p) == Once(c, p) /\ UNCHANGED <<store, acked, noted>>

\* Commands that read an entry, or the whole store: the session may open.
Get(c, p, k)      == Live(p, k) /\ Look(c, p)
Pipe(c, p, k)     == Live(p, k) /\ Look(c, p)
Describe(c, p, k) == Live(p, k) /\ Look(c, p)
History(c, p, k)  == Live(p, k) /\ Look(c, p)
List(c, p)   == Look(c, p)
Load(c, p)   == Look(c, p)
Export(c, p) == Look(c, p)
Check(c, p)  == Look(c, p)

Set(c, p, k) ==
  Once(c, p) /\ Safe(c, p) /\ SaveEntry(p, k, c) /\ UNCHANGED noted

\* A soft delete keeps the entry and its history.
Delete(c, p, k) ==
  /\ Once(c, p) /\ Safe(c, p) /\ Has(p, k)
  /\ Put(p, k, [store[p][k] EXCEPT !.gone = TRUE])
  /\ UNCHANGED <<acked, noted>>

DeletePermanently(c, p, k) ==
  /\ Once(c, p) /\ Safe(c, p) /\ Put(p, k, None)
  /\ acked' = acked \ Erased(p, {k})
  /\ noted' = [noted EXCEPT ![p][k] = None]

RestoreDeleted(c, p, k) ==
  /\ Once(c, p) /\ Safe(c, p) /\ Has(p, k) /\ store[p][k].gone
  /\ Put(p, k, [store[p][k] EXCEPT !.gone = FALSE])
  /\ UNCHANGED <<acked, noted>>

Rollback(c, p, k) ==
  /\ Live(p, k)
  /\ \E v \in store[p][k].past :
       /\ Once(c, p) /\ Safe(c, p)
       /\ Put(p, k, [Saved(p, k, v[1]) EXCEPT !.notes = v[2]])
       /\ noted' = [noted EXCEPT ![p][k] = v[2]]
       /\ UNCHANGED acked

\* What was acknowledged of the entry at k is, from now on, of the one at l.
Carried(p, k, l) == {<<p, l, a[3]>> : a \in Erased(p, {k})}

Rename(c, p, k, l) ==
  /\ k # l /\ Has(p, k) /\ Once(c, p) /\ Safe(c, p)
  /\ store' = [store EXCEPT ![p][k] = None, ![p][l] = store[p][k]]
  /\ acked' = (acked \ Erased(p, {k, l})) \cup Carried(p, k, l)
  /\ noted' = [noted EXCEPT ![p][k] = None, ![p][l] = noted[p][k]]

Relabel(c, p, k) ==
  Live(p, k) /\ Once(c, p) /\ Labelled(c, p, k) /\ UNCHANGED acked

\* Within a profile the daemon copies the entry, history and all.
Copy(c, p, k, l) ==
  /\ k # l /\ Live(p, k) /\ Once(c, p)
  /\ Put(p, l, store[p][k])
  /\ acked' = (acked \ Erased(p, {l})) \cup Carried(p, k, l)
  /\ noted' = [noted EXCEPT ![p][l] = noted[p][k]]

Restore(c, p) == Once(c, p) /\ Replace(p, kdbx)

-----------------------------------------------------------------------------
(* Commands of several requests.                                           *)

unread == <<store, confirmed, historyVars>>

\* The command ends with an error at its next request.
Fails(c) ==
  /\ at[c] \in {"edit", "copy", "diff", "rotate", "import", "migrate", "group"}
  /\ Refused(c, on[c]) /\ Done(c)
  /\ UNCHANGED <<unread, files>>

\* edit-notes reads the notes and waits for the editor; then it is a relabel.
EditNotes(c, p, k) ==
  /\ Live(p, k) /\ Query(c, p)
  /\ Wait(c, p, "edit", <<k, store[p][k]>>) /\ UNCHANGED unread

EditedNotes(c) ==
  LET k == seen[c][1] IN
  /\ at[c] = "edit" /\ Query(c, on[c]) /\ Done(c)
  /\ IF Live(on[c], k) THEN Labelled(c, on[c], k) ELSE UNCHANGED <<store, noted>>
  /\ UNCHANGED <<confirmed, files, acked, moved, consented>>

\* copy to another profile: get there, set here.
CopyFrom(c, p, q, k) ==
  /\ p # q /\ Live(p, k) /\ Query(c, p)
  /\ Wait(c, q, "copy", <<k, store[p][k].value>>) /\ UNCHANGED unread

CopyTo(c) ==
  /\ at[c] = "copy" /\ Query(c, on[c]) /\ Done(c)
  /\ SaveEntry(on[c], seen[c][1], seen[c][2])
  /\ UNCHANGED <<confirmed, files, noted, moved, consented>>

\* A lease is the value, set again at a path of its own.
Lease(c, p, k) ==
  /\ Live(p, k) /\ Query(c, p)
  /\ Wait(c, p, "copy", <<LeaseKey, store[p][k].value>>) /\ UNCHANGED unread

\* lease revoke, which asks for no confirmation.
Revoke(c, p) ==
  /\ Once(c, p) /\ Has(p, LeaseKey)
  /\ Put(p, LeaseKey, [store[p][LeaseKey] EXCEPT !.gone = TRUE])
  /\ UNCHANGED <<acked, noted>>

\* Commands that ask one profile, then another one; stream asks those of its
\* template in any order.
Diff(c, p, q) ==
  p # q /\ Query(c, p) /\ Wait(c, q, "diff", None) /\ UNCHANGED unread

DiffProfiles(c, p, q) == Diff(c, p, q)
Stream(c, p, q)       == Diff(c, p, q) \/ Diff(c, q, p)

DiffSecond(c) ==
  at[c] = "diff" /\ Query(c, on[c]) /\ Done(c) /\ UNCHANGED <<unread, files>>

\* backup: the live entries' values, asked for before the file's password;
\* the file is replaced at once.
BackupFrom(c, p) ==
  LET live == {k \in Key : Live(p, k)} IN
  /\ live # {} /\ Query(c, p)
  /\ Wait(c, p, "backup", [k \in live |-> store[p][k].value]) /\ UNCHANGED unread

BackupTo(c) ==
  /\ at[c] = "backup" /\ kdbx' = seen[c] /\ Done(c)
  /\ UNCHANGED <<session, holds, unread, file>>

\* rotate: get, backup for the environment (its failure is ignored), the
\* hook, and set with what the hook printed.
Rotate(c, p, k) ==
  /\ Safe(c, p) /\ Live(p, k) /\ Query(c, p)
  /\ Wait(c, p, "rotate", <<k>>) /\ UNCHANGED unread

RotateEnv(c) ==
  /\ at[c] = "rotate" /\ GoOn(c, "hook", seen[c])
  /\ Query(c, on[c]) \/ Refused(c, on[c])
  /\ UNCHANGED <<unread, files>>

Rotated(c) ==
  /\ at[c] = "hook" /\ Done(c)
  /\ \/ Query(c, on[c]) /\ SaveEntry(on[c], seen[c][1], c)
     \/ Refused(c, on[c]) /\ UNCHANGED <<store, acked>>
  /\ UNCHANGED <<confirmed, files, noted, moved, consented>>

\* import: one set for each key of a JSON file; an error only counts as one fewer.
Import(c, p) ==
  /\ Backup # {} /\ Wait(c, p, "import", Backup)
  /\ UNCHANGED <<session, holds, unread>>

ImportOne(c) ==
  /\ at[c] = "import"
  /\ \E k \in seen[c] :
       /\ \/ Query(c, on[c]) /\ SaveEntry(on[c], k, Kdbx)
          \/ Refused(c, on[c]) /\ UNCHANGED <<store, acked>>
       /\ IF seen[c] = {k} THEN Done(c) ELSE GoOn(c, "import", seen[c] \ {k})
  /\ UNCHANGED <<confirmed, files, noted, moved, consented>>

\* restore --merge: a backup tells which keys are there (those in the trash
\* are not); when it is refused, everything is restored.
Absent(p) == [k \in {k \in DOMAIN kdbx : ~Live(p, k)} |-> kdbx[k]]

Merge(c, p) ==
  /\ \/ Query(c, p) /\ Wait(c, p, "merge", Absent(p))
     \/ Refused(c, p) /\ Wait(c, p, "merge", kdbx)
  /\ UNCHANGED unread

Merged(c) ==
  /\ at[c] = "merge" /\ Done(c)
  /\ \/ Query(c, on[c]) /\ Replace(on[c], seen[c])
     \/ Refused(c, on[c]) /\ UNCHANGED <<store, acked, noted>>
  /\ UNCHANGED <<confirmed, files, moved, consented>>

\* migrate-local reads the file, sets its variables in order, stopping at the
\* first failure, and only then replaces the file by one of placeholders.
Migrate(c, p) ==
  /\ Wait(c, p, "migrate", <<1, file>>) /\ UNCHANGED <<session, holds, unread>>

\* Mutant of MigrateOne: it goes on after a set that was refused.
MigrateOneOn(c) ==
  LET i == seen[c][1]
      f == File[i]
  IN /\ at[c] = "migrate" /\ i <= Len(File)
     /\ \/ /\ Query(c, on[c]) /\ SaveEntry(on[c], Path[f], seen[c][2][f])
           /\ moved' = moved \cup {seen[c][2][f]}
        \/ Refused(c, on[c]) /\ UNCHANGED <<store, acked, moved>>
     /\ GoOn(c, "migrate", <<i + 1, seen[c][2]>>)
     /\ UNCHANGED <<confirmed, files, noted, consented>>

MigrateOne(c) ==
  LET i == seen[c][1]
      f == File[i]
  IN /\ at[c] = "migrate" /\ i <= Len(File)
     /\ Query(c, on[c])
     /\ SaveEntry(on[c], Path[f], seen[c][2][f])
     /\ moved' = moved \cup {seen[c][2][f]}
     /\ GoOn(c, "migrate", <<i + 1, seen[c][2]>>)
     /\ UNCHANGED <<confirmed, files, noted, consented>>

Sanitize(c) ==
  /\ at[c] = "migrate" /\ seen[c][1] > Len(File) /\ Done(c)
  /\ file' = [f \in Var |-> Placeholder]
  /\ UNCHANGED <<session, holds, unread, kdbx>>

-----------------------------------------------------------------------------
(* run: checkProductionGuard, then get_group, then the child.              *)

\* getProfileEnvTier asks without opening the session (queryDaemonRaw), and
\* goes by the name when the answer is an error.
Production(c, p) ==
  IF Accepts(c, p) THEN Tier[p] = "prod" ELSE p \in ProdNamed

\* What the run goes on with: whether the tier was read, whether it is a
\* --dry-run, for which the guard returns at once.
Ground == {"told", "blind", "dry"}

\* confirm_prod, whose answer is ignored.
Confirm(c, p) ==
  /\ consented' = consented \cup {p}
  /\ confirmed' = IF Accepts(c, p) THEN [confirmed EXCEPT ![p] = TRUE] ELSE confirmed

Run(c, p) ==
  /\ UNCHANGED <<session, holds, store, acked, noted>>
  /\ \/ /\ ~Production(c, p)
        /\ Wait(c, p, "group", IF Accepts(c, p) THEN "told" ELSE "blind")
        /\ UNCHANGED <<confirmed, consented>>
     \/ Production(c, p) /\ Wait(c, p, "group", "dry") /\ UNCHANGED <<confirmed, consented>>
     \/ Production(c, p) /\ c \in Agrees /\ Wait(c, p, "group", "told") /\ Confirm(c, p)
     \/ Production(c, p) /\ Wait(c, p, "ping", "told") /\ UNCHANGED <<confirmed, consented>>

\* Mutant of RunPing: an answer is enough, whatever it says.
RunPingAny(c) ==
  /\ at[c] = "ping"
  /\ \/ session[on[c]] = "open" /\ GoOn(c, "group", "told")
     \/ session[on[c]] # "open" /\ Done(c)
  /\ UNCHANGED <<session, holds, unread, files>>

\* The session may have been confirmed by another run (ping asks no token).
RunPing(c) ==
  /\ at[c] = "ping"
  /\ \/ confirmed[on[c]] /\ GoOn(c, "group", "told")
     \/ ~confirmed[on[c]] /\ c \in Agrees /\ GoOn(c, "prompt", "told")
     \/ ~confirmed[on[c]] /\ c \notin Agrees /\ Done(c)
  /\ UNCHANGED <<session, holds, unread, files>>

RunPrompt(c) ==
  /\ at[c] = "prompt" /\ GoOn(c, "group", "told") /\ Confirm(c, on[c])
  /\ UNCHANGED <<session, holds, store, files, acked, noted, moved>>

RunGroup(c) ==
  /\ at[c] = "group" /\ Query(c, on[c])
  /\ IF seen[c] = "dry" THEN Done(c) ELSE GoOn(c, "running", seen[c])
  /\ UNCHANGED <<unread, files>>

RunEnds(c) ==
  /\ at[c] = "running" /\ Done(c) /\ UNCHANGED <<session, holds, unread, files>>

-----------------------------------------------------------------------------
(* Around the commands.                                                    *)

\* Mutant of Lock: wipeMemory leaves prodConfirmed.
LockConfirmed(p) ==
  /\ session[p] = "open"
  /\ session' = [session EXCEPT ![p] = "locked"]
  /\ holds' = [c \in Client |-> IF holds[c] = p THEN "stale" ELSE holds[c]]
  /\ UNCHANGED <<store, confirmed, at, on, seen, started, files, opened, historyVars>>

\* The session expires or is cleared; a token it gave is refused from now on.
Lock(p) ==
  /\ session[p] = "open"
  /\ session' = [session EXCEPT ![p] = "locked"]
  /\ confirmed' = [confirmed EXCEPT ![p] = FALSE]
  /\ holds' = [c \in Client |-> IF holds[c] = p THEN "stale" ELSE holds[c]]
  /\ UNCHANGED <<store, at, on, seen, started, files, opened, historyVars>>

Open(p) ==
  /\ session[p] = "locked" /\ opened < Opens
  /\ session' = [session EXCEPT ![p] = "open"] /\ opened' = opened + 1
  /\ UNCHANGED <<store, confirmed, clientVars, files, historyVars>>

\* The user interrupts a command, at any of its steps.
Kill(c) ==
  /\ at[c] # None /\ Done(c) /\ UNCHANGED <<session, holds, unread, files>>

Next ==
  \/ \E c \in Client : \E p \in Uses[c] :
       \/ List(c, p) \/ Load(c, p) \/ Export(c, p) \/ Check(c, p)
       \/ Revoke(c, p) \/ BackupFrom(c, p) \/ Restore(c, p) \/ Import(c, p)
       \/ Merge(c, p) \/ Migrate(c, p) \/ Run(c, p)
       \/ \E q \in Profile : Diff(c, p, q) \/ DiffProfiles(c, p, q) \/ Stream(c, p, q)
       \/ \E k \in Key :
            \/ Get(c, p, k) \/ Pipe(c, p, k) \/ Describe(c, p, k) \/ History(c, p, k) \/ Lease(c, p, k)
            \/ Set(c, p, k) \/ Delete(c, p, k) \/ DeletePermanently(c, p, k)
            \/ RestoreDeleted(c, p, k) \/ Rollback(c, p, k) \/ Relabel(c, p, k)
            \/ EditNotes(c, p, k) \/ Rotate(c, p, k)
            \/ \E l \in Key : Rename(c, p, k, l) \/ Copy(c, p, k, l)
            \/ \E q \in Profile : CopyFrom(c, p, q, k)
  \/ \E c \in Client :
       \/ Fails(c) \/ EditedNotes(c) \/ CopyTo(c) \/ RotateEnv(c) \/ Rotated(c)
       \/ DiffSecond(c) \/ BackupTo(c) \/ ImportOne(c) \/ Merged(c) \/ MigrateOne(c) \/ Sanitize(c)
       \/ RunPing(c) \/ RunPrompt(c) \/ RunGroup(c) \/ RunEnds(c) \/ Kill(c)
  \/ \E p \in Profile : Lock(p) \/ Open(p)

Spec == Init /\ [][Next]_vars

-----------------------------------------------------------------------------

\* Whatever commands run at the same time, and wherever they are interrupted,
\* a value a command was told is saved stays the entry's value or one of its
\* history, and the notes saved last stay its notes, until a command erases
\* the entry: a permanent delete, a restore, a copy or rename over it.
AckedKept ==
  /\ \A a \in acked :
       /\ Has(a[1], a[2])
       /\ LET e == store[a[1]][a[2]] IN
          a[3] = e.value \/ \E v \in e.past : v[1] = a[3]
  /\ \A p \in Profile, k \in Key : Has(p, k) => store[p][k].notes = noted[p][k]

\* migrate-local, run any number of times and by several users, leaves a
\* placeholder in the file only for a value some vault has been given: two
\* variables may share a path, and every set may be refused.
FileKept == \A f \in Var : file[f] = Placeholder => f \in moved

\* A command runs with the secrets of a profile tagged prod only if somebody
\* agreed to its use, or the guard could not read the tag.
RunConfirmed ==
  \A c \in Client :
    at[c] = "running" /\ Tier[on[c]] = "prod" /\ seen[c] # "blind" => on[c] \in consented

\* Of CHANGELOG.md: restore --merge works "without overwriting existing local
\* keys".  It does, if its backup is refused, or the key is set in between.
MergeKeeps ==
  [][\A c \in Client : at[c] = "merge" /\ at'[c] = None =>
       \A k \in Key : Live(on[c], k) => store'[on[c]][k] = store[on[c]][k]]_vars
=============================================================================
