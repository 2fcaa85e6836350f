-------------------------- MODULE VaultFileProofs --------------------------
(***************************************************************************)
(* What VaultFile keeps for any number of terminals, daemons, profiles and *)
(* entries, whatever runs at once and wherever it ends.                    *)
(***************************************************************************)
EXTENDS VaultFile, TLAPS

-----------------------------------------------------------------------------
(* The invariant.                                                          *)

Writing   == {"save", "staged", "filed", "confirm", "write"}
Enveloped == {"staged", "filed", "confirm", "write"}
Keyed     == {"query", "slot", "blank", "swap", "load", "second", "reset",
              "readd", "save", "verify"}

\* What a job must have for its next step s.
Fit(j, s) ==
  /\ s \in Keyed => j.key \in Key
  /\ s \in {"load", "second"} => j.otherKey \in Key
  /\ s = "slot" => j.cmd = "new"
  /\ s \in {"swap", "load", "second"} => j.cmd = "dedupe"
  /\ s \in {"init", "read", "verify"} => j.then \in {"read", "done"}
  /\ s \in {"reset", "readd"} /\ j.then = "save" => j.seen = Missing

\* An envelope made from a file takes over what CarriedOver says.
Takes(j) ==
  IsV2(j.base) =>
    /\ j.base.slot # None => j.env.slot # None
    /\ j.cmd \in {"migrate", "init", "summary", "new"} \/ j.env.summary = j.base.summary

\* A job and the place it is at.  After a replacement comes a step that the
\* job fits as well.
Placed(j, s) ==
  /\ Fit(j, s)
  /\ s \in Writing =>
       j.then \notin Writing \cup {"init", "readd", "verify", "copy"} /\ Fit(j, j.then)
  /\ s \in {"staged", "filed", "confirm"} => j.env \in Envelope
  /\ s \in {"staged", "filed"} => Takes(j)
  /\ j.otherKey # NoKey => j.cmd = "dedupe"
  /\ j.cmd = "dedupe" => j.other # j.on

\* A daemon writes its own vault and nothing else.
Serves(w, j, s) ==
  w \in Profile =>
    /\ j.on = w /\ j.otherKey = NoKey
    /\ s \in {"idle", "save", "staged", "filed"}
    /\ s # "idle" => j.then = "idle"

PlacesOK == \A w \in Writer : Placed(job[w], at[w]) /\ Serves(w, job[w], at[w])

\* There is a vault to recover.
Recovers(j, s) == s = "verify" => vault[j.on] # Missing
RecoversOK == \A w \in Writer : Recovers(job[w], at[w])

\* The file that is about to be replaced has been filed.
Filed(j, s) ==
  /\ rough = {}
  /\ s = "filed" \/ (s = "confirm" /\ j.cmd # "dedupe")
  /\ Complete(j.seen)
  => j.seen \in snaps[j.on]
FiledOK == \A w \in Writer : Filed(job[w], at[w])

\* A fresh key that may not be the profile's, and the key of the source that
\* `dedupe` uses for its target.
Unsettled(j, s) ==
  \/ s \in {"reset", "readd"} /\ j.then = "save"
  \/ s = "load" /\ j.key = j.otherKey

\* A job will use key k for profile p.
Carries(j, s, p, k) ==
  \/ /\ j.on = p /\ j.key = k /\ ~Unsettled(j, s)
     /\ s \in Keyed \ {"verify"} \/ (s \in Writing /\ j.then \in Keyed)
  \/ j.on = p /\ s \in Enveloped /\ j.env # None /\ j.env.key = k
  \/ j.other = p /\ s \notin {"idle", "done"} /\ j.otherKey = k

\* The keychain or the daemon has key k for profile p.
Has(p, k) == keychain[p] = k \/ (ram[p] # None /\ ram[p].key = k)
InUse(p, k) == Has(p, k) \/ (Complete(vault[p]) /\ vault[p].key = k)
KeyOf(p, k) == InUse(p, k) \/ \E w \in Writer : Carries(job[w], at[w], p, k)

\* A profile that did not stray has one key.
OneKey ==
  \A p \in Profile \ strayed : \A k, l \in Key : KeyOf(p, k) /\ KeyOf(p, l) => k = l

\* The recovery slot has the key of the payload, in the vaults, in their
\* snapshots and in the envelopes on their way.
Sound(f) == f.slot # None => f.slot.key = f.key
Safe == {p \in Profile \ strayed : p = Default => strayed = {}}
SoundFiles ==
  \A p \in Safe :
    /\ Complete(vault[p]) => Sound(vault[p])
    /\ \A f \in snaps[p] : Sound(f)
SoundJob(j, s, p) == j.on = p /\ s \in Enveloped /\ j.env # None => Sound(j.env)
SlotsOK == SoundFiles /\ \A p \in Safe, w \in Writer : SoundJob(job[w], at[w], p)

Parts == TypeOK /\ PlacesOK /\ RecoversOK /\ FiledOK /\ OneKey /\ SlotsOK

-----------------------------------------------------------------------------
(* One writer goes on.                                                     *)

FilesTyped ==
  /\ vault \in [Profile -> Envelope \cup {Missing, Torn}]
  /\ snaps \in [Profile -> SUBSET Envelope]
  /\ keychain \in [Profile -> Key \cup {NoKey}]
  /\ sealed \subseteq Profile
  /\ ram \in [Profile -> Store \cup {None}]
  /\ acked \subseteq Entry
  /\ strayed \subseteq Profile
  /\ rough \subseteq {"overlap", "unfiled", "repaired"}

\* No vault goes missing, no snapshot is removed, nothing is forgotten.
Grows ==
  /\ \A p \in Profile : vault[p] # Missing => vault'[p] # Missing
  /\ \A p \in Profile : snaps[p] \subseteq snaps'[p]
  /\ rough \subseteq rough' /\ strayed \subseteq strayed'

\* A writer goes on with job j at step s: what is true of every other job
\* stays true, and of this one it is shown.  No profile gets a second key: it
\* keeps those it has, or j is the first to have one.
LEMMA GoesOn ==
  ASSUME Parts, NEW w \in Writer, NEW j \in Job, NEW s \in Steps,
         at' = [at EXCEPT ![w] = s], job' = [job EXCEPT ![w] = j],
         FilesTyped', Grows, Placed(j, s), Serves(w, j, s),
         Recovers(j, s)', Filed(j, s)', SoundFiles',
         \A p \in Safe' : SoundJob(j, s, p),
         \A p \in Profile \ strayed' :
           \/ \A k \in Key : InUse(p, k)' \/ Carries(j, s, p, k) => KeyOf(p, k)
           \/ \A k \in Key : KeyOf(p, k)' => k = j.key
  PROVE  Parts'
<1>1. at \in [Writer -> Steps] /\ job \in [Writer -> Job]
  BY DEF Parts, TypeOK
<1>2. at' \in [Writer -> Steps] /\ job' \in [Writer -> Job]
  BY <1>1
<1>3. at'[w] = s /\ job'[w] = j /\ \A v \in Writer \ {w} : at'[v] = at[v] /\ job'[v] = job[v]
  BY <1>1
<1>4. TypeOK'
  BY <1>2 DEF TypeOK, FilesTyped
<1>5. PlacesOK'
  BY <1>3 DEF Parts, PlacesOK
<1>6. RecoversOK'
  <2> SUFFICES ASSUME NEW v \in Writer PROVE Recovers(job[v], at[v])'
    BY DEF RecoversOK
  <2>1. CASE v = w BY <2>1, <1>3 DEF Recovers
  <2>2. CASE v # w
    <3>1. job[v].on \in Profile BY <1>1 DEF Job
    <3> QED BY <3>1, <2>2, <1>3 DEF Recovers, Parts, RecoversOK, Grows
  <2> QED BY <2>1, <2>2
<1>7. FiledOK'
  <2> SUFFICES ASSUME NEW v \in Writer PROVE Filed(job[v], at[v])'
    BY DEF FiledOK
  <2>1. CASE v = w BY <2>1, <1>3 DEF Filed
  <2>2. CASE v # w
    <3>1. job[v].on \in Profile BY <1>1 DEF Job
    <3>2. rough' = {} => rough = {} BY DEF Grows
    <3> QED BY <3>1, <3>2, <2>2, <1>3 DEF Filed, Parts, FiledOK, Grows
  <2> QED BY <2>1, <2>2
<1>8. OneKey'
  <2>1. \A p \in Profile \ strayed' : p \in Profile \ strayed BY DEF Grows
  <2>2. ASSUME NEW p \in Profile \ strayed', NEW k \in Key, KeyOf(p, k)',
               \A l \in Key : InUse(p, l)' \/ Carries(j, s, p, l) => KeyOf(p, l)
        PROVE KeyOf(p, k)
    <3>1. CASE InUse(p, k)' BY <3>1, <2>2
    <3>2. CASE \E v \in Writer : Carries(job[v], at[v], p, k)'
      <4>1. PICK v \in Writer : Carries(job'[v], at'[v], p, k) BY <3>2
      <4>2. CASE v = w BY <4>1, <4>2, <1>3, <2>2
      <4>3. CASE v # w BY <4>1, <4>3, <1>3 DEF KeyOf
      <4> QED BY <4>2, <4>3
    <3> QED BY <2>2, <3>1, <3>2 DEF KeyOf
  <2> SUFFICES ASSUME NEW p \in Profile \ strayed', NEW k \in Key, NEW l \in Key,
                      KeyOf(p, k)', KeyOf(p, l)'
               PROVE k = l
    BY DEF OneKey
  <2>3. CASE \A m \in Key : InUse(p, m)' \/ Carries(j, s, p, m) => KeyOf(p, m)
    BY <2>1, <2>2, <2>3 DEF Parts, OneKey
  <2>4. CASE \A m \in Key : KeyOf(p, m)' => m = j.key BY <2>4
  <2> QED BY <2>3, <2>4
<1>9. SlotsOK'
  <2>1. \A p \in Safe' : p \in Safe BY DEF Safe, Grows
  <2>2. ASSUME NEW p \in Safe', NEW v \in Writer PROVE SoundJob(job'[v], at'[v], p)
    <3>1. CASE v = w BY <3>1, <1>3
    <3>2. CASE v # w BY <3>2, <1>3, <2>1 DEF Parts, SlotsOK
    <3> QED BY <3>1, <3>2
  <2> QED BY <2>2 DEF SlotsOK
<1> QED BY <1>4, <1>5, <1>6, <1>7, <1>8, <1>9 DEF Parts

\* A step that touches nothing but its job.
LEMMA Thinks ==
  ASSUME Parts, NEW w \in Writer, NEW j \in Job, NEW s \in Steps,
         at' = [at EXCEPT ![w] = s], job' = [job EXCEPT ![w] = j],
         UNCHANGED <<vault, snaps, item, ram, ghosts>>,
         Placed(j, s), Serves(w, j, s), Recovers(j, s), Filed(j, s),
         \A p \in Safe : SoundJob(j, s, p),
         \A p \in Profile \ strayed : \A k \in Key : Carries(j, s, p, k) => KeyOf(p, k)
  PROVE  Parts'
<1>1. /\ vault' = vault /\ snaps' = snaps /\ keychain' = keychain /\ sealed' = sealed
      /\ ram' = ram /\ acked' = acked /\ strayed' = strayed /\ rough' = rough
  BY DEF item, ghosts
<1>2. FilesTyped' BY <1>1 DEF Parts, TypeOK, FilesTyped
<1>3. Grows BY <1>1 DEF Grows
<1>4. Recovers(j, s)' BY <1>1 DEF Recovers
<1>5. Filed(j, s)' BY <1>1 DEF Filed
<1>6. SoundFiles' BY <1>1 DEF Parts, SlotsOK, SoundFiles, Safe
<1>7. \A p \in Safe' : SoundJob(j, s, p) BY <1>1 DEF Safe
<1>8. \A p \in Profile \ strayed' : \A k \in Key :
        InUse(p, k)' \/ Carries(j, s, p, k) => KeyOf(p, k)
  BY <1>1 DEF InUse, Has, KeyOf
<1> QED BY <1>2, <1>3, <1>4, <1>5, <1>6, <1>7, <1>8, GoesOn

-----------------------------------------------------------------------------
(* What is known of a job.                                                 *)

LEMMA TheJob ==
  ASSUME Parts, NEW c \in Client
  PROVE  /\ c \in Writer /\ c \notin Profile /\ job[c] \in Job /\ at[c] \in Steps
         /\ Placed(job[c], at[c]) /\ Recovers(job[c], at[c]) /\ Filed(job[c], at[c])
         /\ \A p \in Safe : SoundJob(job[c], at[c], p)
         /\ \A p \in Profile : \A k : Carries(job[c], at[c], p, k) => KeyOf(p, k)
<1>1. c \in Writer /\ c \notin Profile BY NamesAssumption DEF Writer
<1> QED BY <1>1 DEF Parts, TypeOK, PlacesOK, RecoversOK, FiledOK, SlotsOK, Serves, KeyOf

\* What a job knows of its profile.
LEMMA TheFields ==
  ASSUME NEW j \in Job
  PROVE  /\ j.cmd \in CommandName \cup {"serve"} /\ j.on \in Profile /\ j.then \in Steps
         /\ j.key \in Key \cup {NoKey} /\ j.data \subseteq Entry
         /\ j.other \in Profile /\ j.otherKey \in Key \cup {NoKey} /\ j.otherData \subseteq Entry
         /\ j.env \in Envelope \cup {None}
         /\ j.base \in Envelope \cup {Missing, Torn} /\ j.seen \in Envelope \cup {Missing, Torn}
BY DEF Job

LEMMA Proceeds ==
  ASSUME NEW c \in Client, job[c] \in Job
  PROVE  /\ Proceed(c) \in {"query", "slot", "blank", "swap", "load", "done"}
         /\ Proceed(c) = "slot" => job[c].cmd = "new"
         /\ Proceed(c) = "load" => job[c].otherKey # NoKey
         /\ Proceed(c) \in {"swap", "load"} => job[c].cmd = "dedupe"
BY DEF Proceed

\* A client goes on to a step that has no envelope in hand.
LEMMA Decides ==
  ASSUME Parts, NEW c \in Client, NEW j \in Job, NEW s \in Steps \ Enveloped,
         at' = [at EXCEPT ![c] = s], job' = [job EXCEPT ![c] = j],
         UNCHANGED <<vault, snaps, item, ram, ghosts>>,
         Placed(j, s), Recovers(j, s),
         \A p \in Profile \ strayed : \A k \in Key : Carries(j, s, p, k) => KeyOf(p, k)
  PROVE  Parts'
<1>1. c \in Writer /\ Serves(c, j, s) BY TheJob DEF Serves
<1>2. Filed(j, s) BY DEF Filed, Enveloped
<1>3. \A p \in Safe : SoundJob(j, s, p) BY DEF SoundJob
<1> QED BY <1>1, <1>2, <1>3, Thinks

-----------------------------------------------------------------------------
(* The steps that only think.                                              *)

LEMMA Starts ==
  ASSUME Parts, NEW c \in Client, NEW cmd \in CommandName, NEW p \in Profile, NEW q \in Profile,
         NEW s \in {"init", "read", "copy"}, Start(c, cmd, p, q, s),
         cmd = "dedupe" => p # q
  PROVE  Parts'
<1> DEFINE j == [NoJob(c) EXCEPT !.cmd = cmd, !.on = p, !.other = q]
<1>1. /\ j.cmd = cmd /\ j.on = p /\ j.other = q /\ j.then = "done" /\ j.key = NoKey
      /\ j.otherKey = NoKey
  BY DEF NoJob
<1>2. j \in Job /\ s \in Steps \ Enveloped
  BY NamesAssumption DEF NoJob, Job, Steps, Home, Enveloped
<1>3. at' = [at EXCEPT ![c] = s] /\ job' = [job EXCEPT ![c] = j]
      /\ UNCHANGED <<vault, snaps, item, ram, ghosts>>
  BY DEF Start, Goto
<1> HIDE DEF j
<1>4. Placed(j, s) BY <1>1 DEF Placed, Fit, Keyed, Writing
<1>5. Recovers(j, s) BY <1>1 DEF Recovers
<1>6. \A r \in Profile \ strayed : \A k \in Key : Carries(j, s, r, k) => KeyOf(r, k)
  BY <1>1, NamesAssumption DEF Carries, Keyed, Writing, Enveloped
<1> QED BY <1>2, <1>3, <1>4, <1>5, <1>6, Decides

LEMMA EndsKeeps == ASSUME Parts, NEW c \in Client, Ends(c) PROVE Parts'
<1> DEFINE j == NoJob(c)
<1>1. j.then = "done" /\ j.cmd = "serve" /\ j.key = NoKey /\ j.otherKey = NoKey /\ j.env = None
  BY DEF NoJob
<1>2. j \in Job /\ "done" \in Steps \ Enveloped
  BY NamesAssumption DEF NoJob, Job, Steps, Home, Enveloped
<1>3. at' = [at EXCEPT ![c] = "done"] /\ job' = [job EXCEPT ![c] = j]
      /\ UNCHANGED <<vault, snaps, item, ram, ghosts>>
  BY DEF Ends, Goto
<1> HIDE DEF j
<1>4. Placed(j, "done") BY <1>1 DEF Placed, Fit, Keyed, Writing
<1>5. Recovers(j, "done") BY DEF Recovers
<1>6. \A p \in Profile \ strayed : \A k \in Key : Carries(j, "done", p, k) => KeyOf(p, k)
  BY DEF Carries, Keyed, Writing, Enveloped
<1> QED BY <1>2, <1>3, <1>4, <1>5, <1>6, Decides

LEMMA InitKeeps == ASSUME Parts, NEW c \in Client, InitializeMasterKey(c) PROVE Parts'
<1>1. /\ c \in Writer /\ job[c] \in Job /\ at[c] = "init" /\ Placed(job[c], "init")
      /\ keychain[job[c].on] \in Key \cup {NoKey} /\ job[c].on \in Profile
  BY TheJob, TheFields DEF InitializeMasterKey, Parts, TypeOK
<1>2. UNCHANGED <<vault, snaps, item, ram, ghosts>> BY DEF InitializeMasterKey
<1>3. CASE keychain[job[c].on] # NoKey /\ job' = [job EXCEPT ![c].key = keychain[job[c].on]]
           /\ (Goto(c, Proceed(c)) \/ Goto(c, "reset"))
  <2>1. PICK j : j = [job[c] EXCEPT !.key = keychain[job[c].on]] OBVIOUS
  <2>2. PICK s \in {Proceed(c), "reset"} : at' = [at EXCEPT ![c] = s] BY <1>3 DEF Goto
  <2>3. j \in Job BY <1>1, <2>1 DEF Job
  <2>4. /\ j.key = keychain[j.on] /\ j.key \in Key /\ j.on = job[c].on /\ j.other = job[c].other
        /\ j.otherKey = job[c].otherKey /\ j.then = job[c].then /\ j.cmd = job[c].cmd
    BY <1>1, <1>3, <2>1 DEF Job
  <2>5. job' = [job EXCEPT ![c] = j] BY <1>3, <2>1
  <2>6. s \in {"query", "slot", "blank", "swap", "load", "done", "reset"}
        /\ (s = "slot" => j.cmd = "new") /\ (s = "load" => j.otherKey \in Key)
        /\ (s \in {"swap", "load"} => j.cmd = "dedupe")
    BY <1>1, <2>2, <2>3, <2>4, Proceeds, TheFields
  <2>7. s \in Steps \ Enveloped BY <2>6 DEF Steps, Enveloped
  <2>8. Placed(j, s) BY <1>1, <2>4, <2>6 DEF Placed, Fit, Writing
  <2>9. Recovers(j, s) BY <2>6 DEF Recovers
  <2>10. \A p \in Profile \ strayed : \A k \in Key : Carries(j, s, p, k) => KeyOf(p, k)
    BY <1>1, <2>4, <2>6 DEF Carries, Enveloped, KeyOf, InUse, Has
  <2> QED BY <1>2, <2>2, <2>3, <2>5, <2>7, <2>8, <2>9, <2>10, Decides
<1>4. CASE vault[job[c].on] = Missing /\ Goto(c, "reset")
           /\ job' = [job EXCEPT ![c].key = FreshKey(c), ![c].then = "save", ![c].seen = Missing]
  <2>1. PICK j : j = [job[c] EXCEPT !.key = FreshKey(c), !.then = "save", !.seen = Missing] OBVIOUS
  <2>2. FreshKey(c) \in Key BY <1>1 DEF FreshKey, Key
  <2>3. j \in Job BY <1>1, <2>1, <2>2 DEF Job, Steps
  <2>4. /\ j.key \in Key /\ j.on = job[c].on /\ j.other = job[c].other /\ j.seen = Missing
        /\ j.cmd = job[c].cmd
        /\ j.otherKey = job[c].otherKey /\ j.then = "save"
    BY <1>1, <2>1, <2>2 DEF Job
  <2>5. job' = [job EXCEPT ![c] = j] BY <1>4, <2>1
  <2>6. at' = [at EXCEPT ![c] = "reset"] /\ "reset" \in Steps \ Enveloped
    BY <1>4 DEF Goto, Steps, Enveloped
  <2>7. Placed(j, "reset") BY <1>1, <2>4 DEF Placed, Fit, Writing
  <2>8. Recovers(j, "reset") BY DEF Recovers
  <2>9. \A p \in Profile \ strayed : \A k \in Key : Carries(j, "reset", p, k) => KeyOf(p, k)
    BY <1>1, <2>4 DEF Carries, Unsettled, Enveloped, KeyOf
  <2> QED BY <1>2, <2>3, <2>5, <2>6, <2>7, <2>8, <2>9, Decides
<1> QED BY <1>3, <1>4 DEF InitializeMasterKey

LEMMA FallBackKeeps == ASSUME Parts, NEW c \in Client, FallBack(c) PROVE Parts'
<1>1. c \in Writer /\ job[c] \in Job /\ Placed(job[c], at[c]) /\ at[c] \in {"init", "readd"}
      /\ job[c].cmd = "dedupe"
  BY TheJob DEF FallBack
<1>2. /\ at' = [at EXCEPT ![c] = "load"] /\ "load" \in Steps \ Enveloped
      /\ UNCHANGED <<vault, snaps, item, ram, ghosts>>
  BY DEF FallBack, Goto, Steps, Enveloped
<1>3. PICK j : j = [job[c] EXCEPT !.key = job[c].otherKey] OBVIOUS
<1>4. job[c].otherKey \in Key BY <1>1, TheFields DEF FallBack
<1>5. j \in Job BY <1>1, <1>3, <1>4 DEF Job
<1>6. /\ j.key = job[c].otherKey /\ j.on = job[c].on /\ j.other = job[c].other
      /\ j.otherKey = job[c].otherKey /\ j.cmd = "dedupe"
  BY <1>1, <1>3 DEF Job, FallBack
<1>7. job' = [job EXCEPT ![c] = j] BY <1>3 DEF FallBack
<1>8. Placed(j, "load") BY <1>1, <1>4, <1>6 DEF Placed, Fit, Writing
<1>9. Recovers(j, "load") BY DEF Recovers
<1>10. \A p \in Profile \ strayed : \A k \in Key : Carries(j, "load", p, k) => KeyOf(p, k)
  BY <1>1, <1>6 DEF Carries, Unsettled, Enveloped, KeyOf
<1> QED BY <1>2, <1>5, <1>7, <1>8, <1>9, <1>10, Decides

\* After a key that was there before has been sealed again, or was not.
LEMMA Resumes ==
  ASSUME Parts, NEW c \in Client, at[c] = "readd", job[c].then # "save"
  PROVE  /\ Resume(c) \in Steps \ Enveloped /\ Placed(job[c], Resume(c))
         /\ Recovers(job[c], Resume(c))
         /\ \A p \in Profile : \A k \in Key :
              Carries(job[c], Resume(c), p, k) => Carries(job[c], "readd", p, k)
<1>1. job[c] \in Job /\ Placed(job[c], "readd") BY TheJob
<1>2. /\ Resume(c) \in {"evict", "query", "slot", "blank", "swap", "load", "done"}
      /\ Resume(c) = "slot" => job[c].cmd = "new"
      /\ Resume(c) = "load" => job[c].otherKey \in Key
      /\ Resume(c) \in {"swap", "load"} => job[c].cmd = "dedupe"
  BY <1>1, Proceeds, TheFields DEF Resume
<1>3. Resume(c) \in Steps \ Enveloped BY <1>2 DEF Steps, Enveloped
<1>4. Placed(job[c], Resume(c)) BY <1>1, <1>2 DEF Placed, Fit, Writing, Keyed
<1>5. Recovers(job[c], Resume(c)) BY <1>2 DEF Recovers
<1>6. \A p \in Profile : \A k \in Key :
        Carries(job[c], Resume(c), p, k) => Carries(job[c], "readd", p, k)
  BY <1>2 DEF Carries, Unsettled, Enveloped, Keyed, Writing
<1> QED BY <1>3, <1>4, <1>5, <1>6

LEMMA AddItemFailsKeeps == ASSUME Parts, NEW c \in Client, AddItemFails(c) PROVE Parts'
<1>1. c \in Writer /\ job[c] \in Job /\ job \in [Writer -> Job] BY TheJob DEF Parts, TypeOK
<1>2. at[c] = "readd" /\ job[c].then # "save" BY DEF AddItemFails
<1>3. PICK j \in Job : j = job[c] BY <1>1
<1>4. PICK s \in Steps \ Enveloped : s = Resume(c) BY <1>2, Resumes
<1>5. at' = [at EXCEPT ![c] = s] /\ job' = [job EXCEPT ![c] = j]
      /\ UNCHANGED <<vault, snaps, item, ram, ghosts>>
  BY <1>1, <1>3, <1>4 DEF AddItemFails, Goto
<1>6. Placed(j, s) /\ Recovers(j, s) BY <1>2, <1>3, <1>4, Resumes
<1>7. \A p \in Profile \ strayed : \A k \in Key : Carries(j, s, p, k) => KeyOf(p, k)
  BY <1>1, <1>2, <1>3, <1>4, Resumes DEF KeyOf
<1> QED BY <1>5, <1>6, <1>7, Decides

LEMMA SaveEmptyKeeps == ASSUME Parts, NEW c \in Client, SaveEmpty(c) PROVE Parts'
<1>1. c \in Writer /\ job[c] \in Job /\ at[c] = "blank" /\ Placed(job[c], "blank")
  BY TheJob DEF SaveEmpty
<1>2. PICK j : j = [job[c] EXCEPT !.then = "read", !.data = {}] OBVIOUS
<1>3. j \in Job BY <1>1, <1>2 DEF Job, Steps
<1>4. /\ j.key = job[c].key /\ j.on = job[c].on /\ j.other = job[c].other
      /\ j.otherKey = job[c].otherKey /\ j.then = "read" /\ j.cmd = job[c].cmd
  BY <1>1, <1>2 DEF Job
<1>5. /\ at' = [at EXCEPT ![c] = "save"] /\ "save" \in Steps \ Enveloped
      /\ job' = [job EXCEPT ![c] = j] /\ UNCHANGED <<vault, snaps, item, ram, ghosts>>
  BY <1>2 DEF SaveEmpty, Goto, Steps, Enveloped
<1>6. Placed(j, "save") BY <1>1, <1>4 DEF Placed, Fit, Writing, Keyed
<1>7. Recovers(j, "save") BY DEF Recovers
<1>8. \A p \in Profile \ strayed : \A k \in Key : Carries(j, "save", p, k) => KeyOf(p, k)
  BY <1>1, <1>4 DEF Carries, Unsettled, Enveloped, KeyOf, Keyed
<1> QED BY <1>3, <1>5, <1>6, <1>7, <1>8, Decides

\* Two keys of a profile that did not stray are one.
LEMMA SameKey ==
  ASSUME Parts, NEW p \in Profile \ strayed, NEW k \in Key, NEW l \in Key,
         KeyOf(p, k), KeyOf(p, l)
  PROVE  k = l
BY DEF Parts, OneKey

LEMMA EnrolSlotKeeps == ASSUME Parts, NEW c \in Client, EnrolSlot(c) PROVE Parts'
<1>1. /\ c \in Writer /\ job[c] \in Job /\ at[c] = "slot" /\ Placed(job[c], "slot")
      /\ job[c].on \in Profile /\ vault[job[c].on] \in Envelope \cup {Missing, Torn}
  BY TheJob, TheFields DEF EnrolSlot, Parts, TypeOK
<1>2. UNCHANGED <<vault, snaps, item, ram, ghosts>> BY DEF EnrolSlot
<1>3. CASE vault[job[c].on] = Missing
  <2>1. PICK j : j = [job[c] EXCEPT !.then = "slot", !.data = {}] OBVIOUS
  <2>2. j \in Job BY <1>1, <2>1 DEF Job, Steps
  <2>3. /\ j.key = job[c].key /\ j.on = job[c].on /\ j.other = job[c].other
        /\ j.otherKey = job[c].otherKey /\ j.then = "slot" /\ j.cmd = job[c].cmd
    BY <1>1, <2>1 DEF Job
  <2>4. /\ at' = [at EXCEPT ![c] = "save"] /\ "save" \in Steps \ Enveloped
        /\ job' = [job EXCEPT ![c] = j]
    BY <1>3, <2>1 DEF EnrolSlot, Goto, Steps, Enveloped
  <2>5. Placed(j, "save") BY <1>1, <2>3 DEF Placed, Fit, Writing, Keyed
  <2>6. Recovers(j, "save") BY DEF Recovers
  <2>7. \A p \in Profile \ strayed : \A k \in Key : Carries(j, "save", p, k) => KeyOf(p, k)
    BY <1>1, <2>3 DEF Carries, Unsettled, Enveloped, KeyOf, Keyed
  <2> QED BY <1>2, <2>2, <2>4, <2>5, <2>6, <2>7, Decides
<1>4. CASE vault[job[c].on] # Missing
  <2>1. PICK v \in Envelope : v = vault[job[c].on] /\ IsV2(v)
    BY <1>1, <1>4 DEF EnrolSlot, IsV2, Complete
  <2>2. PICK t \in {v.summary, c} :
          /\ job' = [job EXCEPT ![c].then = "done", ![c].base = v,
               ![c].env = [v EXCEPT !.format = "v2",
                             !.slot = [seed |-> c, key |-> job[c].key], !.summary = t]]
          /\ at' = [at EXCEPT ![c] = "staged"]
    BY <1>4, <2>1 DEF EnrolSlot, Goto
  <2>3. PICK e : e = [v EXCEPT !.format = "v2", !.slot = [seed |-> c, key |-> job[c].key],
                               !.summary = t]
    OBVIOUS
  <2>4. job[c].key \in Key BY <1>1 DEF Placed, Fit, Keyed
  <2>5. /\ e \in Envelope /\ e.key = v.key /\ e.slot = [seed |-> c, key |-> job[c].key]
        /\ e.slot # None
    <3>1. PICK l : l = [seed |-> c, key |-> job[c].key] OBVIOUS
    <3>2. l \in Slot BY <2>4, <3>1 DEF Slot
    <3>3. l # None BY <3>2, NamesAssumption
    <3>4. e = [v EXCEPT !.format = "v2", !.slot = l, !.summary = t] BY <2>3, <3>1
    <3>5. t \in Client \cup {Origin, None} BY DEF Envelope
    <3>6. e \in Envelope BY <3>2, <3>4, <3>5 DEF Envelope
    <3>7. e.key = v.key /\ e.slot = l BY <3>4 DEF Envelope
    <3> QED BY <3>1, <3>3, <3>6, <3>7
  <2>6. PICK j : j = [job[c] EXCEPT !.then = "done", !.base = v, !.env = e] OBVIOUS
  <2>7. j \in Job BY <1>1, <2>5, <2>6 DEF Job, Steps
  <2>8. /\ j.key = job[c].key /\ j.on = job[c].on /\ j.other = job[c].other /\ j.then = "done"
        /\ j.otherKey = job[c].otherKey /\ j.cmd = job[c].cmd /\ j.base = v /\ j.env = e
    BY <1>1, <2>6 DEF Job
  <2>9. job' = [job EXCEPT ![c] = j] BY <2>2, <2>3, <2>6
  <2>10. Placed(j, "staged")
    BY <1>1, <2>5, <2>8 DEF Placed, Fit, Writing, Keyed, Takes
  <2>11. Recovers(j, "staged") /\ Filed(j, "staged") BY DEF Recovers, Filed
  <2>12. ASSUME NEW p \in Safe PROVE SoundJob(j, "staged", p)
    <3> SUFFICES ASSUME job[c].on = p PROVE e.slot.key = e.key
      BY <2>8 DEF SoundJob, Sound
    <3>1. v.key \in Key BY DEF Envelope
    <3>2. KeyOf(p, v.key) BY <2>1 DEF KeyOf, InUse, Has, IsV2
    <3>3. KeyOf(p, job[c].key) BY <1>1 DEF KeyOf, Carries, Keyed, Unsettled
    <3> QED BY <2>4, <2>5, <3>1, <3>2, <3>3, SameKey DEF Safe
  <2>13. \A p \in Profile \ strayed : \A k \in Key : Carries(j, "staged", p, k) => KeyOf(p, k)
    BY <1>1, <2>1, <2>5, <2>8 DEF Carries, Unsettled, KeyOf, Keyed, InUse, Has, IsV2
  <2>14. Serves(c, j, "staged") /\ "staged" \in Steps BY TheJob DEF Serves, Steps
  <2> QED BY <1>1, <1>2, <2>2, <2>7, <2>9, <2>10, <2>11, <2>12, <2>13, <2>14, Thinks
<1> QED BY <1>3, <1>4

LEMMA MigrateKeeps == ASSUME Parts, NEW c \in Client, Migrate(c) PROVE Parts'
<1>1. /\ c \in Writer /\ job[c] \in Job /\ at[c] = "read" /\ Placed(job[c], "read")
      /\ job[c].on \in Profile
  BY TheJob, TheFields DEF Migrate
<1>2. PICK v \in Envelope : v = vault[job[c].on] /\ Complete(v)
  BY <1>1 DEF Migrate, Complete, Parts, TypeOK
<1>3. /\ keychain[job[c].on] = v.key /\ v.key \in Key /\ job[c].cmd \in {"migrate", "init"}
      /\ UNCHANGED <<vault, snaps, item, ram, ghosts>> /\ at' = [at EXCEPT ![c] = "staged"]
  BY <1>2 DEF Migrate, Goto, Envelope
<1>4. PICK e : e = [format |-> "v2", key |-> v.key, data |-> v.data, summary |-> None,
                    slot |-> [seed |-> c, key |-> v.key]]
  OBVIOUS
<1>5. /\ e \in Envelope /\ e.key = v.key /\ e.slot = [seed |-> c, key |-> v.key]
      /\ e.slot # None
  BY <1>3, <1>4, NamesAssumption DEF Envelope, Slot
<1>6. PICK j : j = [job[c] EXCEPT !.then = "reset", !.key = v.key, !.base = v, !.env = e]
  OBVIOUS
<1>7. j \in Job BY <1>1, <1>3, <1>5, <1>6 DEF Job, Steps
<1>8. /\ j.key = v.key /\ j.on = job[c].on /\ j.other = job[c].other /\ j.then = "reset"
      /\ j.otherKey = job[c].otherKey /\ j.cmd = job[c].cmd /\ j.base = v /\ j.env = e
  BY <1>1, <1>6 DEF Job
<1>9. job' = [job EXCEPT ![c] = j] BY <1>2, <1>3, <1>4, <1>6 DEF Migrate
<1>10. Placed(j, "staged")
  BY <1>1, <1>3, <1>5, <1>8 DEF Placed, Fit, Writing, Keyed, Takes
<1>11. Recovers(j, "staged") /\ Filed(j, "staged") BY DEF Recovers, Filed
<1>12. \A p \in Safe : SoundJob(j, "staged", p) BY <1>5, <1>8 DEF SoundJob, Sound
<1>13. \A p \in Profile \ strayed : \A k \in Key : Carries(j, "staged", p, k) => KeyOf(p, k)
  BY <1>1, <1>3, <1>5, <1>8 DEF Carries, KeyOf, InUse, Has
<1>14. Serves(c, j, "staged") /\ "staged" \in Steps BY TheJob DEF Serves, Steps
<1> QED BY <1>1, <1>3, <1>7, <1>9, <1>10, <1>11, <1>12, <1>13, <1>14, Thinks

LEMMA UnwrapKeeps == ASSUME Parts, NEW c \in Client, Unwrap(c) PROVE Parts'
<1>1. /\ c \in Writer /\ job[c] \in Job /\ at[c] = "read" /\ Placed(job[c], "read")
      /\ Recovers(job[c], "read") /\ job[c].on \in Profile
  BY TheJob, TheFields DEF Unwrap
<1>2. vault[job[c].on] \in Envelope /\ vault[job[c].on].slot \in Slot
  BY <1>1 DEF Unwrap, HasSlot, IsV2, Complete, Parts, TypeOK, Envelope
<1>3. PICK j : j = [job[c] EXCEPT !.key = vault[job[c].on].slot.key] OBVIOUS
<1>4. vault[job[c].on].slot.key \in Key BY <1>2 DEF Slot
<1>5. j \in Job BY <1>1, <1>3, <1>4 DEF Job
<1>6. /\ j.key \in Key /\ j.on = job[c].on /\ j.other = job[c].other /\ j.then = job[c].then
      /\ j.otherKey = job[c].otherKey /\ j.cmd = job[c].cmd
  BY <1>1, <1>3, <1>4 DEF Job
<1>7. /\ at' = [at EXCEPT ![c] = "verify"] /\ "verify" \in Steps \ Enveloped
      /\ job' = [job EXCEPT ![c] = j] /\ UNCHANGED <<vault, snaps, item, ram, ghosts>>
  BY <1>3 DEF Unwrap, Goto, Steps, Enveloped
<1>8. Placed(j, "verify") BY <1>1, <1>6 DEF Placed, Fit, Writing
<1>9. Recovers(j, "verify") BY <1>2, <1>6 DEF Unwrap, HasSlot, IsV2, Complete, Recovers
<1>10. \A p \in Profile \ strayed : \A k \in Key : Carries(j, "verify", p, k) => KeyOf(p, k)
  BY <1>1, <1>6 DEF Carries, Enveloped, Writing, KeyOf
<1> QED BY <1>5, <1>7, <1>8, <1>9, <1>10, Decides

\* The key that was unwrapped is the profile's: it loads a vault.
LEMMA VerifyKeeps == ASSUME Parts, NEW c \in Client, Verify(c) PROVE Parts'
<1>1. /\ c \in Writer /\ job[c] \in Job /\ at[c] = "verify" /\ Placed(job[c], "verify")
      /\ Recovers(job[c], "verify") /\ job[c].on \in Profile /\ job \in [Writer -> Job]
  BY TheJob, TheFields DEF Verify, Parts, TypeOK
<1>2. /\ at' = [at EXCEPT ![c] = "reset"] /\ "reset" \in Steps \ Enveloped
      /\ job' = [job EXCEPT ![c] = job[c]] /\ UNCHANGED <<vault, snaps, item, ram, ghosts>>
  BY <1>1 DEF Verify, Goto, Steps, Enveloped
<1>3. PICK j \in Job : j = job[c] BY <1>1
<1>4. Placed(j, "reset") BY <1>1, <1>3 DEF Placed, Fit, Writing, Keyed
<1>5. Recovers(j, "reset") BY DEF Recovers
<1>6. KeyOf(j.on, j.key)
  <2>1. vault[j.on] # Missing BY <1>1, <1>3 DEF Recovers
  <2> QED BY <1>3, <2>1 DEF Verify, Loads, KeyOf, InUse, Has
<1>7. \A p \in Profile \ strayed : \A k \in Key : Carries(j, "reset", p, k) => KeyOf(p, k)
  BY <1>1, <1>3, <1>6 DEF Carries, Enveloped, KeyOf
<1> QED BY <1>2, <1>3, <1>4, <1>5, <1>7, Decides

LEMMA PruneKeeps == ASSUME Parts, NEW c \in Client, Prune(c) PROVE Parts'
<1>1. /\ c \in Writer /\ job[c] \in Job /\ at[c] = "read" /\ Placed(job[c], "read")
      /\ job[c].on \in Profile /\ keychain[job[c].on] \in Key
  BY TheJob, TheFields DEF Prune, Parts, TypeOK
<1>2. PICK j : j = [job[c] EXCEPT !.key = keychain[job[c].on]] OBVIOUS
<1>3. j \in Job BY <1>1, <1>2 DEF Job
<1>4. /\ j.key = keychain[j.on] /\ j.on = job[c].on /\ j.other = job[c].other
      /\ j.then = job[c].then /\ j.otherKey = job[c].otherKey /\ j.cmd = job[c].cmd
  BY <1>1, <1>2 DEF Job
<1>5. /\ at' = [at EXCEPT ![c] = "reset"] /\ "reset" \in Steps \ Enveloped
      /\ job' = [job EXCEPT ![c] = j] /\ UNCHANGED <<vault, snaps, item, ram, ghosts>>
  BY <1>2 DEF Prune, Goto, Steps, Enveloped
<1>6. Placed(j, "reset") BY <1>1, <1>4 DEF Placed, Fit, Writing
<1>7. Recovers(j, "reset") BY DEF Recovers
<1>8. \A p \in Profile \ strayed : \A k \in Key : Carries(j, "reset", p, k) => KeyOf(p, k)
  BY <1>1, <1>4 DEF Carries, Enveloped, KeyOf, InUse, Has
<1> QED BY <1>3, <1>5, <1>6, <1>7, <1>8, Decides

\* An envelope that differs from the vault in its format and its summary.
LEMMA Edits ==
  ASSUME Parts, NEW c \in Client, at[c] = "read", NEW v \in Envelope, v = vault[job[c].on],
         IsV2(v), NEW t \in {v.summary, c, None},
         job[c].cmd = "summary" \/ t = v.summary,
         job' = [job EXCEPT ![c].base = v,
                            ![c].env = [v EXCEPT !.format = "v2", !.summary = t]],
         at' = [at EXCEPT ![c] = "staged"], UNCHANGED <<vault, snaps, item, ram, ghosts>>
  PROVE  Parts'
<1>1. /\ c \in Writer /\ job[c] \in Job /\ Placed(job[c], "read") /\ job[c].on \in Profile
  BY TheJob, TheFields
<1>2. PICK e : e = [v EXCEPT !.format = "v2", !.summary = t] OBVIOUS
<1>3. /\ e \in Envelope /\ e.key = v.key /\ e.slot = v.slot /\ e.summary = t
  <2>1. t \in Client \cup {Origin, None} BY DEF Envelope
  <2> QED BY <1>2, <2>1 DEF Envelope
<1>4. PICK j : j = [job[c] EXCEPT !.base = v, !.env = e] OBVIOUS
<1>5. j \in Job BY <1>1, <1>3, <1>4 DEF Job
<1>6. /\ j.key = job[c].key /\ j.on = job[c].on /\ j.other = job[c].other
      /\ j.then \in {"read", "done"} /\ j.otherKey = job[c].otherKey /\ j.cmd = job[c].cmd
      /\ j.base = v /\ j.env = e
  BY <1>1, <1>4 DEF Job, Placed, Fit
<1>7. job' = [job EXCEPT ![c] = j] BY <1>2, <1>4
<1>8. Placed(j, "staged") BY <1>1, <1>3, <1>6 DEF Placed, Fit, Writing, Keyed, Takes
<1>9. Recovers(j, "staged") /\ Filed(j, "staged") BY DEF Recovers, Filed
<1>10. \A p \in Safe : SoundJob(j, "staged", p)
  BY <1>3, <1>6 DEF Parts, SlotsOK, SoundFiles, SoundJob, Sound, IsV2
<1>11. \A p \in Profile \ strayed : \A k \in Key : Carries(j, "staged", p, k) => KeyOf(p, k)
  BY <1>1, <1>3, <1>6 DEF Carries, Keyed, KeyOf, InUse, Has, IsV2
<1>12. Serves(c, j, "staged") /\ "staged" \in Steps BY TheJob DEF Serves, Steps
<1> QED BY <1>1, <1>5, <1>7, <1>8, <1>9, <1>10, <1>11, <1>12, Thinks

LEMMA SummaryKeeps == ASSUME Parts, NEW c \in Client, UpdateProfileSummary(c) PROVE Parts'
<1>1. PICK v \in Envelope : v = vault[job[c].on] /\ IsV2(v)
  BY TheJob, TheFields DEF UpdateProfileSummary, IsV2, Complete, Parts, TypeOK
<1>2. PICK t \in {None, c} :
        /\ job' = [job EXCEPT ![c].base = v,
                              ![c].env = [v EXCEPT !.format = "v2", !.summary = t]]
        /\ at' = [at EXCEPT ![c] = "staged"]
  BY <1>1 DEF UpdateProfileSummary, Goto
<1>3. at[c] = "read" /\ job[c].cmd = "summary" /\ UNCHANGED <<vault, snaps, item, ram, ghosts>>
  BY DEF UpdateProfileSummary
<1> QED BY <1>1, <1>2, <1>3, Edits

LEMMA FlattenKeeps == ASSUME Parts, NEW c \in Client, FlattenVaultFile(c) PROVE Parts'
<1>1. PICK v \in Envelope : v = vault[job[c].on] /\ IsV2(v)
  BY TheJob, TheFields DEF FlattenVaultFile, Nested, IsV2, Complete, Parts, TypeOK
<1>2. [v EXCEPT !.format = "v2"] = [v EXCEPT !.format = "v2", !.summary = v.summary]
  BY DEF Envelope
<1>3. /\ job' = [job EXCEPT ![c].base = v,
                            ![c].env = [v EXCEPT !.format = "v2", !.summary = v.summary]]
      /\ at' = [at EXCEPT ![c] = "staged"]
  BY <1>1, <1>2 DEF FlattenVaultFile, Goto
<1>4. at[c] = "read" /\ UNCHANGED <<vault, snaps, item, ram, ghosts>> BY DEF FlattenVaultFile
<1> QED BY <1>1, <1>3, <1>4, Edits

LEMMA TurnKeeps == ASSUME Parts, NEW c \in Client, Turn(c) PROVE Parts'
<1>1. /\ c \in Writer /\ job[c] \in Job /\ at[c] \in {"swap", "second"}
      /\ Placed(job[c], at[c])
  BY TheJob DEF Turn
<1>2. PICK j : j = [job[c] EXCEPT !.on = job[c].other, !.other = job[c].on,
                      !.key = job[c].otherKey, !.otherKey = job[c].key,
                      !.data = job[c].otherData, !.then = "done"]
  OBVIOUS
<1>3. j \in Job BY <1>1, <1>2 DEF Job, Steps
<1>4. /\ j.key = job[c].otherKey /\ j.on = job[c].other /\ j.other = job[c].on
      /\ j.otherKey = job[c].key /\ j.then = "done" /\ j.cmd = "dedupe"
  BY <1>1, <1>2 DEF Job, Placed, Fit
<1>5. PICK s : s = IF at[c] = "swap" THEN "init" ELSE "save" OBVIOUS
<1>6. /\ at' = [at EXCEPT ![c] = s] /\ s \in Steps \ Enveloped
      /\ job' = [job EXCEPT ![c] = j] /\ UNCHANGED <<vault, snaps, item, ram, ghosts>>
  BY <1>2, <1>5 DEF Turn, Goto, Steps, Enveloped
<1>7. Placed(j, s) BY <1>1, <1>4, <1>5 DEF Placed, Fit, Writing, Keyed
<1>8. Recovers(j, s) BY <1>5 DEF Recovers
<1>9. \A p \in Profile \ strayed : \A k \in Key : Carries(j, s, p, k) => KeyOf(p, k)
  <2> SUFFICES ASSUME NEW p \in Profile \ strayed, NEW k \in Key, Carries(j, s, p, k)
               PROVE Carries(job[c], at[c], p, k)
    BY <1>1 DEF KeyOf
  <2>1. CASE j.on = p /\ j.key = k BY <1>1, <1>4, <2>1 DEF Carries
  <2>2. CASE j.other = p /\ j.otherKey = k
    BY <1>1, <1>4, <2>2 DEF Carries, Keyed, Unsettled
  <2> QED BY <2>1, <2>2, <1>5 DEF Carries, Enveloped
<1> QED BY <1>3, <1>6, <1>7, <1>8, <1>9, Decides

\* SaveStore, by whoever: the key is the profile's, and so is the slot of the
\* file on disk.
LEMMA SaveKeeps == ASSUME Parts, NEW w \in Writer, Save(w) PROVE Parts'
<1>1. /\ job[w] \in Job /\ at[w] = "save" /\ Placed(job[w], "save")
      /\ Serves(w, job[w], "save") /\ job[w].on \in Profile
      /\ vault[job[w].on] \in Envelope \cup {Missing, Torn}
  BY TheFields DEF Save, Parts, TypeOK, PlacesOK
<1>2. PICK v \in Envelope \cup {Missing, Torn} : v = vault[job[w].on] BY <1>1
<1>3. PICK e : e = Sealed(v, job[w].key, job[w].data) OBVIOUS
<1>4. job[w].key \in Key /\ job[w].data \subseteq Entry
  BY <1>1, TheFields DEF Placed, Fit, Keyed
<1>5. PICK l \in Slot \cup {None} : l = IF IsV2(v) THEN v.slot ELSE None
  BY DEF IsV2, Complete, Envelope
<1>6. PICK t \in Client \cup {Origin, None} : t = IF IsV2(v) THEN v.summary ELSE None
  BY DEF IsV2, Complete, Envelope
<1>7. e = [format |-> "v2", key |-> job[w].key, data |-> job[w].data, slot |-> l, summary |-> t]
  BY <1>3, <1>5, <1>6 DEF Sealed
<1>8. e \in Envelope /\ e.key = job[w].key /\ e.slot = l /\ e.summary = t
  BY <1>4, <1>7 DEF Envelope
<1>9. PICK j : j = [job[w] EXCEPT !.base = v, !.env = e] OBVIOUS
<1>10. j \in Job BY <1>1, <1>8, <1>9 DEF Job
<1>11. /\ j.key = job[w].key /\ j.on = job[w].on /\ j.other = job[w].other /\ j.then = job[w].then
       /\ j.otherKey = job[w].otherKey /\ j.cmd = job[w].cmd /\ j.base = v /\ j.env = e
       /\ j.seen = job[w].seen
  BY <1>1, <1>9 DEF Job
<1>12. /\ at' = [at EXCEPT ![w] = "staged"] /\ job' = [job EXCEPT ![w] = j]
       /\ UNCHANGED <<vault, snaps, item, ram, ghosts>>
  BY <1>2, <1>3, <1>9 DEF Save, Goto
<1>13. Takes(j) BY <1>5, <1>6, <1>8, <1>11 DEF Takes
<1>14. Placed(j, "staged")
  <2>1. Fit(job[w], j.then) /\ j.then \notin Writing \cup {"init", "readd", "verify", "copy"}
    BY <1>1, <1>11 DEF Placed, Writing
  <2>2. Fit(j, j.then) BY <1>11, <2>1 DEF Fit
  <2>3. Fit(j, "staged") BY DEF Fit, Keyed
  <2> QED BY <1>1, <1>8, <1>11, <1>13, <2>1, <2>2, <2>3 DEF Placed
<1>15. Recovers(j, "staged") /\ Filed(j, "staged") BY DEF Recovers, Filed
<1>16. ASSUME NEW p \in Safe PROVE SoundJob(j, "staged", p)
  <2> SUFFICES ASSUME job[w].on = p, l # None PROVE l.key = e.key
    BY <1>8, <1>11 DEF SoundJob, Sound
  <2>1. Complete(v) /\ v.slot = l /\ v \in Envelope BY <1>5 DEF IsV2, Complete
  <2>2. l.key = v.key /\ v.key \in Key
    BY <1>2, <2>1 DEF Parts, SlotsOK, SoundFiles, Sound, Envelope
  <2>3. KeyOf(p, v.key) BY <1>2, <2>1 DEF KeyOf, InUse, Has
  <2>4. KeyOf(p, job[w].key) BY <1>1 DEF KeyOf, Carries, Keyed, Unsettled
  <2> QED BY <1>4, <1>8, <2>2, <2>3, <2>4, SameKey DEF Safe
<1>17. \A p \in Profile \ strayed : \A k \in Key : Carries(j, "staged", p, k) => KeyOf(p, k)
  BY <1>1, <1>8, <1>11 DEF Carries, Keyed, Unsettled, KeyOf
<1>18. Serves(w, j, "staged") /\ "staged" \in Steps BY <1>1, <1>11 DEF Serves, Steps
<1> QED BY <1>10, <1>12, <1>14, <1>15, <1>16, <1>17, <1>18, Thinks

\* A daemon that waits for a request.
LEMMA Waits ==
  ASSUME NEW p \in Profile
  PROVE  /\ p \in Writer /\ NoJob(p) \in Job /\ "idle" \in Steps
         /\ Placed(NoJob(p), "idle") /\ Serves(p, NoJob(p), "idle")
         /\ \A q \in Profile : SoundJob(NoJob(p), "idle", q)
         /\ \A q \in Profile : \A k \in Key : ~Carries(NoJob(p), "idle", q, k)
<1> DEFINE j == NoJob(p)
<1>1. /\ j.then = "done" /\ j.cmd = "serve" /\ j.on = p /\ j.key = NoKey /\ j.otherKey = NoKey
      /\ j.env = None
  BY DEF NoJob, Home
<1>2. j \in Job /\ "idle" \in Steps /\ p \in Writer
  BY NamesAssumption DEF NoJob, Job, Steps, Home, Writer
<1> HIDE DEF j
<1>3. Placed(j, "idle") BY <1>1 DEF Placed, Fit, Keyed, Writing
<1>4. Serves(p, j, "idle") BY <1>1 DEF Serves
<1>5. \A q \in Profile : SoundJob(j, "idle", q) BY DEF SoundJob, Enveloped
<1>6. \A q \in Profile : \A k \in Key : ~Carries(j, "idle", q, k)
  BY DEF Carries, Keyed, Writing, Enveloped
<1> QED BY <1>2, <1>3, <1>4, <1>5, <1>6 DEF j

LEMMA SaveFailsKeeps == ASSUME Parts, NEW p \in Profile, SaveFails(p) PROVE Parts'
<1>1. PICK j \in Job : j = NoJob(p) BY Waits
<1>2. /\ at' = [at EXCEPT ![p] = "idle"] /\ job' = [job EXCEPT ![p] = j]
      /\ UNCHANGED <<vault, snaps, item, ram, ghosts>>
  BY <1>1 DEF SaveFails, Goto
<1>3. p \in Writer /\ "idle" \in Steps /\ Placed(j, "idle") /\ Serves(p, j, "idle")
  BY <1>1, Waits
<1>4. Recovers(j, "idle") /\ Filed(j, "idle") BY DEF Recovers, Filed
<1>5. \A q \in Safe : SoundJob(j, "idle", q) BY <1>1, Waits DEF Safe
<1>6. \A q \in Profile \ strayed : \A k \in Key : Carries(j, "idle", q, k) => KeyOf(q, k)
  BY <1>1, Waits
<1> QED BY <1>2, <1>3, <1>4, <1>5, <1>6, Thinks

-----------------------------------------------------------------------------
(* The keychain and the daemon's memory.                                   *)

LEMMA Holds ==
  ASSUME Parts, NEW w \in Writer, NEW j \in Job, NEW s \in Steps,
         at' = [at EXCEPT ![w] = s], job' = [job EXCEPT ![w] = j],
         UNCHANGED <<vault, snaps, ghosts>>,
         keychain' \in [Profile -> Key \cup {NoKey}], sealed' \subseteq Profile,
         ram' \in [Profile -> Store \cup {None}],
         Placed(j, s), Serves(w, j, s), Recovers(j, s), Filed(j, s),
         \A p \in Safe : SoundJob(j, s, p),
         \A p \in Profile \ strayed : \A k \in Key :
           Has(p, k)' \/ Carries(j, s, p, k) => KeyOf(p, k)
  PROVE  Parts'
<1>1. /\ vault' = vault /\ snaps' = snaps /\ acked' = acked /\ strayed' = strayed
      /\ rough' = rough
  BY DEF ghosts
<1>2. FilesTyped' BY <1>1 DEF Parts, TypeOK, FilesTyped
<1>3. Grows BY <1>1 DEF Grows
<1>4. Recovers(j, s)' BY <1>1 DEF Recovers
<1>5. Filed(j, s)' BY <1>1 DEF Filed
<1>6. SoundFiles' BY <1>1 DEF Parts, SlotsOK, SoundFiles, Safe
<1>7. \A p \in Safe' : SoundJob(j, s, p) BY <1>1 DEF Safe
<1>8. \A p \in Profile \ strayed' :
        \/ \A k \in Key : InUse(p, k)' \/ Carries(j, s, p, k) => KeyOf(p, k)
        \/ \A k \in Key : KeyOf(p, k)' => k = j.key
  BY <1>1 DEF Has, InUse, KeyOf
<1> QED BY <1>2, <1>3, <1>4, <1>5, <1>6, <1>7, <1>8, GoesOn

LEMMA DeleteItemKeeps == ASSUME Parts, NEW c \in Client, DeleteItem(c) PROVE Parts'
<1>1. /\ c \in Writer /\ c \notin Profile /\ job[c] \in Job /\ at[c] = "reset"
      /\ Placed(job[c], "reset") /\ job[c].on \in Profile
      /\ job \in [Writer -> Job] /\ keychain \in [Profile -> Key \cup {NoKey}]
      /\ sealed \subseteq Profile /\ ram \in [Profile -> Store \cup {None}]
  BY TheJob, TheFields DEF DeleteItem, Parts, TypeOK
<1>2. PICK j \in Job : j = job[c] BY <1>1
<1>3. /\ at' = [at EXCEPT ![c] = "readd"] /\ "readd" \in Steps
      /\ job' = [job EXCEPT ![c] = j] /\ UNCHANGED <<vault, snaps, ghosts>> /\ ram' = ram
      /\ keychain' = [keychain EXCEPT ![j.on] = NoKey] /\ sealed' \subseteq Profile
  BY <1>1, <1>2 DEF DeleteItem, Goto, Steps, ghosts
<1>4. keychain' \in [Profile -> Key \cup {NoKey}] /\ ram' \in [Profile -> Store \cup {None}]
  BY <1>1, <1>3
<1>5. Placed(j, "readd") BY <1>1, <1>2 DEF Placed, Fit, Writing, Keyed
<1>6. Serves(c, j, "readd") /\ Recovers(j, "readd") /\ Filed(j, "readd")
  BY <1>1 DEF Serves, Recovers, Filed
<1>7. \A p \in Safe : SoundJob(j, "readd", p) BY DEF SoundJob, Enveloped
<1>8. \A p \in Profile \ strayed : \A k \in Key :
        Has(p, k)' \/ Carries(j, "readd", p, k) => KeyOf(p, k)
  <2> SUFFICES ASSUME NEW p \in Profile \ strayed, NEW k \in Key,
                      Has(p, k)' \/ Carries(j, "readd", p, k)
               PROVE KeyOf(p, k)
    OBVIOUS
  <2>1. CASE keychain'[p] = k BY <1>1, <1>3, <2>1, NamesAssumption DEF KeyOf, InUse, Has
  <2>2. CASE ram'[p] # None /\ ram'[p].key = k BY <1>3, <2>2 DEF KeyOf, InUse, Has
  <2>3. CASE Carries(j, "readd", p, k)
    BY <1>1, <1>2, <2>3 DEF KeyOf, Carries, Keyed, Writing, Enveloped, Unsettled
  <2> QED BY <2>1, <2>2, <2>3 DEF Has
<1> QED BY <1>1, <1>3, <1>4, <1>5, <1>6, <1>7, <1>8, Holds

LEMMA AddItemKeeps ==
  ASSUME Parts, NEW c \in Client, AddItem(c), job[c].then # "save" PROVE Parts'
<1>1. /\ c \in Writer /\ c \notin Profile /\ job[c] \in Job /\ at[c] = "readd"
      /\ Placed(job[c], "readd") /\ job[c].on \in Profile
      /\ job \in [Writer -> Job] /\ keychain \in [Profile -> Key \cup {NoKey}]
      /\ sealed \subseteq Profile /\ ram \in [Profile -> Store \cup {None}]
  BY TheJob, TheFields DEF AddItem, Parts, TypeOK
<1>2. PICK j \in Job : j = job[c] BY <1>1
<1>3. PICK s \in Steps \ Enveloped : s = Resume(c) BY <1>1, Resumes
<1>4. /\ at' = [at EXCEPT ![c] = s] /\ job' = [job EXCEPT ![c] = j]
      /\ UNCHANGED <<vault, snaps, ghosts>> /\ ram' = ram
      /\ keychain' = [keychain EXCEPT ![j.on] = j.key] /\ sealed' \subseteq Profile
  BY <1>1, <1>2, <1>3 DEF AddItem, Goto, ghosts
<1>5. keychain' \in [Profile -> Key \cup {NoKey}] /\ ram' \in [Profile -> Store \cup {None}]
  BY <1>1, <1>2, <1>4, TheFields
<1>6. Placed(j, s) /\ Recovers(j, s) BY <1>1, <1>2, <1>3, Resumes
<1>7. Serves(c, j, s) /\ Filed(j, s) BY <1>1 DEF Serves, Filed, Enveloped
<1>8. \A p \in Safe : SoundJob(j, s, p) BY DEF SoundJob
<1>9. \A p \in Profile \ strayed : \A k \in Key :
        Has(p, k)' \/ Carries(j, s, p, k) => KeyOf(p, k)
  <2> SUFFICES ASSUME NEW p \in Profile \ strayed, NEW k \in Key,
                      Has(p, k)' \/ Carries(j, s, p, k)
               PROVE KeyOf(p, k)
    OBVIOUS
  <2>1. CASE Carries(j, "readd", p, k) BY <1>1, <1>2, <2>1 DEF KeyOf
  <2>2. CASE keychain'[p] = k
    <3>1. CASE p = j.on
      <4>1. j.key = k BY <1>1, <1>4, <2>2, <3>1
      <4>2. Carries(j, "readd", p, k)
        BY <1>2, <3>1, <4>1 DEF Carries, Keyed, Unsettled
      <4> QED BY <2>1, <4>2
    <3>2. CASE p # j.on BY <1>1, <1>4, <2>2, <3>2 DEF KeyOf, InUse, Has
    <3> QED BY <3>1, <3>2
  <2>3. CASE ram'[p] # None /\ ram'[p].key = k BY <1>4, <2>3 DEF KeyOf, InUse, Has
  <2>4. CASE Carries(j, s, p, k)
    <3>1. Carries(j, "readd", p, k) BY <1>1, <1>2, <1>3, <2>4, Resumes
    <3> QED BY <2>1, <3>1
  <2> QED BY <2>2, <2>3, <2>4 DEF Has
<1> QED BY <1>1, <1>4, <1>5, <1>6, <1>7, <1>8, <1>9, Holds

\* Alone, a client that makes a key makes the first one of its profile.
LEMMA FirstKey ==
  ASSUME Parts, NEW c \in Client, at[c] = "readd", job[c].then = "save", Alone(c),
         job[c].on \notin strayed, NEW k \in Key
  PROVE  ~KeyOf(job[c].on, k)
<1>1. /\ c \in Writer /\ job[c] \in Job /\ Placed(job[c], "readd") /\ job[c].on \in Profile
  BY TheJob, TheFields
<1>2. ~InUse(job[c].on, k)
  <2>1. vault[job[c].on] = Missing BY <1>1 DEF Alone, Placed, Fit
  <2> QED BY <2>1, NamesAssumption DEF InUse, Has, Alone, Complete
<1>3. ASSUME NEW w \in Writer PROVE ~Carries(job[w], at[w], job[c].on, k)
  <2>1. CASE w = c
    <3>1. job[c].otherKey = k => job[c].other # job[c].on
      BY <1>1, NamesAssumption DEF Placed
    <3> QED BY <2>1, <3>1 DEF Carries, Unsettled, Enveloped
  <2>2. CASE w # c BY <2>2 DEF Alone, Carries, Keyed, Writing, Enveloped
  <2> QED BY <2>1, <2>2
<1> QED BY <1>2, <1>3 DEF KeyOf

LEMMA AddFirstKeeps ==
  ASSUME Parts, NEW c \in Client, AddItem(c), job[c].then = "save" PROVE Parts'
<1>1. /\ c \in Writer /\ c \notin Profile /\ job[c] \in Job /\ at[c] = "readd"
      /\ Placed(job[c], "readd") /\ job[c].on \in Profile /\ job[c].key \in Key
      /\ job \in [Writer -> Job] /\ keychain \in [Profile -> Key \cup {NoKey}]
      /\ sealed \subseteq Profile /\ ram \in [Profile -> Store \cup {None}]
      /\ strayed \subseteq Profile
  BY TheJob, TheFields DEF AddItem, Parts, TypeOK, Placed, Fit, Keyed
<1>2. PICK j : j = [job[c] EXCEPT !.then = Proceed(c), !.data = {}] OBVIOUS
<1>3. Proceed(c) \in Steps /\ Proceed(c) \in {"query", "slot", "blank", "swap", "load", "done"}
  BY <1>1, Proceeds DEF Steps
<1>4. j \in Job BY <1>1, <1>2, <1>3 DEF Job
<1>5. /\ j.key = job[c].key /\ j.on = job[c].on /\ j.other = job[c].other /\ j.then = Proceed(c)
      /\ j.otherKey = job[c].otherKey /\ j.cmd = job[c].cmd
  BY <1>1, <1>2 DEF Job
<1>6. /\ at' = [at EXCEPT ![c] = "save"] /\ "save" \in Steps /\ job' = [job EXCEPT ![c] = j]
      /\ vault' = vault /\ snaps' = snaps /\ ram' = ram /\ acked' = acked /\ rough' = rough
      /\ keychain' = [keychain EXCEPT ![j.on] = j.key]
      /\ strayed' = strayed \cup IF Alone(c) THEN {} ELSE {j.on}
      /\ sealed' = sealed \ {j.on}
  BY <1>1, <1>2, <1>5 DEF AddItem, Goto, Steps
<1>7. FilesTyped'
  BY <1>1, <1>5, <1>6 DEF Parts, TypeOK, FilesTyped
<1>8. Grows BY <1>6 DEF Grows
<1>9. Placed(j, "save")
  <2>1. Fit(j, j.then)
    BY <1>1, <1>3, <1>4, <1>5, Proceeds, TheFields DEF Fit, Keyed
  <2>2. Fit(j, "save") BY <1>1, <1>5 DEF Fit
  <2> QED BY <1>1, <1>3, <1>5, <2>1, <2>2 DEF Placed, Writing
<1>10. Serves(c, j, "save") /\ Recovers(j, "save")' /\ Filed(j, "save")'
  BY <1>1 DEF Serves, Recovers, Filed
<1>11. SoundFiles' BY <1>6 DEF Parts, SlotsOK, SoundFiles, Safe
<1>12. \A p \in Safe' : SoundJob(j, "save", p) BY DEF SoundJob, Enveloped
<1>13. ASSUME NEW p \in Profile \ strayed'
       PROVE \/ \A k \in Key : InUse(p, k)' \/ Carries(j, "save", p, k) => KeyOf(p, k)
             \/ \A k \in Key : KeyOf(p, k)' => k = j.key
  <2>1. CASE p = j.on
    <3>1. Alone(c) /\ j.on \notin strayed BY <1>6, <2>1
    <3>2. ASSUME NEW k \in Key PROVE ~KeyOf(p, k)
      BY <1>1, <1>5, <2>1, <3>1, FirstKey
    <3>3. ASSUME NEW k \in Key, KeyOf(p, k)' PROVE k = j.key
      <4>1. CASE InUse(p, k)' BY <1>1, <1>5, <1>6, <2>1, <3>2, <4>1 DEF InUse, Has, KeyOf
      <4>2. CASE \E w \in Writer : Carries(job[w], at[w], p, k)'
        <5>1. PICK w \in Writer : Carries(job'[w], at'[w], p, k) BY <4>2
        <5>2. CASE w = c
          <6>1. job'[c] = j /\ at'[c] = "save" BY <1>1, <1>6 DEF Parts, TypeOK
          <6>2. j.otherKey = k => j.other # p
            BY <1>1, <1>5, <2>1, NamesAssumption DEF Placed
          <6> QED BY <5>1, <5>2, <6>1, <6>2 DEF Carries, Enveloped
        <5>3. CASE w # c
          <6>1. job'[w] = job[w] /\ at'[w] = at[w] BY <1>6, <5>3 DEF Parts, TypeOK
          <6> QED BY <5>1, <6>1, <3>2 DEF KeyOf
        <5> QED BY <5>2, <5>3
      <4> QED BY <3>3, <4>1, <4>2 DEF KeyOf
    <3> QED BY <3>3
  <2>2. CASE p # j.on
    <3>1. ASSUME NEW k \in Key, InUse(p, k)' PROVE KeyOf(p, k)
      BY <1>1, <1>6, <2>2, <3>1 DEF InUse, Has, KeyOf
    <3>2. ASSUME NEW k \in Key, Carries(j, "save", p, k) PROVE KeyOf(p, k)
      BY <1>1, <1>5, <2>2, <3>2 DEF Carries, Enveloped, KeyOf
    <3> QED BY <3>1, <3>2
  <2> QED BY <2>1, <2>2
<1> QED BY <1>1, <1>4, <1>6, <1>7, <1>8, <1>9, <1>10, <1>11, <1>12, <1>13, GoesOn

LEMMA OpenKeeps == ASSUME Parts, NEW c \in Client, Open(c) PROVE Parts'
<1>1. /\ c \in Writer /\ c \notin Profile /\ job[c] \in Job /\ at[c] = "query"
      /\ Placed(job[c], "query") /\ job[c].on \in Profile /\ job[c].key \in Key
      /\ job \in [Writer -> Job] /\ keychain \in [Profile -> Key \cup {NoKey}]
      /\ sealed \subseteq Profile /\ ram \in [Profile -> Store \cup {None}]
      /\ vault[job[c].on] \in Envelope \cup {Missing, Torn}
  BY TheJob, TheFields DEF Open, Parts, TypeOK, Placed, Fit, Keyed
<1>2. PICK j \in Job : j = job[c] BY <1>1
<1>3. PICK r : r = [key |-> j.key, data |-> Entries(vault[j.on])] OBVIOUS
<1>4. r \in Store /\ r.key = j.key
  <2>1. Entries(vault[j.on]) \subseteq Entry
    BY <1>1, <1>2 DEF Open, Loads, Entries, Complete, Envelope
  <2> QED BY <1>1, <1>2, <1>3, <2>1 DEF Store
<1>5. /\ at' = [at EXCEPT ![c] = "done"] /\ "done" \in Steps
      /\ job' = [job EXCEPT ![c] = j] /\ UNCHANGED <<vault, snaps, ghosts>>
      /\ ram' = [ram EXCEPT ![j.on] = r] /\ keychain' = keychain /\ sealed' = sealed
  BY <1>1, <1>2, <1>3 DEF Open, Goto, Steps, item, ghosts
<1>6. /\ keychain' \in [Profile -> Key \cup {NoKey}] /\ sealed' \subseteq Profile
      /\ ram' \in [Profile -> Store \cup {None}]
  BY <1>1, <1>4, <1>5
<1>7. Placed(j, "done") BY <1>1, <1>2 DEF Placed, Fit, Writing, Keyed
<1>8. Serves(c, j, "done") /\ Recovers(j, "done") /\ Filed(j, "done")
  BY <1>1 DEF Serves, Recovers, Filed
<1>9. \A p \in Safe : SoundJob(j, "done", p) BY DEF SoundJob, Enveloped
<1>10. \A p \in Profile \ strayed : \A k \in Key :
         Has(p, k)' \/ Carries(j, "done", p, k) => KeyOf(p, k)
  <2> SUFFICES ASSUME NEW p \in Profile \ strayed, NEW k \in Key,
                      Has(p, k)' \/ Carries(j, "done", p, k)
               PROVE KeyOf(p, k)
    OBVIOUS
  <2>1. ~Carries(j, "done", p, k) BY DEF Carries, Keyed, Writing, Enveloped
  <2>2. CASE p = j.on
    <3>1. Carries(j, "query", p, j.key) BY <2>2 DEF Carries, Keyed, Unsettled
    <3>2. KeyOf(p, j.key) BY <1>1, <1>2, <3>1 DEF KeyOf
    <3> QED BY <1>1, <1>4, <1>5, <2>1, <2>2, <3>2 DEF Has, KeyOf, InUse
  <2>3. CASE p # j.on BY <1>1, <1>5, <2>1, <2>3 DEF Has, KeyOf, InUse
  <2> QED BY <2>2, <2>3
<1> QED BY <1>1, <1>5, <1>6, <1>7, <1>8, <1>9, <1>10, Holds

LEMMA SetKeeps == ASSUME Parts, NEW p \in Profile, NEW e \in Entry, Set(p, e) PROVE Parts'
<1>1. /\ p \in Writer /\ job[p] \in Job /\ at[p] = "idle" /\ Placed(job[p], "idle")
      /\ Serves(p, job[p], "idle") /\ ram[p] \in Store
      /\ job \in [Writer -> Job] /\ keychain \in [Profile -> Key \cup {NoKey}]
      /\ sealed \subseteq Profile /\ ram \in [Profile -> Store \cup {None}]
  BY DEF Writer, Set, Parts, TypeOK, PlacesOK
<1>2. PICK r : r = [ram[p] EXCEPT !.data = @ \cup {e}] OBVIOUS
<1>3. r \in Store /\ r.key = ram[p].key BY <1>1, <1>2 DEF Store
<1>4. ram' = [ram EXCEPT ![p] = r] /\ ram'[p] = r BY <1>1, <1>2 DEF Set
<1>5. PICK j : j = [job[p] EXCEPT !.key = ram[p].key, !.data = r.data, !.then = "idle"] OBVIOUS
<1>6. j \in Job BY <1>1, <1>3, <1>5 DEF Job, Store, Steps
<1>7. /\ j.key = ram[p].key /\ j.key \in Key /\ j.on = p /\ j.other = job[p].other
      /\ j.then = "idle" /\ j.otherKey = NoKey /\ j.cmd = job[p].cmd
  BY <1>1, <1>5 DEF Job, Store, Serves
<1>8. /\ at' = [at EXCEPT ![p] = "save"] /\ "save" \in Steps
      /\ job' = [job EXCEPT ![p] = j] /\ UNCHANGED <<vault, snaps, ghosts>>
      /\ keychain' = keychain /\ sealed' = sealed
  BY <1>4, <1>5 DEF Set, Goto, Steps, item
<1>9. /\ keychain' \in [Profile -> Key \cup {NoKey}] /\ sealed' \subseteq Profile
      /\ ram' \in [Profile -> Store \cup {None}]
  BY <1>1, <1>3, <1>4, <1>8
<1>10. Placed(j, "save") BY <1>1, <1>7 DEF Placed, Fit, Writing, Keyed, Serves
<1>11. Serves(p, j, "save") /\ Recovers(j, "save") /\ Filed(j, "save")
  BY <1>7 DEF Serves, Recovers, Filed
<1>12. \A q \in Safe : SoundJob(j, "save", q) BY DEF SoundJob, Enveloped
<1>13. \A q \in Profile \ strayed : \A k \in Key :
         Has(q, k)' \/ Carries(j, "save", q, k) => KeyOf(q, k)
  <2> SUFFICES ASSUME NEW q \in Profile \ strayed, NEW k \in Key,
                      Has(q, k)' \/ Carries(j, "save", q, k)
               PROVE KeyOf(q, k)
    OBVIOUS
  <2>1. ram[p] # None => KeyOf(p, j.key) BY <1>7 DEF KeyOf, InUse, Has
  <2>2. ram[p] # None BY DEF Set
  <2>3. CASE Has(q, k)' BY <1>1, <1>3, <1>4, <1>8, <2>2, <2>3 DEF Has, KeyOf, InUse
  <2>4. CASE Carries(j, "save", q, k)
    BY <1>7, <2>1, <2>2, <2>4, NamesAssumption DEF Carries, Enveloped
  <2> QED BY <2>3, <2>4
<1> QED BY <1>1, <1>6, <1>8, <1>9, <1>10, <1>11, <1>12, <1>13, Holds

LEMMA DaemonEndsKeeps == ASSUME Parts, NEW p \in Profile, DaemonEnds(p) PROVE Parts'
<1>1. PICK j \in Job : j = NoJob(p) BY Waits
<1>2. /\ at' = [at EXCEPT ![p] = "idle"] /\ job' = [job EXCEPT ![p] = j]
      /\ UNCHANGED <<vault, snaps, ghosts>> /\ ram' = [ram EXCEPT ![p] = None]
      /\ keychain' = keychain /\ sealed' = sealed
  BY <1>1 DEF DaemonEnds, Goto, item
<1>3. p \in Writer /\ "idle" \in Steps /\ Placed(j, "idle") /\ Serves(p, j, "idle")
  BY <1>1, Waits
<1>4. Recovers(j, "idle") /\ Filed(j, "idle") BY DEF Recovers, Filed
<1>5. \A q \in Safe : SoundJob(j, "idle", q) BY <1>1, Waits DEF Safe
<1>6. /\ keychain' \in [Profile -> Key \cup {NoKey}] /\ sealed' \subseteq Profile
      /\ ram' \in [Profile -> Store \cup {None}]
  BY <1>2 DEF Parts, TypeOK
<1>7. \A q \in Profile \ strayed : \A k \in Key :
        Has(q, k)' \/ Carries(j, "idle", q, k) => KeyOf(q, k)
  BY <1>1, <1>2, Waits DEF Parts, TypeOK, Has, InUse, KeyOf
<1> QED BY <1>2, <1>3, <1>4, <1>5, <1>6, <1>7, Holds

LEMMA InvalidateKeeps == ASSUME Parts, NEW p \in Profile, Invalidate(p) PROVE Parts'
<1>1. /\ p \in Writer /\ job \in [Writer -> Job] /\ at \in [Writer -> Steps]
      /\ keychain \in [Profile -> Key \cup {NoKey}] /\ sealed \subseteq Profile
      /\ ram \in [Profile -> Store \cup {None}]
  BY DEF Writer, Parts, TypeOK
<1>2. PICK j \in Job : j = job[p] BY <1>1
<1>3. PICK s \in Steps : s = at[p] BY <1>1
<1>4. /\ at' = [at EXCEPT ![p] = s] /\ job' = [job EXCEPT ![p] = j]
      /\ UNCHANGED <<vault, snaps, ghosts>> /\ ram' = ram
      /\ keychain' = [keychain EXCEPT ![p] = NoKey] /\ sealed' \subseteq Profile
  BY <1>1, <1>2, <1>3 DEF Invalidate
<1>5. Placed(j, s) /\ Serves(p, j, s) /\ Recovers(j, s) /\ Filed(j, s)
  BY <1>1, <1>2, <1>3 DEF Parts, PlacesOK, RecoversOK, FiledOK
<1>6. \A q \in Safe : SoundJob(j, s, q) BY <1>1, <1>2, <1>3 DEF Parts, SlotsOK
<1>7. /\ keychain' \in [Profile -> Key \cup {NoKey}] /\ ram' \in [Profile -> Store \cup {None}]
  BY <1>1, <1>4
<1>8. \A q \in Profile \ strayed : \A k \in Key : Has(q, k)' \/ Carries(j, s, q, k) => KeyOf(q, k)
  BY <1>1, <1>2, <1>3, <1>4, NamesAssumption DEF Has, InUse, KeyOf
<1> QED BY <1>1, <1>4, <1>5, <1>6, <1>7, <1>8, Holds

-----------------------------------------------------------------------------
(* Steps that other writers feel.                                          *)

\* What was said of every job is true of every job afterwards, and no profile
\* has a key it had not.
LEMMA AllGoOn ==
  ASSUME Parts, TypeOK', Grows, SoundFiles',
         \A v \in Writer : Placed(job'[v], at'[v]) /\ Serves(v, job'[v], at'[v]),
         \A v \in Writer : Recovers(job[v], at[v])' /\ Filed(job[v], at[v])',
         \A v \in Writer : \A p \in Safe' : SoundJob(job'[v], at'[v], p),
         \A p \in Profile \ strayed' : \A k \in Key : InUse(p, k)' => KeyOf(p, k),
         \A v \in Writer : \A p \in Profile \ strayed' : \A k \in Key :
           Carries(job'[v], at'[v], p, k) => KeyOf(p, k)
  PROVE  Parts'
<1>1. OneKey'
  <2>1. \A p \in Profile \ strayed' : p \in Profile \ strayed BY DEF Grows
  <2>2. \A p \in Profile \ strayed' : \A k \in Key : KeyOf(p, k)' => KeyOf(p, k) BY DEF KeyOf
  <2> QED BY <2>1, <2>2 DEF Parts, OneKey
<1>2. PlacesOK' /\ RecoversOK' /\ FiledOK' /\ SlotsOK'
  BY DEF PlacesOK, RecoversOK, FiledOK, SlotsOK
<1> QED BY <1>1, <1>2 DEF Parts

LEMMA EvictKeeps == ASSUME Parts, NEW c \in Client, Evict(c) PROVE Parts'
<1>1. /\ c \in Writer /\ c \notin Profile /\ job[c] \in Job /\ at[c] = "evict"
      /\ Placed(job[c], "evict") /\ job[c].on \in Profile /\ job[c].on \in Writer
      /\ job \in [Writer -> Job] /\ at \in [Writer -> Steps] /\ ram \in [Profile -> Store \cup {None}]
  BY TheJob, TheFields, Waits DEF Evict, Parts, TypeOK
<1>2. PICK p \in Profile : p = job[c].on BY <1>1
<1>3. PICK i \in Job : i = NoJob(p) BY Waits
<1>4. /\ vault' = vault /\ snaps' = snaps /\ keychain' = keychain /\ sealed' = sealed
      /\ acked' = acked /\ strayed' = strayed /\ rough' = rough
      /\ ram' = [ram EXCEPT ![p] = None] /\ job' = [job EXCEPT ![p] = i]
      /\ at' = [at EXCEPT ![c] = "done", ![p] = "idle"]
  BY <1>2, <1>3 DEF Evict, item, ghosts
<1>5. \A v \in Writer : \/ v = p /\ job'[v] = i /\ at'[v] = "idle"
                        \/ v = c /\ job'[v] = job[v] /\ at'[v] = "done"
                        \/ v \notin {p, c} /\ job'[v] = job[v] /\ at'[v] = at[v]
  BY <1>1, <1>4
<1>6. TypeOK' BY <1>1, <1>4 DEF Parts, TypeOK, Steps
<1>7. Grows BY <1>4 DEF Grows
<1>8. SoundFiles' BY <1>4 DEF Parts, SlotsOK, SoundFiles, Safe
<1>9. Placed(job[c], "done") /\ Serves(c, job[c], "done")
      /\ \A q \in Profile, k \in Key : ~Carries(job[c], "done", q, k)
  BY <1>1 DEF Placed, Fit, Keyed, Writing, Enveloped, Serves, Carries
<1>10. \A v \in Writer : Placed(job'[v], at'[v]) /\ Serves(v, job'[v], at'[v])
  BY <1>3, <1>5, <1>9, Waits DEF Parts, PlacesOK
<1>11. \A v \in Writer : Recovers(job[v], at[v])' /\ Filed(job[v], at[v])'
  BY <1>4, <1>5 DEF Parts, RecoversOK, FiledOK, Recovers, Filed
<1>12. \A v \in Writer : \A q \in Safe' : SoundJob(job'[v], at'[v], q)
  BY <1>4, <1>5 DEF Parts, SlotsOK, Safe, SoundJob, Enveloped
<1>13. \A q \in Profile \ strayed' : \A k \in Key : InUse(q, k)' => KeyOf(q, k)
  BY <1>1, <1>4 DEF InUse, Has, KeyOf
<1>14. \A v \in Writer : \A q \in Profile \ strayed' : \A k \in Key :
         Carries(job'[v], at'[v], q, k) => KeyOf(q, k)
  BY <1>3, <1>5, <1>9, Waits DEF KeyOf
<1> QED BY <1>6, <1>7, <1>8, <1>10, <1>11, <1>12, <1>13, <1>14, AllGoOn

-----------------------------------------------------------------------------
(* Snapshots.                                                              *)

\* What CreateSnapshot files is sound: it is the vault of the profile it is
\* filed for, or it goes to the default profile, and no profile strayed.
LEMMA CopiedSound ==
  ASSUME Parts, NEW p \in Profile, NEW k, snaps' = Copied(vault[p], p, k),
         vault' = vault, strayed' = strayed
  PROVE  /\ snaps' \in [Profile -> SUBSET Envelope]
         /\ \A q \in Profile : snaps[q] \subseteq snaps'[q]
         /\ Complete(vault[p]) => vault[p] \in snaps'[p]
         /\ SoundFiles'
<1>1. /\ snaps \in [Profile -> SUBSET Envelope]
      /\ Complete(vault[p]) => vault[p] \in Envelope
  BY DEF Parts, TypeOK, Complete
<1>2. \A q \in Profile : snaps'[q] = snaps[q] \cup
        IF Complete(vault[p]) /\ (q = p \/ (q = Default /\ k # NoKey /\ IsV2(vault[p])))
          THEN {vault[p]} ELSE {}
  BY DEF Copied
<1>3. snaps' \in [Profile -> SUBSET Envelope]
  <2>1. snaps' = [q \in Profile |-> snaps'[q]] BY DEF Copied
  <2>2. \A q \in Profile : snaps'[q] \subseteq Envelope BY <1>1, <1>2
  <2> QED BY <2>1, <2>2
<1>4. ASSUME NEW q \in Safe', NEW f \in snaps'[q] PROVE Sound(f)
  <2>1. q \in Safe /\ q \in Profile BY DEF Safe
  <2>2. CASE f \in snaps[q] BY <2>1, <2>2 DEF Parts, SlotsOK, SoundFiles
  <2>3. CASE f \notin snaps[q]
    <3>1. f = vault[p] /\ Complete(vault[p]) /\ q \in {p, Default} BY <1>2, <2>1, <2>3
    <3>2. p \in Safe BY <2>1, <3>1 DEF Safe
    <3> QED BY <3>1, <3>2 DEF Parts, SlotsOK, SoundFiles
  <2> QED BY <2>2, <2>3
<1>5. \A q \in Safe' : Complete(vault'[q]) => Sound(vault'[q])
  BY DEF Parts, SlotsOK, SoundFiles, Safe
<1> QED BY <1>2, <1>3, <1>4, <1>5 DEF SoundFiles

\* The vault is filed, or that fails, and the writer goes on with job j.
LEMMA Files ==
  ASSUME Parts, NEW w \in Writer, NEW j \in Job, NEW s \in Steps, NEW k,
         at' = [at EXCEPT ![w] = s], job' = [job EXCEPT ![w] = j],
         UNCHANGED <<vault, item, ram, acked, strayed>>,
         \/ snaps' = Copied(vault[j.on], j.on, k) /\ rough' = rough
         \/ snaps' = snaps /\ rough' = rough \cup {"unfiled"},
         Placed(j, s), Serves(w, j, s), s # "verify",
         s \in {"filed", "confirm"} => j.seen = vault[j.on],
         \A p \in Safe : SoundJob(j, s, p),
         \A p \in Profile \ strayed : \A k1 \in Key : Carries(j, s, p, k1) => KeyOf(p, k1)
  PROVE  Parts'
<1>1. /\ vault' = vault /\ keychain' = keychain /\ sealed' = sealed /\ ram' = ram
      /\ acked' = acked /\ strayed' = strayed
  BY DEF item
<1>2. j.on \in Profile /\ snaps \in [Profile -> SUBSET Envelope] BY DEF Job, Parts, TypeOK
<1>3. /\ snaps' \in [Profile -> SUBSET Envelope]
      /\ \A p \in Profile : snaps[p] \subseteq snaps'[p]
      /\ rough' = {} /\ Complete(vault[j.on]) => vault[j.on] \in snaps'[j.on]
      /\ SoundFiles'
  <2>1. CASE snaps' = Copied(vault[j.on], j.on, k) BY <1>1, <1>2, <2>1, CopiedSound
  <2>2. CASE snaps' = snaps /\ rough' = rough \cup {"unfiled"}
    BY <1>1, <1>2, <2>2 DEF Parts, SlotsOK, SoundFiles, Safe
  <2> QED BY <2>1, <2>2
<1>4. rough \subseteq rough' /\ rough' \subseteq {"overlap", "unfiled", "repaired"}
  BY DEF Parts, TypeOK
<1>5. FilesTyped' BY <1>1, <1>3, <1>4 DEF Parts, TypeOK, FilesTyped
<1>6. Grows BY <1>1, <1>3, <1>4 DEF Grows
<1>7. Recovers(j, s)' BY DEF Recovers
<1>8. Filed(j, s)' BY <1>3 DEF Filed
<1>9. \A p \in Safe' : SoundJob(j, s, p) BY <1>1 DEF Safe
<1>10. \A p \in Profile \ strayed' : \A l \in Key :
         InUse(p, l)' \/ Carries(j, s, p, l) => KeyOf(p, l)
  BY <1>1 DEF InUse, Has, KeyOf
<1> QED BY <1>3, <1>5, <1>6, <1>7, <1>8, <1>9, <1>10, GoesOn

LEMMA FileKeeps == ASSUME Parts, NEW w \in Writer, File(w) PROVE Parts'
<1>1. /\ job[w] \in Job /\ at[w] = "staged" /\ Placed(job[w], "staged")
      /\ Serves(w, job[w], "staged") /\ job[w].on \in Profile
      /\ vault[job[w].on] \in Envelope \cup {Missing, Torn}
      /\ \A p \in Safe : SoundJob(job[w], "staged", p)
  BY TheFields DEF File, Parts, TypeOK, PlacesOK, SlotsOK
<1>2. PICK j : j = [job[w] EXCEPT !.seen = vault[job[w].on]] OBVIOUS
<1>3. j \in Job BY <1>1, <1>2 DEF Job
<1>4. /\ j.key = job[w].key /\ j.on = job[w].on /\ j.other = job[w].other /\ j.then = job[w].then
      /\ j.otherKey = job[w].otherKey /\ j.cmd = job[w].cmd /\ j.base = job[w].base
      /\ j.env = job[w].env /\ j.seen = vault[j.on]
  BY <1>1, <1>2 DEF Job
<1>5. /\ at' = [at EXCEPT ![w] = "filed"] /\ "filed" \in Steps /\ job' = [job EXCEPT ![w] = j]
      /\ UNCHANGED <<vault, item, ram, acked, strayed>>
      /\ \/ snaps' = Copied(vault[j.on], j.on, NoKey) /\ rough' = rough
         \/ snaps' = snaps /\ rough' = rough \cup {"unfiled"}
  BY <1>2, <1>4 DEF File, Goto, Steps
<1>6. Placed(j, "filed")
  <2>1. Fit(job[w], j.then) /\ j.then \notin Writing \cup {"init", "readd", "verify", "copy"}
    BY <1>1, <1>4 DEF Placed, Writing
  <2>2. Fit(j, j.then) BY <1>4, <2>1 DEF Fit, Writing
  <2>3. Fit(j, "filed") BY DEF Fit, Keyed
  <2>4. Takes(j) BY <1>1, <1>4 DEF Placed, Takes
  <2> QED BY <1>1, <1>4, <2>1, <2>2, <2>3, <2>4 DEF Placed
<1>7. Serves(w, j, "filed") BY <1>1, <1>4 DEF Serves
<1>8. \A p \in Safe : SoundJob(j, "filed", p) BY <1>1, <1>4 DEF SoundJob, Enveloped
<1>9. \A p \in Profile \ strayed : \A k \in Key : Carries(j, "filed", p, k) => KeyOf(p, k)
  BY <1>1, <1>4 DEF Carries, Keyed, Writing, Enveloped, Unsettled, KeyOf
<1> QED BY <1>3, <1>4, <1>5, <1>6, <1>7, <1>8, <1>9, Files

LEMMA SnapshotKeeps == ASSUME Parts, NEW c \in Client, CreateSnapshot(c) PROVE Parts'
<1>1. /\ c \in Writer /\ c \notin Profile /\ job[c] \in Job /\ Placed(job[c], "copy")
      /\ job \in [Writer -> Job]
  BY TheJob DEF CreateSnapshot, Parts, TypeOK
<1>2. PICK j \in Job : j = job[c] BY <1>1
<1>3. /\ at' = [at EXCEPT ![c] = "done"] /\ "done" \in Steps /\ job' = [job EXCEPT ![c] = j]
      /\ UNCHANGED <<vault, item, ram, acked, strayed>>
      /\ snaps' = Copied(vault[j.on], j.on, keychain[j.on]) /\ rough' = rough
  BY <1>1, <1>2 DEF CreateSnapshot, Goto, Steps, ghosts
<1>4. Placed(j, "done") BY <1>1, <1>2 DEF Placed, Fit, Keyed, Writing
<1>5. Serves(c, j, "done") BY <1>1 DEF Serves
<1>6. \A p \in Safe : SoundJob(j, "done", p) BY DEF SoundJob, Enveloped
<1>7. \A p \in Profile \ strayed : \A k \in Key : Carries(j, "done", p, k) => KeyOf(p, k)
  BY DEF Carries, Keyed, Writing, Enveloped
<1> QED BY <1>1, <1>3, <1>4, <1>5, <1>6, <1>7, Files

LEMMA ChooseKeeps == ASSUME Parts, NEW c \in Client, ChooseSnapshot(c) PROVE Parts'
<1>1. /\ c \in Writer /\ c \notin Profile /\ job[c] \in Job /\ at[c] = "copy"
      /\ Placed(job[c], "copy") /\ job[c].on \in Profile
      /\ vault[job[c].on] \in Envelope \cup {Missing, Torn}
      /\ snaps[job[c].on] \subseteq Envelope
  BY TheJob, TheFields DEF ChooseSnapshot, Parts, TypeOK
<1>2. PICK e \in Matching(job[c].on, keychain[job[c].on]) :
        job' = [job EXCEPT ![c].env = e, ![c].then = "evict", ![c].seen = vault[job[c].on]]
  BY DEF ChooseSnapshot
<1>3. e \in Envelope /\ e \in snaps[job[c].on] /\ e.key = keychain[job[c].on]
  BY <1>1, <1>2 DEF Matching
<1>4. PICK j : j = [job[c] EXCEPT !.env = e, !.then = "evict", !.seen = vault[job[c].on]] OBVIOUS
<1>5. j \in Job BY <1>1, <1>3, <1>4 DEF Job, Steps
<1>6. /\ j.on = job[c].on /\ j.other = job[c].other /\ j.then = "evict" /\ j.cmd = job[c].cmd
      /\ j.otherKey = job[c].otherKey /\ j.env = e /\ j.seen = vault[j.on]
  BY <1>1, <1>4 DEF Job
<1>7. /\ at' = [at EXCEPT ![c] = "confirm"] /\ "confirm" \in Steps /\ job' = [job EXCEPT ![c] = j]
      /\ UNCHANGED <<vault, item, ram, acked, strayed>>
      /\ \/ snaps' = Copied(vault[j.on], j.on, keychain[j.on]) /\ rough' = rough
         \/ snaps' = snaps /\ rough' = rough \cup {"unfiled"}
  BY <1>2, <1>4, <1>6 DEF ChooseSnapshot, Goto, Steps
<1>8. Placed(j, "confirm") BY <1>1, <1>3, <1>6 DEF Placed, Fit, Keyed, Writing
<1>9. Serves(c, j, "confirm") BY <1>1 DEF Serves
<1>10. \A p \in Safe : SoundJob(j, "confirm", p)
  BY <1>3, <1>6 DEF SoundJob, Parts, SlotsOK, SoundFiles
<1>11. \A p \in Profile \ strayed : \A k \in Key : Carries(j, "confirm", p, k) => KeyOf(p, k)
  BY <1>1, <1>3, <1>6 DEF Carries, Keyed, KeyOf, InUse, Has
<1> QED BY <1>1, <1>5, <1>6, <1>7, <1>8, <1>9, <1>10, <1>11, Files

-----------------------------------------------------------------------------
(* dedupe loads both vaults, or repairs its target.                        *)

LEMMA Strays ==
  ASSUME Parts, NEW c \in Client, NEW j \in Job, NEW s \in Steps,
         at' = [at EXCEPT ![c] = s], job' = [job EXCEPT ![c] = j],
         UNCHANGED <<vault, snaps, item, ram, acked, rough>>,
         strayed \subseteq strayed', strayed' \subseteq Profile,
         s \notin {"verify", "filed"}, s = "confirm" => j.cmd = "dedupe", Placed(j, s),
         \A p \in Safe' : SoundJob(j, s, p),
         \A p \in Profile \ strayed' : \A k \in Key : Carries(j, s, p, k) => KeyOf(p, k)
  PROVE  Parts'
<1>1. /\ vault' = vault /\ snaps' = snaps /\ keychain' = keychain /\ sealed' = sealed
      /\ ram' = ram /\ acked' = acked /\ rough' = rough
  BY DEF item
<1>2. FilesTyped' BY <1>1 DEF Parts, TypeOK, FilesTyped
<1>3. Grows BY <1>1 DEF Grows
<1>4. Recovers(j, s)' /\ Filed(j, s)' BY DEF Recovers, Filed
<1>5. SoundFiles' BY <1>1 DEF Parts, SlotsOK, SoundFiles, Safe
<1>6. \A p \in Profile \ strayed' : \A k \in Key :
        InUse(p, k)' \/ Carries(j, s, p, k) => KeyOf(p, k)
  BY <1>1 DEF InUse, Has, KeyOf
<1>7. c \in Writer /\ Serves(c, j, s) BY TheJob DEF Serves
<1> QED BY <1>2, <1>3, <1>4, <1>5, <1>6, <1>7, GoesOn

LEMMA DeduplicateKeeps == ASSUME Parts, NEW c \in Client, Deduplicate(c) PROVE Parts'
<1>1. /\ c \in Writer /\ job[c] \in Job /\ at[c] = "load" /\ Placed(job[c], "load")
      /\ job[c].on \in Profile /\ job[c].other \in Profile
      /\ vault[job[c].on] \in Envelope \cup {Missing, Torn}
      /\ vault[job[c].other] \in Envelope \cup {Missing, Torn} /\ strayed \subseteq Profile
  BY TheJob, TheFields DEF Deduplicate, Parts, TypeOK
<1>2. PICK m \in SUBSET Entries(vault[job[c].other]) \ {{}} :
        job' = [job EXCEPT ![c].on = job[c].other, ![c].other = job[c].on,
                  ![c].key = job[c].otherKey, ![c].otherKey = job[c].key,
                  ![c].data = Entries(vault[job[c].other]) \ m,
                  ![c].otherData = Entries(vault[job[c].on]) \cup m,
                  ![c].then = "second"]
  BY DEF Deduplicate
<1>3. Entries(vault[job[c].on]) \subseteq Entry /\ Entries(vault[job[c].other]) \subseteq Entry
  BY <1>1 DEF Deduplicate, Loads, Entries, Complete, Envelope
<1>4. PICK j : j = [job[c] EXCEPT !.on = job[c].other, !.other = job[c].on,
                      !.key = job[c].otherKey, !.otherKey = job[c].key,
                      !.data = Entries(vault[job[c].other]) \ m,
                      !.otherData = Entries(vault[job[c].on]) \cup m, !.then = "second"]
  OBVIOUS
<1>5. j \in Job BY <1>1, <1>3, <1>4 DEF Job, Steps
<1>6. /\ j.on = job[c].other /\ j.other = job[c].on /\ j.then = "second" /\ j.cmd = "dedupe"
      /\ j.key = job[c].otherKey /\ j.otherKey = job[c].key
      /\ j.key \in Key /\ j.otherKey \in Key
  BY <1>1, <1>4 DEF Job, Placed, Fit, Keyed
<1>7. job' = [job EXCEPT ![c] = j] BY <1>2, <1>4
<1>8. /\ at' = [at EXCEPT ![c] = "save"] /\ "save" \in Steps
      /\ UNCHANGED <<vault, snaps, item, ram, acked, rough>>
      /\ strayed' = strayed \cup IF job[c].key = job[c].otherKey THEN {job[c].on} ELSE {}
  BY DEF Deduplicate, Goto, Steps
<1>9. strayed \subseteq strayed' /\ strayed' \subseteq Profile BY <1>1, <1>8
<1>10. Placed(j, "save") BY <1>1, <1>6 DEF Placed, Fit, Writing
<1>11. \A p \in Safe' : SoundJob(j, "save", p) BY DEF SoundJob, Enveloped
<1>12. \A p \in Profile \ strayed' : \A k \in Key : Carries(j, "save", p, k) => KeyOf(p, k)
  <2> SUFFICES ASSUME NEW p \in Profile \ strayed', NEW k \in Key, Carries(j, "save", p, k)
               PROVE Carries(job[c], "load", p, k)
    BY <1>1 DEF KeyOf
  <2>1. CASE j.on = p /\ j.key = k BY <1>6, <2>1 DEF Carries
  <2>2. CASE j.other = p /\ j.otherKey = k
    BY <1>6, <1>8, <2>2 DEF Carries, Keyed, Unsettled
  <2> QED BY <2>1, <2>2 DEF Carries, Enveloped
<1> QED BY <1>5, <1>7, <1>8, <1>9, <1>10, <1>11, <1>12, Strays

LEMMA RepairKeeps == ASSUME Parts, NEW c \in Client, RepairTarget(c) PROVE Parts'
<1>1. /\ c \in Writer /\ job[c] \in Job /\ at[c] = "load" /\ Placed(job[c], "load")
      /\ job[c].on \in Profile /\ snaps[job[c].on] \subseteq Envelope /\ strayed \subseteq Profile
  BY TheJob, TheFields DEF RepairTarget, Parts, TypeOK
<1>2. PICK e \in Matching(job[c].on, job[c].otherKey) :
        job' = [job EXCEPT ![c].env = e, ![c].then = "load", ![c].key = job[c].otherKey]
  BY DEF RepairTarget
<1>3. e \in Envelope BY <1>1, <1>2 DEF Matching
<1>4. PICK j : j = [job[c] EXCEPT !.env = e, !.then = "load", !.key = job[c].otherKey] OBVIOUS
<1>5. job[c].otherKey \in Key /\ job[c].cmd = "dedupe" BY <1>1 DEF Placed, Fit
<1>6. j \in Job BY <1>1, <1>3, <1>4, <1>5 DEF Job, Steps
<1>7. /\ j.on = job[c].on /\ j.other = job[c].other /\ j.then = "load" /\ j.cmd = "dedupe"
      /\ j.otherKey = job[c].otherKey /\ j.key = job[c].otherKey /\ j.env = e
  BY <1>1, <1>4, <1>5 DEF Job
<1>8. /\ at' = [at EXCEPT ![c] = "confirm"] /\ "confirm" \in Steps /\ job' = [job EXCEPT ![c] = j]
      /\ UNCHANGED <<vault, snaps, item, ram, acked, rough>> /\ strayed' = strayed \cup {j.on}
  BY <1>2, <1>4, <1>7 DEF RepairTarget, Goto, Steps
<1>9. strayed \subseteq strayed' /\ strayed' \subseteq Profile BY <1>1, <1>7, <1>8
<1>10. Placed(j, "confirm") BY <1>1, <1>3, <1>5, <1>7 DEF Placed, Fit, Keyed, Writing
<1>11. \A p \in Safe' : SoundJob(j, "confirm", p) BY <1>8 DEF SoundJob, Safe
<1>12. \A p \in Profile \ strayed' : \A k \in Key : Carries(j, "confirm", p, k) => KeyOf(p, k)
  BY <1>1, <1>7, <1>8 DEF Carries, KeyOf
<1> QED BY <1>6, <1>7, <1>8, <1>9, <1>10, <1>11, <1>12, Strays

-----------------------------------------------------------------------------
(* The vault files are replaced, or filled in place.                       *)

LEMMA TruncateKeeps == ASSUME Parts, NEW c \in Client, Truncate(c) PROVE Parts'
<1>1. /\ c \in Writer /\ c \notin Profile /\ job[c] \in Job /\ at[c] = "confirm"
      /\ Placed(job[c], "confirm") /\ job[c].on \in Profile /\ job \in [Writer -> Job]
      /\ vault \in [Profile -> Envelope \cup {Missing, Torn}]
      /\ \A p \in Safe : SoundJob(job[c], "confirm", p)
  BY TheJob, TheFields DEF Truncate, Parts, TypeOK
<1>2. PICK j \in Job : j = job[c] BY <1>1
<1>3. /\ at' = [at EXCEPT ![c] = "write"] /\ "write" \in Steps /\ job' = [job EXCEPT ![c] = j]
      /\ snaps' = snaps /\ keychain' = keychain /\ sealed' = sealed /\ ram' = ram
      /\ acked' = acked /\ strayed' = strayed /\ vault' = [vault EXCEPT ![j.on] = Torn]
  BY <1>1, <1>2 DEF Truncate, Goto, Steps, item
<1>4. rough \subseteq rough' /\ rough' \subseteq {"overlap", "unfiled", "repaired"}
  BY DEF Truncate, Parts, TypeOK
<1>5. \A p \in Profile : vault'[p] \in {vault[p], Torn} BY <1>1, <1>3
<1>6. FilesTyped' BY <1>1, <1>2, <1>3, <1>4 DEF Parts, TypeOK, FilesTyped
<1>7. Grows BY <1>3, <1>4, <1>5, NamesAssumption DEF Grows
<1>8. Placed(j, "write") BY <1>1, <1>2 DEF Placed, Fit, Keyed, Writing
<1>9. Serves(c, j, "write") /\ Recovers(j, "write")' /\ Filed(j, "write")'
  BY <1>1 DEF Serves, Recovers, Filed
<1>10. SoundFiles' BY <1>3, <1>5 DEF Parts, SlotsOK, SoundFiles, Safe, Complete
<1>11. \A p \in Safe' : SoundJob(j, "write", p) BY <1>1, <1>2, <1>3 DEF SoundJob, Safe, Enveloped
<1>12. \A p \in Profile \ strayed' : \A k \in Key :
         InUse(p, k)' \/ Carries(j, "write", p, k) => KeyOf(p, k)
  <2>1. ASSUME NEW p \in Profile, NEW k \in Key, InUse(p, k)' PROVE KeyOf(p, k)
    BY <1>3, <1>5, <2>1 DEF InUse, Has, KeyOf, Complete
  <2>2. ASSUME NEW p \in Profile, NEW k \in Key, Carries(j, "write", p, k) PROVE KeyOf(p, k)
    BY <1>1, <1>2, <2>2 DEF Carries, Keyed, Writing, Enveloped, Unsettled, KeyOf
  <2> QED BY <2>1, <2>2
<1> QED BY <1>1, <1>3, <1>6, <1>7, <1>8, <1>9, <1>10, <1>11, <1>12, GoesOn

\* A writer that has written goes on with what its job has left.
LEMMA WroteIt ==
  ASSUME Parts, NEW w \in Writer, at[w] \in {"filed", "write"}
  PROVE  /\ Written(w) \in Job
         /\ job[w].then \in Steps \ (Writing \cup {"verify"})
         /\ Placed(Written(w), job[w].then) /\ Serves(w, Written(w), job[w].then)
         /\ \A p \in Profile : \A k \in Key :
              Carries(Written(w), job[w].then, p, k) => Carries(job[w], at[w], p, k)
<1>1. /\ job[w] \in Job /\ Placed(job[w], at[w]) /\ Serves(w, job[w], at[w])
      /\ job[w].then \in Steps
  BY TheFields DEF Parts, TypeOK, PlacesOK
<1>2. job[w].then \notin Writing \cup {"init", "readd", "verify", "copy"} /\ Fit(job[w], job[w].then)
  BY <1>1 DEF Placed, Writing
<1>3. CASE w \in Profile
  <2>1. Written(w) = NoJob(w) /\ job[w].then = "idle" BY <1>1, <1>3 DEF Written, Serves
  <2> QED BY <1>3, <1>2, <2>1, Waits
<1>4. CASE w \notin Profile /\ job[w].then = "done"
  <2>1. PICK j : j = NoJob(w) OBVIOUS
  <2>2. Written(w) = j BY <1>4, <2>1 DEF Written
  <2>3. /\ j \in Job /\ j.then = "done" /\ j.cmd = "serve" /\ j.key = NoKey /\ j.otherKey = NoKey
    BY <2>1, NamesAssumption DEF NoJob, Job, Steps, Home
  <2>4. Placed(j, "done") BY <2>3 DEF Placed, Fit, Keyed, Writing
  <2>5. Serves(w, j, "done") BY <1>4 DEF Serves
  <2>6. \A p \in Profile : \A k \in Key : ~Carries(j, "done", p, k)
    BY DEF Carries, Keyed, Writing, Enveloped
  <2> QED BY <1>1, <1>2, <1>4, <2>2, <2>3, <2>4, <2>5, <2>6
<1>5. CASE w \notin Profile /\ job[w].then # "done"
  <2>1. PICK j : j = [job[w] EXCEPT !.env = None, !.base = Missing, !.seen = Missing] OBVIOUS
  <2>2. Written(w) = j BY <1>5, <2>1 DEF Written
  <2>3. j \in Job BY <1>1, <2>1 DEF Job
  <2>4. /\ j.key = job[w].key /\ j.on = job[w].on /\ j.other = job[w].other
        /\ j.then = job[w].then /\ j.otherKey = job[w].otherKey /\ j.cmd = job[w].cmd
        /\ j.seen = Missing /\ j.env = None
    BY <1>1, <2>1 DEF Job
  <2>5. Placed(j, job[w].then)
    <3>1. Fit(j, job[w].then) BY <1>2, <2>4 DEF Fit
    <3> QED BY <1>1, <1>2, <2>4, <3>1 DEF Placed, Writing
  <2>6. Serves(w, j, job[w].then) BY <1>5 DEF Serves
  <2>7. ASSUME NEW p \in Profile, NEW k \in Key, Carries(j, job[w].then, p, k)
        PROVE Carries(job[w], at[w], p, k)
    <3>1. CASE j.on = p /\ j.key = k /\ job[w].then \in Keyed
      BY <2>4, <3>1 DEF Carries, Unsettled, Writing
    <3>2. CASE j.other = p /\ j.otherKey = k BY <2>4, <3>2 DEF Carries
    <3> QED BY <1>2, <2>4, <2>7, <3>1, <3>2 DEF Carries
  <2> QED BY <1>1, <1>2, <2>2, <2>3, <2>5, <2>6, <2>7
<1> QED BY <1>3, <1>4, <1>5

LEMMA FillKeeps == ASSUME Parts, NEW c \in Client, Fill(c) PROVE Parts'
<1>1. /\ c \in Writer /\ job[c] \in Job /\ at[c] = "write" /\ job[c].on \in Profile
      /\ job[c].env \in Envelope \cup {None}
      /\ vault \in [Profile -> Envelope \cup {Missing, Torn}]
      /\ \A p \in Safe : SoundJob(job[c], "write", p)
  BY TheJob, TheFields DEF Fill, Parts, TypeOK
<1>2. PICK j \in Job : j = Written(c) BY <1>1, WroteIt
<1>3. PICK s \in Steps \ (Writing \cup {"verify"}) : s = job[c].then BY <1>1, WroteIt
<1>4. PICK p \in Profile : p = job[c].on BY <1>1
<1>5. /\ at' = [at EXCEPT ![c] = s] /\ job' = [job EXCEPT ![c] = j]
      /\ snaps' = snaps /\ keychain' = keychain /\ sealed' = sealed /\ ram' = ram
      /\ acked' = acked /\ strayed' = strayed
  BY <1>2, <1>3 DEF Fill, Goto, item
<1>6. /\ \/ vault' = vault
         \/ vault' = [vault EXCEPT ![p] = Torn]
         \/ vault' = [vault EXCEPT ![p] = job[c].env] /\ job[c].env # None
      /\ rough \subseteq rough' /\ rough' \subseteq {"overlap", "unfiled", "repaired"}
  <2>1. rough \subseteq {"overlap", "unfiled", "repaired"} BY DEF Parts, TypeOK
  <2>2. CASE job[c].env = None BY <2>1, <2>2 DEF Fill
  <2>3. CASE job[c].env # None
    <3>1. PICK f \in {job[c].env} \cup (IF vault[p] = Torn THEN {} ELSE {Torn}) :
            /\ vault' = [vault EXCEPT ![p] = f]
            /\ rough' = rough \cup IF vault[p] # Torn THEN {"overlap"} ELSE {}
      BY <1>4, <2>3 DEF Fill
    <3> QED BY <2>1, <2>3, <3>1
  <2> QED BY <2>2, <2>3
<1>7. \A q \in Profile : vault'[q] \in {vault[q], Torn} \/
        (q = p /\ vault'[q] = job[c].env /\ job[c].env \in Envelope)
  BY <1>1, <1>6
<1>8. vault' \in [Profile -> Envelope \cup {Missing, Torn}] BY <1>1, <1>6
<1>9. FilesTyped' BY <1>5, <1>6, <1>8 DEF Parts, TypeOK, FilesTyped
<1>10. Grows BY <1>5, <1>6, <1>7, NamesAssumption DEF Grows
<1>11. Placed(j, s) /\ Serves(c, j, s) BY <1>1, <1>2, <1>3, WroteIt
<1>12. Recovers(j, s)' /\ Filed(j, s)' BY DEF Recovers, Filed, Writing
<1>13. SoundFiles'
  <2> SUFFICES ASSUME NEW q \in Safe, Complete(vault'[q]) PROVE Sound(vault'[q])
    BY <1>5 DEF SoundFiles, Parts, SlotsOK, Safe
  <2>1. CASE vault'[q] = vault[q] BY <2>1 DEF Parts, SlotsOK, SoundFiles
  <2>2. CASE q = p /\ vault'[q] = job[c].env /\ job[c].env \in Envelope
    BY <1>1, <1>4, <2>2, NamesAssumption DEF SoundJob, Enveloped
  <2> QED BY <1>7, <2>1, <2>2 DEF Safe, Complete
<1>14. \A q \in Safe' : SoundJob(j, s, q) BY DEF SoundJob, Enveloped, Writing
<1>15. \A q \in Profile \ strayed' : \A k \in Key :
         InUse(q, k)' \/ Carries(j, s, q, k) => KeyOf(q, k)
  <2>1. ASSUME NEW q \in Profile, NEW k \in Key, InUse(q, k)' PROVE KeyOf(q, k)
    <3>1. CASE Has(q, k)' BY <1>5, <3>1 DEF Has, InUse, KeyOf
    <3>2. CASE Complete(vault'[q]) /\ vault'[q].key = k
      <4>1. CASE vault'[q] = vault[q] BY <3>2, <4>1 DEF InUse, KeyOf
      <4>2. CASE q = p /\ vault'[q] = job[c].env /\ job[c].env \in Envelope
        <5>1. Carries(job[c], at[c], q, k)
          BY <1>1, <1>4, <3>2, <4>2, NamesAssumption DEF Carries, Enveloped
        <5> QED BY <1>1, <5>1 DEF KeyOf
      <4> QED BY <1>7, <3>2, <4>1, <4>2 DEF Complete
    <3> QED BY <2>1, <3>1, <3>2 DEF InUse
  <2>2. ASSUME NEW q \in Profile, NEW k \in Key, Carries(j, s, q, k) PROVE KeyOf(q, k)
    BY <1>1, <1>2, <1>3, <2>2, WroteIt DEF KeyOf
  <2> QED BY <2>1, <2>2
<1> QED BY <1>1, <1>5, <1>9, <1>10, <1>11, <1>12, <1>13, <1>14, <1>15, GoesOn

\* What a rename does to the other writers: those that are filling the same
\* file in place have no file any more.
LEMMA OthersOnRename ==
  ASSUME Parts, NEW w \in Writer, Rename(w), NEW v \in Writer \ {w}
  PROVE  /\ job'[v] \in Job /\ at'[v] = at[v]
         /\ \/ job'[v] = job[v]
            \/ at[v] = "write" /\ job'[v].env = None
         /\ Placed(job'[v], at'[v]) /\ Serves(v, job'[v], at'[v])
         /\ job'[v].on = job[v].on /\ job'[v].seen = job[v].seen
         /\ \A p \in Profile : \A k \in Key :
              Carries(job'[v], at'[v], p, k) => Carries(job[v], at[v], p, k)
<1>1. /\ job[v] \in Job /\ Placed(job[v], at[v]) /\ Serves(v, job[v], at[v])
      /\ at'[v] = at[v]
  BY DEF Rename, Goto, Parts, TypeOK, PlacesOK
<1>2. CASE at[v] = "write" /\ job[v].on = job[w].on
  <2>1. PICK j : j = [job[v] EXCEPT !.env = None] OBVIOUS
  <2>2. job'[v] = j BY <1>2, <2>1 DEF Rename
  <2>3. j \in Job BY <1>1, <2>1 DEF Job
  <2>4. /\ j.key = job[v].key /\ j.on = job[v].on /\ j.other = job[v].other /\ j.then = job[v].then
        /\ j.otherKey = job[v].otherKey /\ j.cmd = job[v].cmd /\ j.seen = job[v].seen
        /\ j.env = None
    BY <1>1, <2>1 DEF Job
  <2>5. Placed(j, "write")
    <3>1. Fit(j, j.then) BY <1>1, <1>2, <2>4 DEF Placed, Writing, Fit
    <3> QED BY <1>1, <1>2, <2>4, <3>1 DEF Placed, Fit, Keyed, Writing
  <2>6. Serves(v, j, "write") BY <1>1, <1>2, <2>4 DEF Serves
  <2>7. \A p \in Profile : \A k \in Key :
          Carries(j, "write", p, k) => Carries(job[v], "write", p, k)
    BY <2>4 DEF Carries, Unsettled
  <2> QED BY <1>1, <1>2, <2>2, <2>3, <2>4, <2>5, <2>6, <2>7
<1>3. CASE ~(at[v] = "write" /\ job[v].on = job[w].on)
  <2>1. job'[v] = job[v] BY <1>3 DEF Rename
  <2> QED BY <1>1, <2>1
<1> QED BY <1>2, <1>3

LEMMA RenameKeeps == ASSUME Parts, NEW w \in Writer, Rename(w) PROVE Parts'
<1>1. /\ job[w] \in Job /\ at[w] = "filed" /\ job[w].on \in Profile /\ Placed(job[w], "filed")
      /\ job \in [Writer -> Job] /\ at \in [Writer -> Steps]
      /\ vault \in [Profile -> Envelope \cup {Missing, Torn}]
      /\ \A p \in Safe : SoundJob(job[w], "filed", p)
  BY TheFields DEF Rename, Parts, TypeOK, PlacesOK, SlotsOK
<1>2. PICK p \in Profile : p = job[w].on BY <1>1
<1>3. PICK e \in Envelope : e = job[w].env BY <1>1 DEF Placed
<1>4. /\ job'[w] = Written(w) /\ at'[w] = job[w].then
      /\ snaps' = snaps /\ keychain' = keychain /\ sealed' = sealed /\ ram' = ram
      /\ strayed' = strayed /\ vault' = [vault EXCEPT ![p] = e]
  BY <1>1, <1>2, <1>3 DEF Rename, Goto, item
<1>5. /\ job'[w] \in Job /\ at'[w] \in Steps \ (Writing \cup {"verify"})
      /\ Placed(job'[w], at'[w]) /\ Serves(w, job'[w], at'[w])
      /\ \A q \in Profile : \A k \in Key :
           Carries(job'[w], at'[w], q, k) => Carries(job[w], at[w], q, k)
  BY <1>1, <1>4, WroteIt
<1>6. TypeOK'
  <2>1. job' \in [Writer -> Job]
    <3>1. \A v \in Writer : job'[v] \in Job BY <1>5, OthersOnRename
    <3>2. job' = [v \in Writer |-> job'[v]] BY DEF Rename
    <3> QED BY <3>1, <3>2
  <2>2. at' \in [Writer -> Steps] BY <1>1, <1>5 DEF Rename, Goto
  <2>3. acked' \subseteq Entry BY <1>3 DEF Rename, Envelope, Parts, TypeOK
  <2>4. rough' \subseteq {"overlap", "unfiled", "repaired"} BY DEF Rename, Parts, TypeOK
  <2>5. vault' \in [Profile -> Envelope \cup {Missing, Torn}] BY <1>1, <1>4
  <2> QED BY <1>4, <2>1, <2>2, <2>3, <2>4, <2>5 DEF Parts, TypeOK
<1>7. Grows BY <1>1, <1>4, NamesAssumption DEF Grows, Rename
<1>8. SoundFiles'
  <2> SUFFICES ASSUME NEW q \in Safe, Complete(vault'[q]) PROVE Sound(vault'[q])
    BY <1>4 DEF SoundFiles, Parts, SlotsOK, Safe
  <2>1. CASE q = p
    BY <1>1, <1>2, <1>3, <1>4, <2>1, NamesAssumption DEF SoundJob, Enveloped
  <2>2. CASE q # p BY <1>1, <1>4, <2>2 DEF Parts, SlotsOK, SoundFiles, Safe
  <2> QED BY <2>1, <2>2
<1>9. \A v \in Writer : Placed(job'[v], at'[v]) /\ Serves(v, job'[v], at'[v])
  BY <1>5, OthersOnRename
<1>10. ASSUME NEW v \in Writer PROVE Recovers(job[v], at[v])' /\ Filed(job[v], at[v])'
  <2>1. CASE v = w BY <1>5, <2>1 DEF Recovers, Filed, Writing
  <2>2. CASE v # w
    <3>1. job[v].on \in Profile /\ Recovers(job[v], at[v]) /\ Filed(job[v], at[v])
      BY DEF Parts, TypeOK, RecoversOK, FiledOK, Job
    <3>2. Recovers(job[v], at[v])' BY <1>7, <2>2, <3>1, OthersOnRename DEF Recovers, Grows
    <3>3. Filed(job[v], at[v])'
      <4>1. rough' = {} => rough = {} BY <1>7 DEF Grows
      <4> QED BY <1>4, <2>2, <3>1, <4>1, OthersOnRename DEF Filed
    <3> QED BY <3>2, <3>3
  <2> QED BY <2>1, <2>2
<1>11. ASSUME NEW v \in Writer, NEW q \in Safe' PROVE SoundJob(job'[v], at'[v], q)
  <2>1. CASE v = w BY <1>5, <2>1 DEF SoundJob, Enveloped, Writing
  <2>2. CASE v # w
    <3>1. q \in Safe BY <1>4 DEF Safe
    <3> QED BY <2>2, <3>1, OthersOnRename DEF SoundJob, Parts, SlotsOK
  <2> QED BY <2>1, <2>2
<1>12. ASSUME NEW q \in Profile, NEW k \in Key, InUse(q, k)' PROVE KeyOf(q, k)
  <2>1. CASE q = p /\ Complete(vault'[q]) /\ vault'[q].key = k
    <3>1. Carries(job[w], at[w], q, k)
      BY <1>1, <1>2, <1>3, <1>4, <2>1, NamesAssumption DEF Carries, Enveloped
    <3> QED BY <3>1 DEF KeyOf
  <2>2. CASE ~(q = p /\ Complete(vault'[q]) /\ vault'[q].key = k)
    BY <1>1, <1>4, <1>12, <2>2 DEF InUse, Has, KeyOf
  <2> QED BY <2>1, <2>2
<1>13. ASSUME NEW v \in Writer, NEW q \in Profile, NEW k \in Key, Carries(job'[v], at'[v], q, k)
       PROVE KeyOf(q, k)
  BY <1>5, <1>13, OthersOnRename DEF KeyOf
<1> QED BY <1>6, <1>7, <1>8, <1>9, <1>10, <1>11, <1>12, <1>13, AllGoOn

-----------------------------------------------------------------------------
(* Nothing that was acknowledged is gone.                                  *)

\* An entry is in a vault that can be read or in a snapshot.
Kept(e) == \E p \in Profile : \/ Complete(vault[p]) /\ e \in vault[p].data
                              \/ \E f \in snaps[p] : e \in f.data

LEMMA GoneIsNotKept ==
  TypeOK => (NothingGone <=> (rough = {} => \A e \in acked : Kept(e)))
<1> SUFFICES ASSUME TypeOK PROVE NothingGone <=> (rough = {} => \A e \in acked : Kept(e))
  OBVIOUS
<1>1. \A p \in Profile : vault[p] = Missing \/ vault[p] = Torn \/ Complete(vault[p])
  BY DEF Complete
<1>2. \A p \in Profile : \A f \in snaps[p] : Complete(f)
  BY NamesAssumption DEF TypeOK, Complete
<1> DEFINE Readable == {vault[p] : p \in {q \in Profile : vault[q] # Torn}}
                      \cup UNION {snaps[p] : p \in Profile}
<1>3. ASSUME NEW e PROVE e \in UNION {Entries(f) : f \in Readable} <=> Kept(e)
  <2>1. ASSUME Kept(e) PROVE \E f \in Readable : e \in Entries(f)
    <3>1. PICK p \in Profile : \/ Complete(vault[p]) /\ e \in vault[p].data
                               \/ \E f \in snaps[p] : e \in f.data
      BY <2>1 DEF Kept
    <3>2. CASE Complete(vault[p]) /\ e \in vault[p].data
      BY <3>2 DEF Complete, Entries
    <3>3. CASE \E f \in snaps[p] : e \in f.data
      <4>1. PICK f \in snaps[p] : e \in f.data BY <3>3
      <4> QED BY <4>1, <1>2 DEF Complete, Entries
    <3> QED BY <3>1, <3>2, <3>3
  <2>2. ASSUME NEW f \in Readable, e \in Entries(f) PROVE Kept(e)
    <3>1. f # Missing /\ e \in f.data BY <2>2 DEF Entries
    <3>2. CASE f \in {vault[p] : p \in {q \in Profile : vault[q] # Torn}}
      BY <3>1, <3>2, <1>1 DEF Kept
    <3>3. CASE f \in UNION {snaps[p] : p \in Profile} BY <3>1, <3>3 DEF Kept
    <3> QED BY <3>2, <3>3
  <2> QED BY <2>1, <2>2
<1> HIDE DEF Readable
<1>4. acked \subseteq UNION {Entries(f) : f \in Readable} <=> \A e \in acked : Kept(e)
  BY <1>3
<1> QED BY <1>4 DEF NothingGone, Readable

\* No vault is replaced.
LEMMA NothingReplaced ==
  ASSUME TypeOK, TypeOK', NothingGone, Grows, vault' = vault, acked' = acked
  PROVE  NothingGone'
<1>1. \A e : Kept(e) => Kept(e)' BY DEF Kept, Grows
<1>2. rough' = {} => rough = {} BY DEF Grows
<1>3. rough = {} => \A e \in acked : Kept(e) BY GoneIsNotKept
<1>4. rough' = {} => \A e \in acked' : Kept(e)' BY <1>1, <1>2, <1>3
<1>5. (TypeOK => (NothingGone <=> (rough = {} => \A e \in acked : Kept(e))))'
  BY GoneIsNotKept, PTL
<1> QED BY <1>4, <1>5

\* A vault is replaced that has a snapshot, and what is acknowledged is in
\* the file that replaces it.
LEMMA OneReplaced ==
  ASSUME TypeOK, TypeOK', NothingGone, NEW p \in Profile, NEW f, snaps' = snaps,
         vault' = [vault EXCEPT ![p] = f], rough \subseteq rough',
         rough' = {} /\ Complete(vault[p]) => vault[p] \in snaps[p],
         \A e \in acked' : e \in acked \/ (Complete(f) /\ e \in f.data)
  PROVE  NothingGone'
<1>1. rough = {} => \A e \in acked : Kept(e) BY GoneIsNotKept
<1>2. vault'[p] = f /\ \A q \in Profile \ {p} : vault'[q] = vault[q] BY DEF TypeOK
<1>3. ASSUME rough' = {}, NEW e \in acked' PROVE Kept(e)'
  <2>1. CASE Complete(f) /\ e \in f.data BY <1>2, <2>1 DEF Kept
  <2>2. CASE e \in acked
    <3>1. PICK q \in Profile : \/ Complete(vault[q]) /\ e \in vault[q].data
                               \/ \E g \in snaps[q] : e \in g.data
      BY <1>1, <1>3, <2>2 DEF Kept
    <3>2. CASE q = p BY <1>3, <3>1, <3>2 DEF Kept
    <3>3. CASE q # p BY <1>2, <3>1, <3>3 DEF Kept
    <3> QED BY <3>2, <3>3
  <2> QED BY <2>1, <2>2
<1>4. (TypeOK => (NothingGone <=> (rough = {} => \A e \in acked : Kept(e))))'
  BY GoneIsNotKept, PTL
<1> QED BY <1>3, <1>4

LEMMA RenameLosesNothing ==
  ASSUME Parts, TypeOK', NothingGone, NEW w \in Writer, Rename(w) PROVE NothingGone'
<1>1. /\ job[w].on \in Profile /\ job[w].env \in Envelope /\ Filed(job[w], "filed")
  BY TheFields DEF Rename, Parts, TypeOK, PlacesOK, Placed, FiledOK
<1>2. /\ rough \subseteq rough' /\ snaps' = snaps
      /\ vault' = [vault EXCEPT ![job[w].on] = job[w].env]
      /\ rough' = {} => rough = {} /\ vault[job[w].on] = job[w].seen
  BY DEF Rename
<1>3. rough' = {} /\ Complete(vault[job[w].on]) => vault[job[w].on] \in snaps[job[w].on]
  BY <1>1, <1>2 DEF Filed
<1>4. \A e \in acked' : e \in acked \/ (Complete(job[w].env) /\ e \in job[w].env.data)
  BY <1>1, NamesAssumption DEF Rename, Complete
<1> QED BY <1>1, <1>2, <1>3, <1>4, OneReplaced DEF Parts

LEMMA TruncateLosesNothing ==
  ASSUME Parts, TypeOK', NothingGone, NEW c \in Client, Truncate(c) PROVE NothingGone'
<1>1. job[c].on \in Profile /\ Filed(job[c], "confirm")
  BY TheJob, TheFields DEF Truncate
<1>2. /\ rough \subseteq rough' /\ snaps' = snaps /\ acked' = acked
      /\ vault' = [vault EXCEPT ![job[c].on] = Torn]
      /\ rough' = {} => rough = {} /\ vault[job[c].on] = job[c].seen /\ job[c].cmd # "dedupe"
  BY DEF Truncate
<1>3. rough' = {} /\ Complete(vault[job[c].on]) => vault[job[c].on] \in snaps[job[c].on]
  BY <1>1, <1>2 DEF Filed
<1> QED BY <1>1, <1>2, <1>3, OneReplaced DEF Parts

LEMMA FillLosesNothing ==
  ASSUME Parts, TypeOK', NothingGone, NEW c \in Client, Fill(c) PROVE NothingGone'
<1>1. /\ job[c].on \in Profile /\ snaps' = snaps /\ acked' = acked /\ strayed' = strayed
      /\ rough \subseteq rough'
  BY TheJob, TheFields DEF Fill
<1>2. CASE job[c].env = None
  <2>1. vault' = vault /\ Grows BY <1>1, <1>2 DEF Fill, Grows
  <2> QED BY <1>1, <2>1, NothingReplaced DEF Parts
<1>3. CASE job[c].env # None
  <2>1. PICK f : /\ vault' = [vault EXCEPT ![job[c].on] = f]
                 /\ rough' = rough \cup IF vault[job[c].on] # Torn THEN {"overlap"} ELSE {}
    BY <1>3 DEF Fill
  <2>2. rough' = {} => ~Complete(vault[job[c].on]) BY <2>1 DEF Complete
  <2> QED BY <1>1, <2>1, <2>2, OneReplaced DEF Parts
<1> QED BY <1>2, <1>3

-----------------------------------------------------------------------------
(* Every step.                                                             *)

\* Three steps replace a vault; every other one leaves the vaults and what is
\* acknowledged alone, and adds to the snapshots.
LEMMA VaultMoves ==
  ASSUME Parts, Next
  PROVE  \/ \E w \in Writer : Rename(w)
         \/ \E c \in Client : Truncate(c) \/ Fill(c)
         \/ vault' = vault /\ acked' = acked /\ Grows
<1>1. ASSUME vault' = vault, strayed \subseteq strayed', rough \subseteq rough',
             snaps' = snaps \/ \E p \in Profile : \E k : snaps' = Copied(vault[p], p, k)
      PROVE  Grows
  <2>1. \A q \in Profile : snaps[q] \subseteq snaps'[q] BY <1>1 DEF Copied
  <2> QED BY <1>1, <2>1 DEF Grows
<1>2. ASSUME NEW c \in Client, ClientStep(c), ~Truncate(c), ~Fill(c)
      PROVE  vault' = vault /\ acked' = acked /\ Grows
  <2>1. CASE \E p, q \in Profile : StartDedupe(c, p, q)
    BY <1>1, <2>1 DEF StartDedupe, Start, ghosts
  <2>2. CASE \E p \in Profile : StartOpen(c, p) \/ StartNew(c, p) \/ StartInit(c, p)
               \/ StartMigrate(c, p) \/ StartRecover(c, p) \/ StartPrune(c, p)
    BY <1>1, <2>2 DEF StartOpen, StartNew, StartInit, StartMigrate, StartRecover, StartPrune,
                      Start, ghosts
  <2>3. CASE \E p \in Profile : StartSummary(c, p) \/ StartFlatten(c, p)
               \/ StartSnapshot(c, p) \/ StartRestore(c, p)
    BY <1>1, <2>3 DEF StartSummary, StartFlatten, StartSnapshot, StartRestore, Start, ghosts
  <2>4. CASE Ends(c) \/ InitializeMasterKey(c) \/ FallBack(c) \/ DeleteItem(c) \/ AddItemFails(c)
    BY <1>1, <2>4 DEF Ends, InitializeMasterKey, FallBack, DeleteItem, AddItemFails, ghosts
  <2>5. CASE AddItem(c)
    <3>1. strayed \subseteq strayed' BY <2>5 DEF AddItem
    <3> QED BY <1>1, <2>5, <3>1 DEF AddItem
  <2>6. CASE Open(c) \/ SaveEmpty(c) \/ EnrolSlot(c) \/ Migrate(c) \/ Unwrap(c) \/ Verify(c)
               \/ Prune(c)
    BY <1>1, <2>6 DEF Open, SaveEmpty, EnrolSlot, Migrate, Unwrap, Verify, Prune, ghosts
  <2>7. CASE UpdateProfileSummary(c) \/ FlattenVaultFile(c) \/ Evict(c) \/ Turn(c)
    BY <1>1, <2>7 DEF UpdateProfileSummary, FlattenVaultFile, Evict, Turn, ghosts
  <2>8. CASE CreateSnapshot(c) \/ ChooseSnapshot(c)
    <3>1. job[c].on \in Profile BY TheJob, TheFields
    <3> QED BY <1>1, <2>8, <3>1 DEF CreateSnapshot, ChooseSnapshot, ghosts
  <2>9. CASE Deduplicate(c) \/ RepairTarget(c)
    BY <1>1, <2>9 DEF Deduplicate, RepairTarget
  <2> QED BY <1>2, <2>1, <2>2, <2>3, <2>4, <2>5, <2>6, <2>7, <2>8, <2>9 DEF ClientStep
<1>3. ASSUME NEW w \in Writer, Save(w) \/ File(w)
      PROVE  vault' = vault /\ acked' = acked /\ Grows
  <2>1. job[w].on \in Profile BY TheFields DEF Parts, TypeOK
  <2> QED BY <1>1, <1>3, <2>1 DEF Save, File, ghosts
<1>4. ASSUME NEW p \in Profile, NEW e \in Entry, Set(p, e)
      PROVE  vault' = vault /\ acked' = acked /\ Grows
  BY <1>1, <1>4 DEF Set, ghosts
<1>5. ASSUME NEW p \in Profile, DaemonEnds(p) \/ SaveFails(p) \/ Invalidate(p)
      PROVE  vault' = vault /\ acked' = acked /\ Grows
  BY <1>1, <1>5 DEF DaemonEnds, SaveFails, Invalidate, ghosts
<1> QED BY <1>2, <1>3, <1>4, <1>5 DEF Next

LEMMA StartKeeps ==
  ASSUME Parts, NEW c \in Client, NEW p \in Profile,
         \/ StartOpen(c, p) \/ StartNew(c, p) \/ StartInit(c, p) \/ StartMigrate(c, p)
         \/ StartRecover(c, p) \/ StartPrune(c, p) \/ StartSummary(c, p) \/ StartFlatten(c, p)
         \/ StartSnapshot(c, p) \/ StartRestore(c, p)
  PROVE  Parts'
<1>1. PICK cmd \in CommandName \ {"dedupe"}, s \in {"init", "read", "copy"} : Start(c, cmd, p, p, s)
  BY DEF StartOpen, StartNew, StartInit, StartMigrate, StartRecover, StartPrune, StartSummary,
         StartFlatten, StartSnapshot, StartRestore, CommandName
<1> QED BY <1>1, Starts

LEMMA ClientKeeps == ASSUME Parts, NEW c \in Client, ClientStep(c) PROVE Parts'
<1>1. CASE \E p, q \in Profile : StartDedupe(c, p, q)
  <2>1. PICK p \in Profile, q \in Profile : p # q /\ Start(c, "dedupe", p, q, "init")
    BY <1>1 DEF StartDedupe
  <2>2. "dedupe" \in CommandName BY DEF CommandName
  <2> QED BY <2>1, <2>2, Starts
<1>2. CASE \E p \in Profile :
             \/ StartOpen(c, p) \/ StartNew(c, p) \/ StartInit(c, p) \/ StartMigrate(c, p)
             \/ StartRecover(c, p) \/ StartPrune(c, p) \/ StartSummary(c, p)
             \/ StartFlatten(c, p) \/ StartSnapshot(c, p) \/ StartRestore(c, p)
  BY <1>2, StartKeeps
<1>3. CASE Ends(c) \/ InitializeMasterKey(c) \/ FallBack(c)
  BY <1>3, EndsKeeps, InitKeeps, FallBackKeeps
<1>4. CASE DeleteItem(c) \/ AddItem(c) \/ AddItemFails(c)
  BY <1>4, DeleteItemKeeps, AddItemKeeps, AddFirstKeeps, AddItemFailsKeeps
<1>5. CASE Open(c) \/ SaveEmpty(c) \/ EnrolSlot(c)
  BY <1>5, OpenKeeps, SaveEmptyKeeps, EnrolSlotKeeps
<1>6. CASE Migrate(c) \/ Unwrap(c) \/ Verify(c) \/ Prune(c)
  BY <1>6, MigrateKeeps, UnwrapKeeps, VerifyKeeps, PruneKeeps
<1>7. CASE UpdateProfileSummary(c) \/ FlattenVaultFile(c) \/ Evict(c)
  BY <1>7, SummaryKeeps, FlattenKeeps, EvictKeeps
<1>8. CASE CreateSnapshot(c) \/ ChooseSnapshot(c) \/ Truncate(c) \/ Fill(c)
  BY <1>8, SnapshotKeeps, ChooseKeeps, TruncateKeeps, FillKeeps
<1>9. CASE Turn(c) \/ Deduplicate(c) \/ RepairTarget(c)
  BY <1>9, TurnKeeps, DeduplicateKeeps, RepairKeeps
<1> QED BY <1>1, <1>2, <1>3, <1>4, <1>5, <1>6, <1>7, <1>8, <1>9 DEF ClientStep

LEMMA NextKeeps == ASSUME Parts, Next PROVE Parts'
<1>1. CASE \E c \in Client : ClientStep(c) BY <1>1, ClientKeeps
<1>2. CASE \E w \in Writer : Save(w) \/ File(w) \/ Rename(w)
  BY <1>2, SaveKeeps, FileKeeps, RenameKeeps
<1>3. CASE \E p \in Profile, e \in Entry : Set(p, e) BY <1>3, SetKeeps
<1>4. CASE \E p \in Profile : DaemonEnds(p) \/ SaveFails(p) \/ Invalidate(p)
  BY <1>4, DaemonEndsKeeps, SaveFailsKeeps, InvalidateKeeps
<1> QED BY <1>1, <1>2, <1>3, <1>4 DEF Next

LEMMA NextLosesNothing == ASSUME Parts, NothingGone, Next PROVE NothingGone'
<1>1. TypeOK' BY NextKeeps DEF Parts
<1>2. CASE \E w \in Writer : Rename(w) BY <1>1, <1>2, RenameLosesNothing
<1>3. CASE \E c \in Client : Truncate(c) \/ Fill(c)
  BY <1>1, <1>3, TruncateLosesNothing, FillLosesNothing
<1>4. CASE vault' = vault /\ acked' = acked /\ Grows
  BY <1>1, <1>4, NothingReplaced DEF Parts
<1> QED BY <1>2, <1>3, <1>4, VaultMoves

LEMMA Stutters == ASSUME Parts, UNCHANGED vars PROVE Parts'
<1>1. /\ vault' = vault /\ snaps' = snaps /\ keychain' = keychain /\ sealed' = sealed
      /\ ram' = ram /\ at' = at /\ job' = job /\ acked' = acked /\ strayed' = strayed
      /\ rough' = rough
  BY DEF vars, item
<1>2. TypeOK' BY <1>1 DEF Parts, TypeOK
<1>3. PlacesOK' BY <1>1 DEF Parts, PlacesOK
<1>4. RecoversOK' BY <1>1 DEF Parts, RecoversOK, Recovers
<1>5. FiledOK' BY <1>1 DEF Parts, FiledOK, Filed
<1>6. OneKey'
  <2>1. \A p \in Profile : \A k \in Key : KeyOf(p, k)' => KeyOf(p, k)
    BY <1>1 DEF KeyOf, InUse, Has
  <2> QED BY <1>1, <2>1 DEF Parts, OneKey
<1>7. SlotsOK' BY <1>1 DEF Parts, SlotsOK, SoundFiles, Safe
<1> QED BY <1>2, <1>3, <1>4, <1>5, <1>6, <1>7 DEF Parts

-----------------------------------------------------------------------------
(* The beginning.                                                          *)

LEMMA FirstVaults ==
  ASSUME NEW p \in Profile, NEW v \in InitialVaults(p)
  PROVE  /\ v \in Envelope \cup {Missing, Torn}
         /\ v \in Envelope => v.key = OrigKey(p) /\ Sound(v)
         /\ v # Missing => v \in Envelope
<1>1. OrigKey(p) \in Key BY DEF OrigKey, Key
<1>2. CASE v = Missing BY <1>2, NamesAssumption
<1>3. ASSUME NEW f \in {"v1", "nested"}, NEW d \in SUBSET Entry, v = Bare(p, f, d)
      PROVE  v \in Envelope /\ v.key = OrigKey(p) /\ Sound(v)
  <2>1. v \in Envelope BY <1>1, <1>3 DEF Bare, Envelope
  <2> QED BY <1>3, <2>1 DEF Bare, Sound
<1>4. ASSUME NEW f \in {"v2", "nested"}, NEW d \in SUBSET Entry, v = Slotted(p, f, d)
      PROVE  v \in Envelope /\ v.key = OrigKey(p) /\ Sound(v)
  <2>1. PICK l : l = [seed |-> Origin, key |-> OrigKey(p)] OBVIOUS
  <2>2. l \in Slot /\ l.key = OrigKey(p) BY <1>1, <2>1 DEF Slot
  <2>3. v = [format |-> f, key |-> OrigKey(p), data |-> d, slot |-> l, summary |-> Origin]
    BY <1>4, <2>1 DEF Slotted, Bare
  <2>4. v \in Envelope BY <1>1, <2>2, <2>3 DEF Envelope
  <2> QED BY <2>2, <2>3, <2>4 DEF Sound
<1> QED BY <1>2, <1>3, <1>4 DEF InitialVaults

LEMMA FirstJobs ==
  ASSUME NEW w \in Writer
  PROVE  /\ NoJob(w) \in Job /\ Placed(NoJob(w), "idle") /\ Serves(w, NoJob(w), "idle")
         /\ \A p \in Profile : \A k \in Key : ~Carries(NoJob(w), "idle", p, k)
<1>1. PICK j : j = NoJob(w) OBVIOUS
<1>2. j \in Job BY <1>1, NamesAssumption DEF NoJob, Job, Steps, Home, Writer
<1>3. /\ j.on = Home(w) /\ j.key = NoKey /\ j.otherKey = NoKey /\ j.cmd = "serve" BY <1>1 DEF NoJob
<1>4. Placed(j, "idle") BY <1>3 DEF Placed, Fit, Keyed, Writing
<1>5. Serves(w, j, "idle") BY <1>3 DEF Serves, Home
<1>6. \A p \in Profile : \A k \in Key : ~Carries(j, "idle", p, k)
  BY DEF Carries, Keyed, Writing, Enveloped
<1> QED BY <1>1, <1>2, <1>4, <1>5, <1>6

LEMMA Begins == ASSUME Init PROVE Parts /\ NothingGone
<1>1. \A p \in Profile : /\ vault[p] \in Envelope \cup {Missing, Torn}
                         /\ vault[p] \in Envelope => vault[p].key = OrigKey(p) /\ Sound(vault[p])
                         /\ vault[p] # Missing => vault[p] \in Envelope
  BY FirstVaults DEF Init
<1>2. \A p \in Profile : OrigKey(p) \in Key BY DEF OrigKey, Key
<1>3. /\ snaps = [p \in Profile |-> {}] /\ at = [w \in Writer |-> "idle"]
      /\ job = [w \in Writer |-> NoJob(w)] /\ strayed = {} /\ rough = {}
  BY DEF Init
<1>4. \A p \in Profile : keychain[p] \in {NoKey, OrigKey(p)} BY DEF Init
<1>5. \A p \in Profile : ram[p] # None => ram[p] \in Store /\ ram[p].key = OrigKey(p)
  <2> SUFFICES ASSUME NEW p \in Profile, ram[p] # None
               PROVE ram[p] \in Store /\ ram[p].key = OrigKey(p)
    OBVIOUS
  <2>1. vault[p] \in Envelope /\ ram[p] = [key |-> vault[p].key, data |-> vault[p].data]
    BY <1>1 DEF Init
  <2> QED BY <1>1, <1>2, <2>1 DEF Store, Envelope
<1>6. acked \subseteq Entry
  <2>1. \A p \in Profile : Entries(vault[p]) \subseteq Entry BY <1>1 DEF Entries, Envelope
  <2> QED BY <2>1 DEF Init
<1>7. TypeOK
  <2>1. vault \in [Profile -> Envelope \cup {Missing, Torn}]
    <3>1. vault \in [Profile -> UNION {InitialVaults(p) : p \in Profile}] BY DEF Init
    <3> QED BY <1>1, <3>1
  <2>2. keychain \in [Profile -> Key \cup {NoKey}] BY <1>2 DEF Init
  <2>3. ram \in [Profile -> Store \cup {None}]
    <3>1. ram = [p \in Profile |-> ram[p]] BY DEF Init
    <3> QED BY <1>5, <3>1
  <2>4. job \in [Writer -> Job] BY <1>3, FirstJobs
  <2>5. at \in [Writer -> Steps] BY <1>3 DEF Steps
  <2>6. sealed \subseteq Profile BY DEF Init
  <2> QED BY <1>3, <1>6, <2>1, <2>2, <2>3, <2>4, <2>5, <2>6 DEF TypeOK
<1>8. PlacesOK /\ RecoversOK /\ FiledOK
  BY <1>3, FirstJobs DEF PlacesOK, RecoversOK, Recovers, FiledOK, Filed
<1>9. OneKey
  <2>1. ASSUME NEW p \in Profile, NEW k \in Key, KeyOf(p, k) PROVE k = OrigKey(p)
    <3>1. InUse(p, k) BY <1>3, <2>1, FirstJobs DEF KeyOf
    <3> QED BY <1>1, <1>4, <1>5, <3>1, NamesAssumption DEF InUse, Has, Complete
  <2> QED BY <2>1 DEF OneKey
<1>10. SlotsOK
  BY <1>1, <1>3 DEF SlotsOK, SoundFiles, SoundJob, Safe, Complete, Enveloped
<1>11. NothingGone
  <2>1. \A e \in acked : Kept(e)
    <3> SUFFICES ASSUME NEW e \in acked PROVE Kept(e)
      OBVIOUS
    <3>1. PICK p \in Profile : e \in Entries(vault[p]) BY DEF Init
    <3>2. vault[p] \in Envelope /\ e \in vault[p].data BY <1>1, <3>1 DEF Entries
    <3> QED BY <3>2, NamesAssumption DEF Kept, Complete
  <2> QED BY <1>7, <2>1, GoneIsNotKept
<1> QED BY <1>7, <1>8, <1>9, <1>10, <1>11 DEF Parts

-----------------------------------------------------------------------------
(* The results.                                                            *)

IInv == Parts /\ NothingGone

\* The invariant is kept by every step of every terminal and daemon: what a
\* command has in hand fits what it does next (PlacesOK), a file about to be
\* replaced has been filed (FiledOK), a profile that did not stray has one key
\* wherever a key of it is - in its vault, its keychain item, its daemon, or
\* in the hands of a command (OneKey) - and the recovery slots in vaults,
\* snapshots and envelopes on their way have the key of their payload
\* (SlotsOK).
THEOREM VaultInvariant == Spec => []IInv
<1>1. Init => IInv BY Begins DEF IInv
<1>2. IInv /\ [Next]_vars => IInv'
  <2> SUFFICES ASSUME IInv, [Next]_vars PROVE IInv'
    OBVIOUS
  <2>1. CASE Next BY <2>1, NextKeeps, NextLosesNothing DEF IInv
  <2>2. CASE UNCHANGED vars
    <3>1. Parts' BY <2>2, Stutters DEF IInv
    <3>2. vault' = vault /\ acked' = acked /\ Grows BY <2>2 DEF vars, Grows
    <3> QED BY <3>1, <3>2, NothingReplaced DEF IInv, Parts
  <2> QED BY <2>1, <2>2
<1> QED BY <1>1, <1>2, PTL DEF Spec

\* Every variable keeps its type: no envelope, job or store is made that is
\* not one.
THEOREM VaultTyped == Spec => []TypeOK
<1>1. IInv => TypeOK BY DEF IInv, Parts
<1> QED BY <1>1, VaultInvariant, PTL

\* Nothing a daemon answered to have stored is gone, however many processes
\* replace the vault files and wherever they end, unless one of the three
\* reasons the ghost variable names occurred (WriteVaultEnvelope's presave).
THEOREM NothingIsGone == Spec => []NothingGone
<1>1. IInv => NothingGone BY DEF IInv
<1> QED BY <1>1, VaultInvariant, PTL

\* Vault, keychain item and recovery slot of a profile keep to one key, for
\* any number of terminals that open, migrate, recover, restore and
\* deduplicate at once (InitializeMasterKey, handleMigrateV2, handleSession-
\* Recover, handleSnapshotRestore, handleDeduplicate).
THEOREM KeysStay == Spec => []KeysAgree
<1>1. ASSUME Parts PROVE KeysAgree
  <2> SUFFICES ASSUME NEW p \in Profile \ strayed, Complete(vault[p])
               PROVE  /\ keychain[p] \in {NoKey, vault[p].key}
                      /\ vault[p].slot # None /\ (p = Default => strayed = {}) =>
                           vault[p].slot.key = vault[p].key
    BY DEF KeysAgree
  <2>1. keychain[p] \in Key \cup {NoKey} /\ vault[p] \in Envelope /\ vault[p].key \in Key
    BY <1>1 DEF Parts, TypeOK, Complete, Envelope
  <2>2. KeyOf(p, vault[p].key) BY DEF KeyOf, InUse
  <2>3. keychain[p] \in Key => KeyOf(p, keychain[p]) BY DEF KeyOf, InUse, Has
  <2>4. keychain[p] \in {NoKey, vault[p].key} BY <1>1, <2>1, <2>2, <2>3, SameKey
  <2>5. (p = Default => strayed = {}) => Sound(vault[p])
    BY <1>1 DEF Safe, Parts, SlotsOK, SoundFiles
  <2> QED BY <2>4, <2>5 DEF Sound
<1>2. IInv => KeysAgree BY <1>1 DEF IInv
<1> QED BY <1>2, VaultInvariant, PTL

\* A step that replaces a complete vault is the rename of an envelope, and
\* one made from the file it replaces takes over its recovery slot and, but
\* for the commands that write it, its summary (SaveStore).
LEMMA Replaces ==
  ASSUME Parts, Next, NEW p \in Profile, Complete(vault'[p]), vault'[p] # vault[p],
         \A w \in Writer : at[w] = "write" => job[w].on # p
  PROVE  \E w \in Writer : /\ job[w].on = p /\ at[w] = "filed" /\ at'[w] # "filed"
                           /\ vault'[p] = job[w].env /\ Takes(job[w])
<1>1. ASSUME NEW w \in Writer, Rename(w)
      PROVE  /\ job[w].on = p /\ at[w] = "filed" /\ at'[w] # "filed"
             /\ vault'[p] = job[w].env /\ Takes(job[w])
  <2>1. at[w] = "filed" /\ job[w].on = p /\ vault'[p] = job[w].env
    BY <1>1 DEF Rename, Parts, TypeOK
  <2>2. at'[w] = job[w].then BY <1>1 DEF Rename, Goto, Parts, TypeOK
  <2>3. job[w].then # "filed" BY <2>1, WroteIt DEF Writing
  <2> QED BY <2>1, <2>2, <2>3 DEF Parts, PlacesOK, Placed
<1>2. ASSUME NEW c \in Client, Truncate(c) PROVE FALSE
  BY <1>2 DEF Truncate, Complete, Parts, TypeOK
<1>3. ASSUME NEW c \in Client, Fill(c) PROVE FALSE
  <2>1. c \in Writer /\ at[c] = "write" BY <1>3, TheJob DEF Fill
  <2>2. job[c].on # p BY <2>1
  <2> QED BY <1>3, <2>2 DEF Fill, Parts, TypeOK
<1> QED BY <1>1, <1>2, <1>3, VaultMoves

THEOREM CarriesOver == Spec => CarriedOver
<1> DEFINE A == \A p \in Profile :
       (/\ IsV2(vault[p]) /\ Complete(vault'[p]) /\ vault'[p] # vault[p]
        /\ \A w \in Writer : at[w] = "write" => job[w].on # p) =>
         \E w \in Writer :
           /\ job[w].on = p /\ at[w] = "filed" /\ at'[w] # "filed"
           /\ \/ job[w].base # vault[p]
              \/ /\ vault[p].slot # None => vault'[p].slot # None
                 /\ \/ job[w].cmd \in {"migrate", "init", "summary", "new"}
                    \/ vault'[p].summary = vault[p].summary
<1>1. ASSUME Parts, Next PROVE A
  <2> SUFFICES ASSUME NEW p \in Profile, IsV2(vault[p]), Complete(vault'[p]),
                      vault'[p] # vault[p],
                      \A w \in Writer : at[w] = "write" => job[w].on # p
               PROVE \E w \in Writer :
                 /\ job[w].on = p /\ at[w] = "filed" /\ at'[w] # "filed"
                 /\ \/ job[w].base # vault[p]
                    \/ /\ vault[p].slot # None => vault'[p].slot # None
                       /\ \/ job[w].cmd \in {"migrate", "init", "summary", "new"}
                          \/ vault'[p].summary = vault[p].summary
    OBVIOUS
  <2>1. PICK w \in Writer : /\ job[w].on = p /\ at[w] = "filed" /\ at'[w] # "filed"
                            /\ vault'[p] = job[w].env /\ Takes(job[w])
    BY <1>1, Replaces
  <2> WITNESS w \in Writer
  <2> QED BY <2>1 DEF Takes
<1>2. IInv /\ [Next]_vars => [A]_vars BY <1>1 DEF IInv
<1> QED BY <1>2, VaultInvariant, PTL DEF Spec, CarriedOver
=============================================================================
