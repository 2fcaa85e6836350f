------------------------ MODULE ClientCommandsProofs ------------------------
(***************************************************************************)
(* What the commands of the client keep for any number of users, profiles, *)
(* keys and variables, whatever runs at the same time and wherever it ends.*)
(*                                                                         *)
(* The invariant has five parts, about the sessions, the commands, the     *)
(* entries, the runs and the dotenv file.  A request changes entries in    *)
(* few ways, and a command waits, goes on or ends: each way has a lemma,   *)
(* and a step is a combination of them.                                    *)
(***************************************************************************)
EXTENDS ClientCommands, TLAPS

Backups  == UNION {[K -> Value] : K \in SUBSET Key}
Contents == [Var -> Var \cup {Placeholder}]

\* What a command that waits at a step has read.
Fits(step, data) ==
  /\ step = "edit" => data \in Key \X Entry
  /\ step = "copy" => data \in Key \X Value
  /\ step \in {"backup", "merge"} => data \in Backups
  /\ step \in {"rotate", "hook"} => \E k \in Key : data = <<k>>
  /\ step = "import" => data \in SUBSET Key
  /\ step = "migrate" => data \in (Nat \ {0}) \X Contents
  /\ step = "running" => data # "dry"

SessionsOK ==
  /\ session \in [Profile -> {"open", "locked"}]
  /\ confirmed \in [Profile -> BOOLEAN]
  /\ \A p \in Profile : confirmed[p] => session[p] = "open" /\ p \in consented
  /\ holds \in [Client -> Profile \cup {None, "stale"}]
  /\ opened \in 0..Opens /\ consented \subseteq Profile

CommandsOK ==
  /\ at \in [Client -> Step \cup {None}]
  /\ on \in [Client -> Profile \cup {None}]
  /\ seen = [c \in Client |-> seen[c]]
  /\ \A c \in Client : at[c] = None <=> on[c] = None
  /\ \A c \in Client : at[c] = None => seen[c] = None
  /\ \A c \in Client : Fits(at[c], seen[c])
  /\ started \in [Client -> Nat] /\ \A c \in Client : started[c] \in 0..Commands[c]

StoreTyped ==
  /\ store \in [Profile -> [Key -> Entry \cup {None}]]
  /\ acked \subseteq Profile \X Key \X Value
  /\ noted \in [Profile -> [Key -> Notes]]

\* A path without an entry has no notes.
NotesGone == \A p \in Profile, k \in Key : ~Has(p, k) => noted[p][k] = None

EntriesOK == StoreTyped /\ AckedKept /\ NotesGone

\* A run that goes on with the tag of a production profile has a consent.
Granted ==
  \A c \in Client :
    at[c] \in {"group", "running"} /\ Tier[on[c]] = "prod" /\ seen[c] \notin {"blind", "dry"}
      => on[c] \in consented

\* The contents a migration has read: what is a placeholder was moved, and so
\* are the variables it has set.
FileOK ==
  /\ file \in Contents /\ kdbx \in Backups /\ moved \subseteq Var \cup {Placeholder}
  /\ \A f \in Var : file[f] \in {f, Placeholder}
  /\ FileKept
  /\ \A c \in Client : at[c] = "migrate" =>
       /\ \A f \in Var : seen[c][2][f] = f \/ (seen[c][2][f] = Placeholder /\ f \in moved)
       /\ \A i \in DOMAIN File : i < seen[c][1] => File[i] \in moved

IInv == SessionsOK /\ CommandsOK /\ EntriesOK /\ Granted /\ FileOK

-----------------------------------------------------------------------------
(* Entries.                                                                *)

LEMMA EntryThere ==
  ASSUME StoreTyped, NEW p \in Profile, NEW k \in Key, Has(p, k)
  PROVE  store[p][k] \in Entry
BY DEF StoreTyped, Has

\* What is put at a path has the other paths as they were.
LEMMA PutThere ==
  ASSUME StoreTyped, NEW p \in Profile, NEW k \in Key, NEW e \in Entry \cup {None}, Put(p, k, e)
  PROVE  /\ store' \in [Profile -> [Key -> Entry \cup {None}]]
         /\ store'[p][k] = e
         /\ \A q \in Profile, l \in Key : <<q, l>> # <<p, k>> => store'[q][l] = store[q][l]
BY DEF StoreTyped, Put

LEMMA SavedEntry ==
  ASSUME StoreTyped, NEW p \in Profile, NEW k \in Key, NEW v \in Value
  PROVE  /\ Saved(p, k, v) \in Entry
         /\ Saved(p, k, v).value = v
         /\ Has(p, k) => /\ Saved(p, k, v).notes = store[p][k].notes
                         /\ Saved(p, k, v).past
                              = store[p][k].past \cup {<<store[p][k].value, store[p][k].notes>>}
         /\ ~Has(p, k) => Saved(p, k, v).notes = None /\ Saved(p, k, v).past = {}
<1>1. CASE ~Has(p, k)
  BY <1>1 DEF Saved, Fresh, Entry, Notes
<1>2. CASE Has(p, k)
  <2> DEFINE e == store[p][k]
             ver == <<e.value, e.notes>>
  <2>1. e \in [value : Value, notes : Notes, past : SUBSET (Value \X Notes), gone : BOOLEAN]
    BY <1>2, EntryThere DEF Entry
  <2>2. e.past \cup {ver} \in SUBSET (Value \X Notes)
    BY <2>1
  <2>3. Saved(p, k, v) = [e EXCEPT !.past = e.past \cup {ver}, !.value = v, !.gone = FALSE]
    BY <1>2 DEF Saved
  <2>4. Saved(p, k, v) = [value |-> v, notes |-> e.notes, past |-> e.past \cup {ver}, gone |-> FALSE]
    BY <2>1, <2>3
  <2> HIDE DEF e
  <2>5. Saved(p, k, v) \in Entry BY <2>1, <2>2, <2>4 DEF Entry
  <2> USE DEF e
  <2> QED BY <1>2, <2>4, <2>5
<1> QED BY <1>1, <1>2

NotesOf(e) == IF e = None THEN None ELSE e.notes

\* An entry shows the acknowledged values of its path.
Shows(e, p, k, A) ==
  \A a \in A : a[1] = p /\ a[2] = k =>
    e # None /\ (a[3] = e.value \/ \E v \in e.past : v[1] = a[3])

LEMMA ShownBefore ==
  ASSUME EntriesOK, NEW p \in Profile, NEW k \in Key
  PROVE  /\ Shows(store[p][k], p, k, acked)
         /\ noted[p][k] = NotesOf(store[p][k])
BY DEF EntriesOK, AckedKept, NotesGone, NotesOf, Shows, Has

LEMMA KeptAfter ==
  ASSUME StoreTyped',
         \A p \in Profile, k \in Key :
           /\ Shows(store'[p][k], p, k, acked')
           /\ noted'[p][k] = NotesOf(store'[p][k])
  PROVE  EntriesOK'
<1>1. \A a \in acked' : a[1] \in Profile /\ a[2] \in Key BY DEF StoreTyped
<1>2. AckedKept'
  <2>1. ASSUME NEW a \in acked'
        PROVE  /\ store'[a[1]][a[2]] # None
               /\ \/ a[3] = store'[a[1]][a[2]].value
                  \/ \E v \in store'[a[1]][a[2]].past : v[1] = a[3]
    BY <1>1, <2>1 DEF Shows
  <2>2. \A p \in Profile, k \in Key : store'[p][k] # None => store'[p][k].notes = noted'[p][k]
    BY DEF NotesOf
  <2> QED BY <2>1, <2>2 DEF AckedKept, Has
<1>3. NotesGone' BY DEF NotesGone, NotesOf, Has
<1> QED BY <1>2, <1>3 DEF EntriesOK

\* An entry is put at one path: what was acknowledged of the others stays.
LEMMA PutKeeps ==
  ASSUME EntriesOK, NEW p \in Profile, NEW k \in Key, NEW e \in Entry \cup {None}, Put(p, k, e),
         acked' \subseteq Profile \X Key \X Value, noted' \in [Profile -> [Key -> Notes]],
         \A a \in acked' : a \in acked \/ (a[1] = p /\ a[2] = k),
         \A q \in Profile, l \in Key : <<q, l>> # <<p, k>> => noted'[q][l] = noted[q][l],
         Shows(e, p, k, acked'), noted'[p][k] = NotesOf(e)
  PROVE  EntriesOK'
<1>1. StoreTyped BY DEF EntriesOK
<1>2. /\ store' \in [Profile -> [Key -> Entry \cup {None}]]
      /\ store'[p][k] = e
      /\ \A q \in Profile, l \in Key : <<q, l>> # <<p, k>> => store'[q][l] = store[q][l]
  BY <1>1, PutThere
<1>3. StoreTyped' BY <1>2 DEF StoreTyped
<1>4. ASSUME NEW q \in Profile, NEW l \in Key
      PROVE  /\ Shows(store'[q][l], q, l, acked')
             /\ noted'[q][l] = NotesOf(store'[q][l])
  <2>1. CASE <<q, l>> = <<p, k>> BY <1>2, <2>1
  <2>2. CASE <<q, l>> # <<p, k>>
    <3>1. store'[q][l] = store[q][l] /\ noted'[q][l] = noted[q][l] BY <1>2, <2>2
    <3>2. \A a \in acked' : a[1] = q /\ a[2] = l => a \in acked BY <2>2
    <3>3. /\ Shows(store[q][l], q, l, acked)
          /\ noted[q][l] = NotesOf(store[q][l]) BY ShownBefore
    <3> QED BY <3>1, <3>2, <3>3 DEF Shows
  <2> QED BY <2>1, <2>2
<1> QED BY <1>3, <1>4, KeptAfter

LEMMA SaveKeeps ==
  ASSUME EntriesOK, NEW p \in Profile, NEW k \in Key, NEW v \in Value, SaveEntry(p, k, v),
         UNCHANGED noted
  PROVE  EntriesOK'
<1> DEFINE e == Saved(p, k, v)
<1>1. StoreTyped BY DEF EntriesOK
<1>2. /\ e \in Entry /\ e.value = v
      /\ Has(p, k) => /\ e.notes = store[p][k].notes
                      /\ e.past = store[p][k].past \cup {<<store[p][k].value, store[p][k].notes>>}
      /\ ~Has(p, k) => e.notes = None /\ e.past = {}
  BY <1>1, SavedEntry
<1>3. Put(p, k, e) /\ acked' = acked \cup {<<p, k, v>>} BY DEF SaveEntry
<1>4. /\ Shows(store[p][k], p, k, acked)
      /\ noted[p][k] = NotesOf(store[p][k])
  BY ShownBefore
<1>5. e # None BY <1>2, NamesAssumption
<1> HIDE DEF e
<1>6. Shows(e, p, k, acked')
  <2>1. ASSUME NEW a \in acked, a[1] = p, a[2] = k
        PROVE  a[3] = e.value \/ \E w \in e.past : w[1] = a[3]
    <3>1. /\ Has(p, k)
          /\ a[3] = store[p][k].value \/ \E w \in store[p][k].past : w[1] = a[3]
      BY <1>4, <2>1 DEF Shows, Has
    <3> DEFINE ver == <<store[p][k].value, store[p][k].notes>>
    <3>2. CASE a[3] = store[p][k].value
      <4>1. ver \in e.past /\ ver[1] = store[p][k].value BY <1>2, <3>1
      <4> QED BY <3>2, <4>1
    <3>3. CASE \E w \in store[p][k].past : w[1] = a[3] BY <1>2, <3>1, <3>3
    <3> QED BY <3>1, <3>2, <3>3
  <2> QED BY <1>2, <1>3, <1>5, <2>1 DEF Shows
<1>7. noted'[p][k] = NotesOf(e)
  BY <1>2, <1>4, <1>5 DEF NotesOf, Has
<1>8. /\ acked' \subseteq Profile \X Key \X Value /\ noted' \in [Profile -> [Key -> Notes]]
      /\ \A a \in acked' : a \in acked \/ (a[1] = p /\ a[2] = k)
  BY <1>1, <1>3 DEF StoreTyped
<1>9. e \in Entry \cup {None} /\ Put(p, k, e) BY <1>2, <1>3
<1>10. \A q \in Profile, l \in Key : <<q, l>> # <<p, k>> => noted'[q][l] = noted[q][l] OBVIOUS
<1> QED BY <1>6, <1>7, <1>8, <1>9, <1>10, PutKeeps

LEMMA LabelledKeeps ==
  ASSUME EntriesOK, NEW c \in Client, NEW p \in Profile, NEW k \in Key, Has(p, k), Labelled(c, p, k),
         UNCHANGED acked
  PROVE  EntriesOK'
<1> DEFINE e == store[p][k]
           f == [e EXCEPT !.notes = c]
<1>1. StoreTyped /\ e \in Entry BY EntryThere DEF EntriesOK
<1>2. Put(p, k, f) /\ noted' = [noted EXCEPT ![p][k] = c] BY DEF Labelled
<1>3. f \in Entry /\ f.value = e.value /\ f.past = e.past /\ f.notes = c
  BY <1>1 DEF Entry, Notes
<1>4. f # None BY <1>3, NamesAssumption
<1>5. Shows(e, p, k, acked) BY ShownBefore
<1> HIDE DEF f, e
<1>6. Shows(f, p, k, acked') BY <1>3, <1>4, <1>5 DEF Shows
<1>7. /\ acked' \subseteq Profile \X Key \X Value /\ noted' \in [Profile -> [Key -> Notes]]
      /\ \A a \in acked' : a \in acked \/ (a[1] = p /\ a[2] = k)
      /\ \A q \in Profile, l \in Key : <<q, l>> # <<p, k>> => noted'[q][l] = noted[q][l]
      /\ noted'[p][k] = NotesOf(f)
  BY <1>1, <1>2, <1>3, <1>4 DEF StoreTyped, Notes, NotesOf
<1> QED BY <1>2, <1>3, <1>6, <1>7, PutKeeps

\* Into the trash and out of it.
LEMMA MarkKeeps ==
  ASSUME EntriesOK, NEW p \in Profile, NEW k \in Key, Has(p, k), NEW b \in BOOLEAN,
         Put(p, k, [store[p][k] EXCEPT !.gone = b]), UNCHANGED <<acked, noted>>
  PROVE  EntriesOK'
<1> DEFINE e == store[p][k]
           f == [e EXCEPT !.gone = b]
<1>1. StoreTyped /\ e \in Entry BY EntryThere DEF EntriesOK
<1>2. Put(p, k, f) OBVIOUS
<1>3. f \in Entry /\ f.value = e.value /\ f.past = e.past /\ f.notes = e.notes
  BY <1>1 DEF Entry
<1>4. f # None /\ e # None BY <1>1, <1>3, NamesAssumption
<1>5. Shows(e, p, k, acked) /\ noted[p][k] = NotesOf(e) BY ShownBefore
<1> HIDE DEF f, e
<1>6. Shows(f, p, k, acked') BY <1>3, <1>4, <1>5 DEF Shows
<1>7. noted'[p][k] = NotesOf(f) BY <1>3, <1>4, <1>5 DEF NotesOf
<1>8. acked' \subseteq Profile \X Key \X Value /\ noted' \in [Profile -> [Key -> Notes]]
  BY <1>1 DEF StoreTyped
<1>9. \A q \in Profile, l \in Key : <<q, l>> # <<p, k>> => noted'[q][l] = noted[q][l] OBVIOUS
<1> QED BY <1>2, <1>3, <1>6, <1>7, <1>8, <1>9, PutKeeps

\* What a restore writes are entries without past and notes.
LEMMA ReplaceKeeps ==
  ASSUME EntriesOK, NEW p \in Profile, NEW m \in Backups, Replace(p, m)
  PROVE  EntriesOK'
<1> DEFINE In(k) == k \in DOMAIN m
<1>1. StoreTyped BY DEF EntriesOK
<1>2. \A k \in Key : In(k) => m[k] \in Value BY DEF Backups
<1>3. \A k \in Key : In(k) => /\ Fresh(m[k]) \in Entry /\ Fresh(m[k]).value = m[k]
                              /\ Fresh(m[k]).notes = None
  BY <1>2 DEF Fresh, Entry, Notes
<1>4. /\ store' = [store EXCEPT ![p] = [k \in Key |-> IF In(k) THEN Fresh(m[k]) ELSE store[p][k]]]
      /\ acked' = (acked \ Erased(p, DOMAIN m)) \cup {<<p, k, m[k]>> : k \in DOMAIN m}
      /\ noted' = [noted EXCEPT ![p] = [k \in Key |-> IF In(k) THEN None ELSE noted[p][k]]]
  BY <1>1 DEF Replace, StoreTyped
<1>5. DOMAIN m \subseteq Key BY DEF Backups
<1>6. StoreTyped'
  <2>1. store' \in [Profile -> [Key -> Entry \cup {None}]] BY <1>1, <1>3, <1>4 DEF StoreTyped
  <2>2. noted' \in [Profile -> [Key -> Notes]] BY <1>1, <1>4 DEF StoreTyped, Notes
  <2>3. acked' \subseteq Profile \X Key \X Value BY <1>1, <1>2, <1>4, <1>5 DEF StoreTyped
  <2> QED BY <2>1, <2>2, <2>3 DEF StoreTyped
<1>7. ASSUME NEW q \in Profile, NEW l \in Key
      PROVE  /\ Shows(store'[q][l], q, l, acked')
             /\ noted'[q][l] = NotesOf(store'[q][l])
  <2>1. CASE q = p /\ In(l)
    <3>1. store'[q][l] = Fresh(m[l]) /\ noted'[q][l] = None BY <1>1, <1>4, <2>1 DEF StoreTyped
    <3>2. Fresh(m[l]) # None BY <1>3, <2>1, NamesAssumption
    <3>3. ASSUME NEW a \in acked', a[1] = q, a[2] = l
          PROVE  a[3] = m[l]
      <4>1. a \notin Erased(p, DOMAIN m) => a \notin acked BY <2>1, <3>3 DEF Erased
      <4>2. a \in {<<p, k, m[k]>> : k \in DOMAIN m} BY <1>4, <4>1
      <4> QED BY <3>3, <4>2
    <3> QED BY <1>3, <2>1, <3>1, <3>2, <3>3 DEF Shows, NotesOf
  <2>2. CASE ~(q = p /\ In(l))
    <3>1. store'[q][l] = store[q][l] /\ noted'[q][l] = noted[q][l] BY <1>1, <1>4, <2>2 DEF StoreTyped
    <3>2. \A a \in acked' : a[1] = q /\ a[2] = l => a \in acked BY <1>4, <2>2
    <3>3. Shows(store[q][l], q, l, acked) /\ noted[q][l] = NotesOf(store[q][l]) BY ShownBefore
    <3> QED BY <3>1, <3>2, <3>3 DEF Shows
  <2> QED BY <2>1, <2>2
<1> QED BY <1>6, <1>7, KeptAfter

LEMMA ErasedKeeps ==
  ASSUME EntriesOK, NEW c \in Client, NEW p \in Profile, NEW k \in Key, DeletePermanently(c, p, k)
  PROVE  EntriesOK'
<1>1. StoreTyped BY DEF EntriesOK
<1>2. /\ Put(p, k, None) /\ acked' = acked \ Erased(p, {k})
      /\ noted' = [noted EXCEPT ![p][k] = None]
  BY DEF DeletePermanently
<1>3. /\ acked' \subseteq Profile \X Key \X Value /\ noted' \in [Profile -> [Key -> Notes]]
      /\ \A a \in acked' : a \in acked \/ (a[1] = p /\ a[2] = k)
      /\ \A q \in Profile, l \in Key : <<q, l>> # <<p, k>> => noted'[q][l] = noted[q][l]
      /\ noted'[p][k] = NotesOf(None)
  BY <1>1, <1>2 DEF StoreTyped, Notes, NotesOf
<1>4. Shows(None, p, k, acked') BY <1>2 DEF Shows, Erased
<1>5. None \in Entry \cup {None} /\ Put(p, k, None) BY <1>2
<1> QED BY <1>3, <1>4, <1>5, PutKeeps

\* A rollback saves a value of the past with the notes it had.
LEMMA RollbackKeeps ==
  ASSUME EntriesOK, NEW c \in Client, NEW p \in Profile, NEW k \in Key, Rollback(c, p, k)
  PROVE  EntriesOK'
<1>1. StoreTyped /\ Has(p, k) BY DEF EntriesOK, Rollback, Live
<1> DEFINE e == store[p][k]
<1>2. e \in Entry BY <1>1, EntryThere
<1>3. PICK v \in e.past : /\ Put(p, k, [Saved(p, k, v[1]) EXCEPT !.notes = v[2]])
                          /\ noted' = [noted EXCEPT ![p][k] = v[2]]
                          /\ UNCHANGED acked
  BY DEF Rollback
<1>4. v \in Value \X Notes BY <1>2, <1>3 DEF Entry
<1>5. v[1] \in Value /\ v[2] \in Notes BY <1>4
<1> DEFINE s == Saved(p, k, v[1])
           f == [s EXCEPT !.notes = v[2]]
<1>6. /\ s \in Entry /\ s.past = e.past \cup {<<e.value, e.notes>>}
  BY <1>1, <1>5, SavedEntry
<1> HIDE DEF s
<1>7. f \in Entry /\ f.past = s.past /\ f.notes = v[2] BY <1>5, <1>6 DEF Entry
<1>8. f # None BY <1>7, NamesAssumption
<1>9. Put(p, k, f) BY <1>3 DEF s
<1>10. Shows(e, p, k, acked) BY ShownBefore
<1> HIDE DEF f, e
<1>11. Shows(f, p, k, acked')
  <2>1. ASSUME NEW a \in acked, a[1] = p, a[2] = k
        PROVE  \E w \in f.past : w[1] = a[3]
    <3>1. a[3] = e.value \/ \E w \in e.past : w[1] = a[3] BY <1>10, <2>1 DEF Shows
    <3> DEFINE ver == <<e.value, e.notes>>
    <3>2. CASE a[3] = e.value
      <4>1. ver \in f.past /\ ver[1] = e.value BY <1>6, <1>7
      <4> QED BY <3>2, <4>1
    <3>3. CASE \E w \in e.past : w[1] = a[3] BY <1>6, <1>7, <3>3
    <3> QED BY <3>1, <3>2, <3>3
  <2> QED BY <1>3, <1>8, <2>1 DEF Shows
<1>12. /\ acked' \subseteq Profile \X Key \X Value /\ noted' \in [Profile -> [Key -> Notes]]
       /\ \A a \in acked' : a \in acked \/ (a[1] = p /\ a[2] = k)
       /\ \A q \in Profile, l \in Key : <<q, l>> # <<p, k>> => noted'[q][l] = noted[q][l]
       /\ noted'[p][k] = NotesOf(f)
  BY <1>1, <1>3, <1>5, <1>7, <1>8 DEF StoreTyped, NotesOf
<1> QED BY <1>7, <1>9, <1>11, <1>12, PutKeeps

\* What is carried from one path to another is shown by the entry itself.
LEMMA CarriedShown ==
  ASSUME EntriesOK, NEW p \in Profile, NEW k \in Key, NEW l \in Key, Has(p, k)
  PROVE  /\ Carried(p, k, l) \subseteq {p} \X {l} \X Value
         /\ Shows(store[p][k], p, l, Carried(p, k, l))
<1>1. Shows(store[p][k], p, k, acked) BY ShownBefore
<1>2. \A b \in Carried(p, k, l) : \E a \in acked : a[1] = p /\ a[2] = k /\ b = <<p, l, a[3]>>
  BY DEF Carried, Erased
<1>3. \A a \in acked : a[3] \in Value BY DEF EntriesOK, StoreTyped
<1>4. ASSUME NEW b \in Carried(p, k, l)
      PROVE  /\ b \in {p} \X {l} \X Value
             /\ store[p][k] # None
             /\ b[3] = store[p][k].value \/ \E v \in store[p][k].past : v[1] = b[3]
  <2>1. PICK a \in acked : a[1] = p /\ a[2] = k /\ b = <<p, l, a[3]>> BY <1>2
  <2>2. b[3] = a[3] BY <2>1
  <2> QED BY <1>1, <1>3, <2>1, <2>2 DEF Shows
<1> QED BY <1>4 DEF Shows

LEMMA CopyKeeps ==
  ASSUME EntriesOK, NEW c \in Client, NEW p \in Profile, NEW k \in Key, NEW l \in Key, Copy(c, p, k, l)
  PROVE  EntriesOK'
<1> DEFINE e == store[p][k]
<1>1. StoreTyped /\ Has(p, k) BY DEF EntriesOK, Copy, Live
<1>2. e \in Entry BY <1>1, EntryThere
<1>3. /\ Put(p, l, e)
      /\ acked' = (acked \ Erased(p, {l})) \cup Carried(p, k, l)
      /\ noted' = [noted EXCEPT ![p][l] = noted[p][k]]
  BY DEF Copy
<1>4. Carried(p, k, l) \subseteq {p} \X {l} \X Value /\ Shows(e, p, l, Carried(p, k, l))
  BY <1>1, CarriedShown
<1>5. noted[p][k] = NotesOf(e) BY ShownBefore
<1> HIDE DEF e
<1>6. Shows(e, p, l, acked') BY <1>3, <1>4 DEF Shows, Erased
<1>7. acked' \subseteq Profile \X Key \X Value BY <1>1, <1>3, <1>4 DEF StoreTyped
<1>8. \A a \in acked' : a \in acked \/ (a[1] = p /\ a[2] = l) BY <1>3, <1>4
<1>9. /\ noted' \in [Profile -> [Key -> Notes]]
      /\ \A q \in Profile, j \in Key : <<q, j>> # <<p, l>> => noted'[q][j] = noted[q][j]
      /\ noted'[p][l] = NotesOf(e)
  BY <1>1, <1>3, <1>5 DEF StoreTyped
<1>10. e \in Entry \cup {None} /\ Put(p, l, e) BY <1>2, <1>3
<1> QED BY <1>6, <1>7, <1>8, <1>9, <1>10, PutKeeps

LEMMA RenameKeeps ==
  ASSUME EntriesOK, NEW c \in Client, NEW p \in Profile, NEW k \in Key, NEW l \in Key, Rename(c, p, k, l)
  PROVE  EntriesOK'
<1> DEFINE e == store[p][k]
<1>1. StoreTyped /\ Has(p, k) /\ k # l BY DEF EntriesOK, Rename
<1>2. e \in Entry BY <1>1, EntryThere
<1>3. /\ store' = [store EXCEPT ![p][k] = None, ![p][l] = e]
      /\ acked' = (acked \ Erased(p, {k, l})) \cup Carried(p, k, l)
      /\ noted' = [noted EXCEPT ![p][k] = None, ![p][l] = noted[p][k]]
  BY DEF Rename
<1>4. Carried(p, k, l) \subseteq {p} \X {l} \X Value /\ Shows(e, p, l, Carried(p, k, l))
  BY <1>1, CarriedShown
<1>5. noted[p][k] = NotesOf(e) BY ShownBefore
<1> HIDE DEF e
<1>6. StoreTyped'
  <2>1. store' \in [Profile -> [Key -> Entry \cup {None}]] BY <1>1, <1>2, <1>3 DEF StoreTyped
  <2>2. noted' \in [Profile -> [Key -> Notes]] BY <1>1, <1>3 DEF StoreTyped, Notes
  <2>3. acked' \subseteq Profile \X Key \X Value BY <1>1, <1>3, <1>4 DEF StoreTyped
  <2> QED BY <2>1, <2>2, <2>3 DEF StoreTyped
<1>7. ASSUME NEW q \in Profile, NEW j \in Key
      PROVE  /\ Shows(store'[q][j], q, j, acked')
             /\ noted'[q][j] = NotesOf(store'[q][j])
  <2>1. CASE q = p /\ j = l
    <3>1. store'[q][j] = e /\ noted'[q][j] = noted[p][k] BY <1>1, <1>3, <2>1 DEF StoreTyped
    <3>2. \A a \in acked' : a[1] = q /\ a[2] = j => a \in Carried(p, k, l)
      BY <1>3, <2>1 DEF Erased
    <3> QED BY <1>4, <1>5, <2>1, <3>1, <3>2 DEF Shows
  <2>2. CASE q = p /\ j = k
    <3>1. store'[q][j] = None /\ noted'[q][j] = None BY <1>1, <1>3, <2>2 DEF StoreTyped
    <3>2. \A a \in acked' : ~(a[1] = q /\ a[2] = j)
      BY <1>1, <1>3, <1>4, <2>2 DEF Erased
    <3> QED BY <3>1, <3>2 DEF Shows, NotesOf
  <2>3. CASE ~(q = p /\ j \in {k, l})
    <3>1. store'[q][j] = store[q][j] /\ noted'[q][j] = noted[q][j] BY <1>1, <1>3, <2>3 DEF StoreTyped
    <3>2. \A a \in acked' : a[1] = q /\ a[2] = j => a \in acked BY <1>3, <1>4, <2>3
    <3>3. Shows(store[q][j], q, j, acked) /\ noted[q][j] = NotesOf(store[q][j]) BY ShownBefore
    <3> QED BY <3>1, <3>2, <3>3 DEF Shows
  <2> QED BY <2>1, <2>2, <2>3
<1> QED BY <1>6, <1>7, KeptAfter

-----------------------------------------------------------------------------
(* Sessions and commands.                                                  *)

\* A request that is answered, one that is not, or none.
Asks(c, p) == Query(c, p) \/ Refused(c, p) \/ UNCHANGED <<session, holds>>

LEMMA AskKeeps ==
  ASSUME SessionsOK, NEW c \in Client, NEW p \in Profile, Asks(c, p),
         UNCHANGED <<confirmed, opened, consented>>
  PROVE  SessionsOK'
<1>1. session' \in [Profile -> {"open", "locked"}]
      /\ \A q \in Profile : session[q] = "open" => session'[q] = "open"
  BY DEF SessionsOK, Asks, Query, Raw, Opened, Refused
<1>2. holds' \in [Client -> Profile \cup {None, "stale"}]
  BY DEF SessionsOK, Asks, Query, Raw, Opened, Refused
<1> QED BY <1>1, <1>2 DEF SessionsOK

LEMMA NoStep == None \notin Step /\ None \notin Profile /\ Fits(None, None)
BY NamesAssumption DEF Step, Fits

LEMMA StartedMore ==
  ASSUME started \in [Client -> Nat], \A d \in Client : started[d] \in 0..Commands[d],
         NEW c \in Client, started[c] < Commands[c],
         started' = [started EXCEPT ![c] = @ + 1]
  PROVE  started' \in [Client -> Nat] /\ \A d \in Client : started'[d] \in 0..Commands[d]
<1>1. Commands \in [Client -> Nat] BY ClientAssumption
<1>2. started' \in [Client -> Nat] OBVIOUS
<1>3. started'[c] = started[c] + 1 /\ \A d \in Client \ {c} : started'[d] = started[d] OBVIOUS
<1>4. ASSUME NEW d \in Client PROVE started'[d] \in 0..Commands[d]
  <2>1. Commands[d] \in Nat BY <1>1
  <2>2. started[d] \in Nat OBVIOUS
  <2>3. started[d] \in 0..Commands[d] OBVIOUS
  <2>4. CASE d = c BY <1>3, <2>1, <2>2, <2>3, <2>4
  <2>5. CASE d # c BY <1>3, <2>3, <2>5
  <2> QED BY <2>4, <2>5
<1> QED BY <1>2, <1>4

LEMMA WaitFits ==
  ASSUME CommandsOK, NEW c \in Client, NEW p \in Profile, NEW step \in Step, NEW data,
         Wait(c, p, step, data), Fits(step, data)
  PROVE  CommandsOK'
<1>1. /\ at' = [at EXCEPT ![c] = step] /\ on' = [on EXCEPT ![c] = p]
      /\ seen' = [seen EXCEPT ![c] = data] /\ started' = [started EXCEPT ![c] = @ + 1]
      /\ started[c] < Commands[c]
  BY DEF Wait
<1>2. /\ seen' = [d \in Client |-> seen'[d]]
      /\ seen'[c] = data /\ \A d \in Client \ {c} : seen'[d] = seen[d]
  BY <1>1 DEF CommandsOK
<1>3. /\ started' \in [Client -> Nat] /\ \A d \in Client : started'[d] \in 0..Commands[d]
  BY <1>1, StartedMore DEF CommandsOK
<1>4. /\ at' \in [Client -> Step \cup {None}] /\ on' \in [Client -> Profile \cup {None}]
      /\ at'[c] = step /\ \A d \in Client \ {c} : at'[d] = at[d] /\ on'[d] = on[d]
      /\ on'[c] = p
  BY <1>1 DEF CommandsOK
<1>5. ASSUME NEW d \in Client
      PROVE  /\ at'[d] = None <=> on'[d] = None
             /\ at'[d] = None => seen'[d] = None
             /\ Fits(at'[d], seen'[d])
  <2>1. CASE d = c BY <1>2, <1>4, <2>1, NoStep
  <2>2. CASE d # c BY <1>2, <1>4, <2>2 DEF CommandsOK
  <2> QED BY <2>1, <2>2
<1> QED BY <1>2, <1>3, <1>4, <1>5 DEF CommandsOK

LEMMA GoOnFits ==
  ASSUME CommandsOK, NEW c \in Client, at[c] # None, NEW step \in Step, NEW data,
         GoOn(c, step, data), Fits(step, data)
  PROVE  CommandsOK'
<1>1. /\ at' = [at EXCEPT ![c] = step] /\ seen' = [seen EXCEPT ![c] = data]
      /\ UNCHANGED <<on, started>>
  BY DEF GoOn
<1>2. /\ seen' = [d \in Client |-> seen'[d]]
      /\ seen'[c] = data /\ \A d \in Client \ {c} : seen'[d] = seen[d]
  BY <1>1 DEF CommandsOK
<1>3. /\ at' \in [Client -> Step \cup {None}]
      /\ at'[c] = step /\ \A d \in Client \ {c} : at'[d] = at[d]
  BY <1>1 DEF CommandsOK
<1>4. ASSUME NEW d \in Client
      PROVE  /\ at'[d] = None <=> on'[d] = None
             /\ at'[d] = None => seen'[d] = None
             /\ Fits(at'[d], seen'[d])
  <2>1. CASE d = c BY <1>1, <1>2, <1>3, <2>1, NoStep DEF CommandsOK
  <2>2. CASE d # c BY <1>1, <1>2, <1>3, <2>2 DEF CommandsOK
  <2> QED BY <2>1, <2>2
<1> QED BY <1>1, <1>2, <1>3, <1>4 DEF CommandsOK

LEMMA DoneFits ==
  ASSUME CommandsOK, NEW c \in Client, Done(c)
  PROVE  CommandsOK'
<1>1. /\ at' = [at EXCEPT ![c] = None] /\ on' = [on EXCEPT ![c] = None]
      /\ seen' = [seen EXCEPT ![c] = None] /\ UNCHANGED started
  BY DEF Done
<1>2. /\ seen' = [d \in Client |-> seen'[d]]
      /\ seen'[c] = None /\ \A d \in Client \ {c} : seen'[d] = seen[d]
  BY <1>1 DEF CommandsOK
<1>3. /\ at' \in [Client -> Step \cup {None}] /\ on' \in [Client -> Profile \cup {None}]
      /\ at'[c] = None /\ on'[c] = None
      /\ \A d \in Client \ {c} : at'[d] = at[d] /\ on'[d] = on[d]
  BY <1>1 DEF CommandsOK
<1>4. ASSUME NEW d \in Client
      PROVE  /\ at'[d] = None <=> on'[d] = None
             /\ at'[d] = None => seen'[d] = None
             /\ Fits(at'[d], seen'[d])
  <2>1. CASE d = c BY <1>2, <1>3, <2>1, NoStep
  <2>2. CASE d # c BY <1>2, <1>3, <2>2 DEF CommandsOK
  <2> QED BY <2>1, <2>2
<1> QED BY <1>1, <1>2, <1>3, <1>4 DEF CommandsOK

\* What other commands wait for, and what they wait with.
Alone(c) == \A d \in Client \ {c} : at'[d] = at[d] /\ on'[d] = on[d] /\ seen'[d] = seen[d]

LEMMA OthersWait ==
  ASSUME CommandsOK, NEW c \in Client
  PROVE  /\ \A p, step, data : Wait(c, p, step, data) =>
              Alone(c) /\ at'[c] = step /\ on'[c] = p /\ seen'[c] = data
         /\ \A step, data : GoOn(c, step, data) =>
              Alone(c) /\ at'[c] = step /\ on'[c] = on[c] /\ seen'[c] = data
         /\ Done(c) => Alone(c) /\ at'[c] = None
BY DEF CommandsOK, Wait, GoOn, Done, Alone

LEMMA AloneGranted ==
  ASSUME Granted, NEW c \in Client, Alone(c), consented \subseteq consented',
         at'[c] \in {"group", "running"} /\ Tier[on'[c]] = "prod" /\ seen'[c] \notin {"blind", "dry"}
           => on'[c] \in consented'
  PROVE  Granted'
BY DEF Granted, Alone

LEMMA AloneFile ==
  ASSUME FileOK, NEW c \in Client, Alone(c), UNCHANGED <<files, moved>>, at'[c] # "migrate"
  PROVE  FileOK'
BY DEF FileOK, FileKept, Alone, files

-----------------------------------------------------------------------------
(* Steps.                                                                  *)

LEMMA SameEntries ==
  ASSUME EntriesOK, UNCHANGED <<store, acked, noted>>
  PROVE  EntriesOK'
BY DEF EntriesOK, StoreTyped, AckedKept, NotesGone, Has

LEMMA OnProfile ==
  ASSUME CommandsOK, NEW c \in Client, at[c] # None
  PROVE  on[c] \in Profile /\ Fits(at[c], seen[c])
BY DEF CommandsOK

\* A command of one request.
LEMMA OnceStep ==
  ASSUME IInv, NEW c \in Client, NEW p \in Profile, Once(c, p), EntriesOK'
  PROVE  IInv'
<1>1. /\ Query(c, p) /\ started[c] < Commands[c]
      /\ started' = [started EXCEPT ![c] = @ + 1]
      /\ UNCHANGED <<confirmed, at, on, seen, files, opened, moved, consented>>
  BY DEF Once
<1>2. SessionsOK' BY <1>1, AskKeeps DEF IInv, Asks
<1>3. started' \in [Client -> Nat] /\ \A d \in Client : started'[d] \in 0..Commands[d]
  BY <1>1, StartedMore DEF IInv, CommandsOK
<1>4. CommandsOK' BY <1>1, <1>3 DEF IInv, CommandsOK
<1>5. Granted' BY <1>1 DEF IInv, Granted
<1>6. FileOK' BY <1>1 DEF IInv, FileOK, FileKept, files
<1> QED BY <1>2, <1>4, <1>5, <1>6 DEF IInv

\* A command asks one profile and waits for what it does with another.
LEMMA WaitStep ==
  ASSUME IInv, NEW c \in Client, NEW p \in Profile, NEW q \in Profile, NEW step \in Step, NEW data,
         step \notin {"group", "running", "migrate"}, Fits(step, data),
         Wait(c, p, step, data), Asks(c, q), UNCHANGED unread
  PROVE  IInv'
<1>1. UNCHANGED <<store, confirmed, acked, noted, moved, consented, opened, files>>
  BY DEF unread, historyVars, Wait
<1>2. SessionsOK' BY <1>1, AskKeeps DEF IInv
<1>3. CommandsOK' BY WaitFits DEF IInv
<1>4. EntriesOK' BY <1>1, SameEntries DEF IInv
<1>5. Alone(c) /\ at'[c] = step BY OthersWait DEF IInv
<1>6. Granted' BY <1>1, <1>5, AloneGranted DEF IInv
<1>7. FileOK' BY <1>1, <1>5, AloneFile DEF IInv
<1> QED BY <1>2, <1>3, <1>4, <1>6, <1>7 DEF IInv

\* A command ends, or fails.
LEMMA DoneStep ==
  ASSUME IInv, NEW c \in Client, at[c] # None, Done(c), Asks(c, on[c]),
         UNCHANGED <<confirmed, files, moved, consented>>, EntriesOK'
  PROVE  IInv'
<1>1. UNCHANGED opened BY DEF Done
<1>2. SessionsOK' BY <1>1, AskKeeps, OnProfile DEF IInv
<1>3. CommandsOK' BY DoneFits DEF IInv
<1>4. Alone(c) /\ at'[c] = None BY OthersWait DEF IInv
<1>5. at'[c] \notin {"group", "running", "migrate"} BY <1>4, NoStep DEF Step
<1>6. Granted' BY <1>4, <1>5, AloneGranted DEF IInv
<1>7. FileOK' BY <1>4, <1>5, AloneFile DEF IInv
<1> QED BY <1>2, <1>3, <1>6, <1>7 DEF IInv

\* A command goes on to another of its requests.
LEMMA GoOnStep ==
  ASSUME IInv, NEW c \in Client, at[c] # None, NEW step \in Step, NEW data,
         step \notin {"group", "running", "migrate"}, Fits(step, data),
         GoOn(c, step, data), Asks(c, on[c]),
         UNCHANGED <<confirmed, files, moved, consented>>, EntriesOK'
  PROVE  IInv'
<1>1. UNCHANGED opened BY DEF GoOn
<1>2. SessionsOK' BY <1>1, AskKeeps, OnProfile DEF IInv
<1>3. CommandsOK' BY GoOnFits DEF IInv
<1>4. Alone(c) /\ at'[c] = step BY OthersWait DEF IInv
<1>5. Granted' BY <1>4, AloneGranted DEF IInv
<1>6. FileOK' BY <1>4, AloneFile DEF IInv
<1> QED BY <1>2, <1>3, <1>5, <1>6 DEF IInv

LEMMA ReadsKeep ==
  ASSUME IInv, NEW c \in Client, NEW p \in Profile, Look(c, p)
  PROVE  IInv'
BY OnceStep, SameEntries DEF IInv, Look

\* The requests that change one entry.
LEMMA EntryCommandsKeep ==
  ASSUME IInv, NEW c \in Client, NEW p \in Profile, NEW k \in Key, NEW l \in Key,
         \/ Set(c, p, k) \/ Delete(c, p, k) \/ DeletePermanently(c, p, k)
         \/ RestoreDeleted(c, p, k) \/ Rollback(c, p, k) \/ Relabel(c, p, k)
         \/ Rename(c, p, k, l) \/ Copy(c, p, k, l)
  PROVE  IInv'
<1>1. EntriesOK BY DEF IInv
<1>2. CASE Set(c, p, k)
  <2>1. c \in Value BY DEF Value
  <2>2. EntriesOK' BY <1>1, <1>2, <2>1, SaveKeeps DEF Set
  <2> QED BY <1>2, <2>2, OnceStep DEF Set
<1>3. CASE Delete(c, p, k)
  <2>1. EntriesOK' BY <1>1, <1>3, MarkKeeps DEF Delete
  <2> QED BY <1>3, <2>1, OnceStep DEF Delete
<1>4. CASE DeletePermanently(c, p, k)
  <2>1. EntriesOK' BY <1>1, <1>4, ErasedKeeps
  <2> QED BY <1>4, <2>1, OnceStep DEF DeletePermanently
<1>5. CASE RestoreDeleted(c, p, k)
  <2>1. EntriesOK' BY <1>1, <1>5, MarkKeeps DEF RestoreDeleted
  <2> QED BY <1>5, <2>1, OnceStep DEF RestoreDeleted
<1>6. CASE Rollback(c, p, k)
  <2>1. EntriesOK' BY <1>1, <1>6, RollbackKeeps
  <2> QED BY <1>6, <2>1, OnceStep DEF Rollback
<1>7. CASE Relabel(c, p, k)
  <2>1. EntriesOK' BY <1>1, <1>7, LabelledKeeps DEF Relabel, Live
  <2> QED BY <1>7, <2>1, OnceStep DEF Relabel
<1>8. CASE Rename(c, p, k, l)
  <2>1. EntriesOK' BY <1>1, <1>8, RenameKeeps
  <2> QED BY <1>8, <2>1, OnceStep DEF Rename
<1>9. CASE Copy(c, p, k, l)
  <2>1. EntriesOK' BY <1>1, <1>9, CopyKeeps
  <2> QED BY <1>9, <2>1, OnceStep DEF Copy
<1> QED BY <1>2, <1>3, <1>4, <1>5, <1>6, <1>7, <1>8, <1>9

LEMMA LiveEntry ==
  ASSUME IInv, NEW p \in Profile, NEW k \in Key, Live(p, k)
  PROVE  Has(p, k) /\ store[p][k] \in Entry /\ store[p][k].value \in Value
<1>1. Has(p, k) /\ store[p][k] \in Entry BY EntryThere DEF IInv, EntriesOK, Live
<1> QED BY <1>1 DEF Entry

LEMMA AbsentBackup ==
  ASSUME IInv, NEW p \in Profile
  PROVE  Absent(p) \in Backups /\ kdbx \in Backups
<1>1. kdbx \in Backups BY DEF IInv, FileOK
<1>2. DOMAIN kdbx \subseteq Key /\ \A k \in DOMAIN kdbx : kdbx[k] \in Value BY <1>1 DEF Backups
<1> DEFINE K == {k \in DOMAIN kdbx : ~Live(p, k)}
<1>3. K \in SUBSET Key /\ Absent(p) \in [K -> Value] BY <1>2 DEF Absent
<1> QED BY <1>1, <1>3 DEF Backups

\* A backup and a lease are restored and revoked in one request.
LEMMA RestoreKeeps ==
  ASSUME IInv, NEW c \in Client, NEW p \in Profile, Restore(c, p) \/ Revoke(c, p)
  PROVE  IInv'
<1>1. CASE Restore(c, p)
  <2>1. EntriesOK' BY <1>1, AbsentBackup, ReplaceKeeps DEF IInv, Restore
  <2> QED BY <1>1, <2>1, OnceStep DEF Restore
<1>2. CASE Revoke(c, p)
  <2>1. LeaseKey \in Key BY ClientAssumption
  <2>2. EntriesOK' BY <1>2, <2>1, MarkKeeps DEF IInv, Revoke
  <2> QED BY <1>2, <2>2, OnceStep DEF Revoke
<1> QED BY <1>1, <1>2

\* The commands that start by reading an entry.
LEMMA EntryReadersKeep ==
  ASSUME IInv, NEW c \in Client, NEW p \in Profile, NEW q \in Profile, NEW k \in Key,
         \/ EditNotes(c, p, k) \/ CopyFrom(c, p, q, k) \/ Lease(c, p, k) \/ Rotate(c, p, k)
  PROVE  IInv'
<1>1. Live(p, k) /\ Query(c, p) /\ UNCHANGED unread
  BY DEF EditNotes, CopyFrom, Lease, Rotate
<1>2. Asks(c, p) BY <1>1 DEF Asks
<1>3. store[p][k] \in Entry /\ store[p][k].value \in Value BY <1>1, LiveEntry
<1>4. LeaseKey \in Key BY ClientAssumption
<1>5. CASE EditNotes(c, p, k)
  <2>1. Fits("edit", <<k, store[p][k]>>) BY <1>3 DEF Fits
  <2> QED BY <1>1, <1>2, <1>5, <2>1, WaitStep DEF EditNotes, Step
<1>6. CASE CopyFrom(c, p, q, k)
  <2>1. Fits("copy", <<k, store[p][k].value>>) BY <1>3 DEF Fits
  <2> QED BY <1>1, <1>2, <1>6, <2>1, WaitStep DEF CopyFrom, Step
<1>7. CASE Lease(c, p, k)
  <2>1. Fits("copy", <<LeaseKey, store[p][k].value>>) BY <1>3, <1>4 DEF Fits
  <2> QED BY <1>1, <1>2, <1>7, <2>1, WaitStep DEF Lease, Step
<1>8. CASE Rotate(c, p, k)
  <2>1. Fits("rotate", <<k>>) BY DEF Fits
  <2> QED BY <1>1, <1>2, <1>8, <2>1, WaitStep DEF Rotate, Step
<1> QED BY <1>5, <1>6, <1>7, <1>8

\* The commands that start by reading a store, or a file.
LEMMA StoreReadersKeep ==
  ASSUME IInv, NEW c \in Client, NEW p \in Profile, NEW q \in Profile,
         Diff(c, p, q) \/ BackupFrom(c, p) \/ Import(c, p) \/ Merge(c, p)
  PROVE  IInv'
<1>1. CASE Diff(c, p, q)
  <2>1. Asks(c, p) /\ Wait(c, q, "diff", None) /\ UNCHANGED unread BY <1>1 DEF Diff, Asks
  <2>2. Fits("diff", None) BY DEF Fits
  <2> QED BY <2>1, <2>2, WaitStep DEF Step
<1>2. CASE BackupFrom(c, p)
  <2> DEFINE live == {k \in Key : Live(p, k)}
             m == [k \in live |-> store[p][k].value]
  <2>1. Asks(c, p) /\ Wait(c, p, "backup", m) /\ UNCHANGED unread BY <1>2 DEF BackupFrom, Asks
  <2>2. m \in [live -> Value] BY LiveEntry
  <2>3. m \in Backups BY <2>2 DEF Backups
  <2> HIDE DEF m
  <2>4. Fits("backup", m) BY <2>3 DEF Fits
  <2> QED BY <2>1, <2>4, WaitStep DEF Step
<1>3. CASE Import(c, p)
  <2>1. Asks(c, p) /\ Wait(c, p, "import", Backup) /\ UNCHANGED unread BY <1>3 DEF Import, Asks
  <2>2. Fits("import", Backup) BY ClientAssumption DEF Fits
  <2> QED BY <2>1, <2>2, WaitStep DEF Step
<1>4. CASE Merge(c, p)
  <2>1. Asks(c, p) /\ UNCHANGED unread BY <1>4 DEF Merge, Asks
  <2>2. PICK m \in {Absent(p), kdbx} : Wait(c, p, "merge", m) BY <1>4 DEF Merge
  <2>3. Fits("merge", m) BY AbsentBackup DEF Fits
  <2> QED BY <2>1, <2>2, <2>3, WaitStep DEF Step
<1> QED BY <1>1, <1>2, <1>3, <1>4

-----------------------------------------------------------------------------
(* Steps of a command that waits.                                          *)

\* The ends that write nothing.
LEMMA EndsKeep ==
  ASSUME IInv, NEW c \in Client, Fails(c) \/ DiffSecond(c) \/ RunEnds(c) \/ Kill(c)
  PROVE  IInv'
<1>1. /\ Done(c) /\ Asks(c, on[c])
      /\ UNCHANGED <<store, acked, noted, confirmed, files, moved, consented>>
  BY DEF Fails, DiffSecond, RunEnds, Kill, Asks, unread, historyVars
<1>2. at[c] # None BY NoStep DEF Fails, DiffSecond, RunEnds, Kill, Step
<1>3. EntriesOK' BY <1>1, SameEntries DEF IInv
<1> QED BY <1>1, <1>2, <1>3, DoneStep

LEMMA EditedKeeps ==
  ASSUME IInv, NEW c \in Client, EditedNotes(c)
  PROVE  IInv'
<1> DEFINE k == seen[c][1]
<1>1. /\ at[c] = "edit" /\ Asks(c, on[c]) /\ Done(c)
      /\ IF Live(on[c], k) THEN Labelled(c, on[c], k) ELSE UNCHANGED <<store, noted>>
      /\ UNCHANGED <<confirmed, files, acked, moved, consented>>
  BY DEF EditedNotes, Asks
<1>2. at[c] # None BY <1>1, NoStep DEF Step
<1>3. on[c] \in Profile /\ k \in Key BY <1>1, <1>2, OnProfile DEF IInv, Fits
<1>4. EntriesOK'
  <2>1. CASE Live(on[c], k) BY <1>1, <1>3, <2>1, LabelledKeeps DEF IInv, Live
  <2>2. CASE ~Live(on[c], k) BY <1>1, <2>2, SameEntries DEF IInv
  <2> QED BY <2>1, <2>2
<1> QED BY <1>1, <1>2, <1>4, DoneStep

LEMMA CopiedKeeps ==
  ASSUME IInv, NEW c \in Client, CopyTo(c)
  PROVE  IInv'
<1>1. /\ at[c] = "copy" /\ Asks(c, on[c]) /\ Done(c)
      /\ SaveEntry(on[c], seen[c][1], seen[c][2])
      /\ UNCHANGED <<confirmed, files, noted, moved, consented>>
  BY DEF CopyTo, Asks
<1>2. at[c] # None BY <1>1, NoStep DEF Step
<1>3. on[c] \in Profile /\ seen[c][1] \in Key /\ seen[c][2] \in Value
  BY <1>1, <1>2, OnProfile DEF IInv, Fits
<1>4. EntriesOK' BY <1>1, <1>3, SaveKeeps DEF IInv
<1> QED BY <1>1, <1>2, <1>4, DoneStep

LEMMA RotatingKeeps ==
  ASSUME IInv, NEW c \in Client, RotateEnv(c) \/ Rotated(c)
  PROVE  IInv'
<1>1. at[c] \in {"rotate", "hook"} /\ at[c] # None
  BY NoStep DEF RotateEnv, Rotated, Step
<1>2. on[c] \in Profile /\ \E k \in Key : seen[c] = <<k>>
  BY <1>1, OnProfile DEF IInv, Fits
<1>3. seen[c][1] \in Key BY <1>2
<1>4. CASE RotateEnv(c)
  <2>1. /\ GoOn(c, "hook", seen[c]) /\ Asks(c, on[c])
        /\ UNCHANGED <<store, acked, noted, confirmed, files, moved, consented>>
    BY <1>4 DEF RotateEnv, Asks, unread, historyVars
  <2>2. EntriesOK' BY <2>1, SameEntries DEF IInv
  <2>3. Fits("hook", seen[c]) BY <1>2 DEF Fits
  <2> QED BY <1>1, <2>1, <2>2, <2>3, GoOnStep DEF Step
<1>5. CASE Rotated(c)
  <2>1. /\ Done(c) /\ Asks(c, on[c])
        /\ SaveEntry(on[c], seen[c][1], c) \/ UNCHANGED <<store, acked>>
        /\ UNCHANGED <<confirmed, files, noted, moved, consented>>
    BY <1>5 DEF Rotated, Asks
  <2>2. c \in Value BY DEF Value
  <2>3. CASE SaveEntry(on[c], seen[c][1], c)
    <3>1. EntriesOK' BY <1>2, <1>3, <2>1, <2>2, <2>3, SaveKeeps DEF IInv
    <3> QED BY <1>1, <2>1, <3>1, DoneStep
  <2>4. CASE UNCHANGED <<store, acked>>
    <3>1. EntriesOK' BY <2>1, <2>4, SameEntries DEF IInv
    <3> QED BY <1>1, <2>1, <3>1, DoneStep
  <2> QED BY <2>1, <2>3, <2>4
<1> QED BY <1>4, <1>5

LEMMA ImportingKeeps ==
  ASSUME IInv, NEW c \in Client, ImportOne(c)
  PROVE  IInv'
<1>1. at[c] = "import" /\ at[c] # None BY NoStep DEF ImportOne, Step
<1>2. on[c] \in Profile /\ seen[c] \in SUBSET Key BY <1>1, OnProfile DEF IInv, Fits
<1>3. PICK k \in seen[c] :
        /\ Asks(c, on[c])
        /\ SaveEntry(on[c], k, Kdbx) \/ UNCHANGED <<store, acked>>
        /\ Done(c) \/ GoOn(c, "import", seen[c] \ {k})
        /\ UNCHANGED <<confirmed, files, noted, moved, consented>>
  BY DEF ImportOne, Asks
<1>4. EntriesOK'
  <2>1. Kdbx \in Value /\ k \in Key BY <1>2, <1>3 DEF Value
  <2>2. CASE SaveEntry(on[c], k, Kdbx) BY <1>2, <1>3, <2>1, <2>2, SaveKeeps DEF IInv
  <2>3. CASE UNCHANGED <<store, acked>> BY <1>3, <2>3, SameEntries DEF IInv
  <2> QED BY <1>3, <2>2, <2>3
<1>5. Fits("import", seen[c] \ {k}) BY <1>2 DEF Fits
<1>6. CASE Done(c) BY <1>1, <1>3, <1>4, <1>6, DoneStep
<1>7. CASE GoOn(c, "import", seen[c] \ {k}) BY <1>1, <1>3, <1>4, <1>5, <1>7, GoOnStep DEF Step
<1> QED BY <1>3, <1>6, <1>7

LEMMA MergedKeeps ==
  ASSUME IInv, NEW c \in Client, Merged(c)
  PROVE  IInv'
<1>1. at[c] = "merge" /\ at[c] # None BY NoStep DEF Merged, Step
<1>2. on[c] \in Profile /\ seen[c] \in Backups BY <1>1, OnProfile DEF IInv, Fits
<1>3. /\ Done(c) /\ Asks(c, on[c])
      /\ Replace(on[c], seen[c]) \/ UNCHANGED <<store, acked, noted>>
      /\ UNCHANGED <<confirmed, files, moved, consented>>
  BY DEF Merged, Asks
<1>4. EntriesOK'
  <2>1. CASE Replace(on[c], seen[c]) BY <1>2, <2>1, ReplaceKeeps DEF IInv
  <2>2. CASE UNCHANGED <<store, acked, noted>> BY <2>2, SameEntries DEF IInv
  <2> QED BY <1>3, <2>1, <2>2
<1> QED BY <1>1, <1>3, <1>4, DoneStep

LEMMA BackedUpKeeps ==
  ASSUME IInv, NEW c \in Client, BackupTo(c)
  PROVE  IInv'
<1>1. at[c] = "backup" /\ at[c] # None BY NoStep DEF BackupTo, Step
<1>2. seen[c] \in Backups BY <1>1, OnProfile DEF IInv, Fits
<1>3. /\ Done(c) /\ kdbx' = seen[c]
      /\ UNCHANGED <<session, holds, store, acked, noted, confirmed, file, moved, consented, opened>>
  BY DEF BackupTo, unread, historyVars, Done
<1>4. SessionsOK' /\ EntriesOK'
  <2>1. SessionsOK' BY <1>3 DEF IInv, SessionsOK
  <2> QED BY <1>3, <2>1, SameEntries DEF IInv
<1>5. CommandsOK' BY <1>3, DoneFits DEF IInv
<1>6. Alone(c) /\ at'[c] = None BY <1>3, OthersWait DEF IInv
<1>7. at'[c] \notin {"group", "running", "migrate"} BY <1>6, NoStep DEF Step
<1>8. Granted' BY <1>3, <1>6, <1>7, AloneGranted DEF IInv
<1>9. FileOK' BY <1>2, <1>3, <1>6, <1>7 DEF IInv, FileOK, FileKept, Alone
<1> QED BY <1>4, <1>5, <1>8, <1>9 DEF IInv

-----------------------------------------------------------------------------
(* The migration.                                                          *)

LEMMA MigrateKeeps ==
  ASSUME IInv, NEW c \in Client, NEW p \in Profile, Migrate(c, p)
  PROVE  IInv'
<1>1. /\ Wait(c, p, "migrate", <<1, file>>)
      /\ UNCHANGED <<session, holds, store, acked, noted, confirmed, files, moved, consented, opened>>
  BY DEF Migrate, unread, historyVars, Wait
<1>2. SessionsOK' BY <1>1 DEF IInv, SessionsOK
<1>3. EntriesOK' BY <1>1, SameEntries DEF IInv
<1>4. file \in Contents BY DEF IInv, FileOK
<1>5. Fits("migrate", <<1, file>>) BY <1>4 DEF Fits
<1>6. CommandsOK' BY <1>1, <1>5, WaitFits DEF IInv, Step
<1>7. Alone(c) /\ at'[c] = "migrate" /\ seen'[c] = <<1, file>> BY <1>1, OthersWait DEF IInv
<1>8. Granted' BY <1>1, <1>7, AloneGranted DEF IInv
<1>9. FileOK'
  <2>1. UNCHANGED <<file, kdbx, moved>> BY <1>1 DEF files
  <2>2. seen'[c][1] = 1 /\ seen'[c][2] = file BY <1>7
  <2>3. \A f \in Var : file[f] = f \/ (file[f] = Placeholder /\ f \in moved)
    BY DEF IInv, FileOK, FileKept
  <2>4. DOMAIN File \subseteq Nat \ {0} BY ClientAssumption
  <2>5. \A i \in DOMAIN File : ~(i < 1) BY <2>4
  <2>6. ASSUME NEW d \in Client, at'[d] = "migrate"
        PROVE  /\ \A f \in Var : seen'[d][2][f] = f \/ (seen'[d][2][f] = Placeholder /\ f \in moved')
               /\ \A i \in DOMAIN File : i < seen'[d][1] => File[i] \in moved'
    <3>1. CASE d = c BY <2>1, <2>2, <2>3, <2>5, <3>1
    <3>2. CASE d # c BY <1>7, <2>1, <2>6, <3>2 DEF IInv, FileOK, Alone
    <3> QED BY <3>1, <3>2
  <2> QED BY <2>1, <2>6 DEF IInv, FileOK, FileKept
<1> QED BY <1>2, <1>3, <1>6, <1>8, <1>9 DEF IInv

\* The variable that was set is moved, and so are those before it.
LEMMA MigratedKeeps ==
  ASSUME IInv, NEW c \in Client, MigrateOne(c)
  PROVE  IInv'
<1> DEFINE i == seen[c][1]
           f == File[i]
           v == seen[c][2][f]
<1>1. /\ at[c] = "migrate" /\ i <= Len(File)
      /\ Query(c, on[c]) /\ SaveEntry(on[c], Path[f], v)
      /\ moved' = moved \cup {v}
      /\ GoOn(c, "migrate", <<i + 1, seen[c][2]>>)
      /\ UNCHANGED <<confirmed, files, noted, consented>>
  BY DEF MigrateOne
<1>2. at[c] # None BY <1>1, NoStep DEF Step
<1>3. on[c] \in Profile /\ seen[c] \in (Nat \ {0}) \X Contents
  BY <1>1, <1>2, OnProfile DEF IInv, Fits
<1>4. i \in DOMAIN File /\ f \in Var
  <2>1. File \in Seq(Var) BY ClientAssumption
  <2>2. i \in Nat \ {0} BY <1>3
  <2>3. i \in DOMAIN File BY <1>1, <2>1, <2>2
  <2> QED BY <2>3 DEF Var
<1>5. v \in Var \cup {Placeholder} BY <1>3, <1>4 DEF Contents
<1>6. v = f \/ f \in moved BY <1>1, <1>4 DEF IInv, FileOK
<1> HIDE DEF f, v
<1>7. Path[f] \in Key BY <1>4, ClientAssumption
<1>8. EntriesOK'
  <2>1. v \in Value BY <1>5 DEF Value
  <2> QED BY <1>1, <1>3, <1>7, <2>1, SaveKeeps DEF IInv
<1>9. SessionsOK'
  <2>1. UNCHANGED opened BY <1>1 DEF GoOn
  <2>2. Asks(c, on[c]) BY <1>1 DEF Asks
  <2> QED BY <1>1, <1>3, <2>1, <2>2, AskKeeps DEF IInv
<1>10. CommandsOK'
  <2>1. <<i + 1, seen[c][2]>> \in (Nat \ {0}) \X Contents BY <1>3
  <2>2. Fits("migrate", <<i + 1, seen[c][2]>>) BY <2>1 DEF Fits
  <2> QED BY <1>1, <1>2, <2>2, GoOnFits DEF IInv, Step
<1>11. Alone(c) /\ at'[c] = "migrate" /\ seen'[c] = <<i + 1, seen[c][2]>>
  BY <1>1, OthersWait DEF IInv
<1>12. Granted' BY <1>1, <1>11, AloneGranted DEF IInv
<1>13. FileOK'
  <2>1. moved' \subseteq Var \cup {Placeholder} /\ moved \subseteq moved'
    BY <1>1, <1>5 DEF IInv, FileOK
  <2>2. f \in moved' BY <1>1, <1>6
  <2>3. UNCHANGED <<file, kdbx>> BY <1>1 DEF files
  <2>4. FileKept' BY <2>1, <2>3 DEF IInv, FileOK, FileKept
  <2>5. ASSUME NEW d \in Client, at'[d] = "migrate"
        PROVE  /\ \A g \in Var : seen'[d][2][g] = g \/ (seen'[d][2][g] = Placeholder /\ g \in moved')
               /\ \A j \in DOMAIN File : j < seen'[d][1] => File[j] \in moved'
    <3>1. CASE d = c
      <4>1. seen'[c][2] = seen[c][2] /\ seen'[c][1] = i + 1 BY <1>11
      <4>2. \A g \in Var : seen[c][2][g] = g \/ (seen[c][2][g] = Placeholder /\ g \in moved)
        BY <1>1 DEF IInv, FileOK
      <4>3. ASSUME NEW j \in DOMAIN File, j < i + 1 PROVE File[j] \in moved'
        <5>1. j \in Nat /\ i \in Nat BY <1>3, ClientAssumption
        <5>2. j < i \/ j = i BY <4>3, <5>1
        <5>3. CASE j < i
          <6>1. File[j] \in moved BY <1>1, <5>3 DEF IInv, FileOK
          <6> QED BY <2>1, <6>1
        <5>4. CASE j = i BY <2>2, <5>4 DEF f
        <5> QED BY <5>2, <5>3, <5>4
      <4> QED BY <2>1, <3>1, <4>1, <4>2, <4>3
    <3>2. CASE d # c
      <4>1. at[d] = "migrate" /\ seen'[d] = seen[d] BY <1>11, <2>5, <3>2 DEF Alone
      <4>2. /\ \A g \in Var : seen[d][2][g] = g \/ (seen[d][2][g] = Placeholder /\ g \in moved)
            /\ \A j \in DOMAIN File : j < seen[d][1] => File[j] \in moved
        BY <4>1 DEF IInv, FileOK
      <4> QED BY <2>1, <4>1, <4>2
    <3> QED BY <3>1, <3>2
  <2> QED BY <2>1, <2>3, <2>4, <2>5 DEF IInv, FileOK
<1> QED BY <1>8, <1>9, <1>10, <1>12, <1>13 DEF IInv

\* All variables were set when the file becomes one of placeholders.
LEMMA SanitizeKeeps ==
  ASSUME IInv, NEW c \in Client, Sanitize(c)
  PROVE  IInv'
<1>1. /\ at[c] = "migrate" /\ seen[c][1] > Len(File) /\ Done(c)
      /\ file' = [f \in Var |-> Placeholder]
      /\ UNCHANGED <<session, holds, store, acked, noted, confirmed, kdbx, moved, consented, opened>>
  BY DEF Sanitize, unread, historyVars, Done
<1>2. at[c] # None BY <1>1, NoStep DEF Step
<1>3. seen[c] \in (Nat \ {0}) \X Contents BY <1>1, <1>2, OnProfile DEF IInv, Fits
<1>4. \A f \in Var : f \in moved
  <2>1. File \in Seq(Var) /\ seen[c][1] \in Nat BY <1>3, ClientAssumption
  <2>2. \A i \in DOMAIN File : i < seen[c][1] BY <1>1, <2>1
  <2>3. \A i \in DOMAIN File : File[i] \in moved BY <1>1, <2>2 DEF IInv, FileOK
  <2> QED BY <2>3 DEF Var
<1>5. SessionsOK' BY <1>1 DEF IInv, SessionsOK
<1>6. EntriesOK' BY <1>1, SameEntries DEF IInv
<1>7. CommandsOK' BY <1>1, DoneFits DEF IInv
<1>8. Alone(c) /\ at'[c] = None BY <1>1, OthersWait DEF IInv
<1>9. at'[c] \notin {"group", "running", "migrate"} BY <1>8, NoStep DEF Step
<1>10. Granted' BY <1>1, <1>8, <1>9, AloneGranted DEF IInv
<1>11. FileOK' BY <1>1, <1>4, <1>8, <1>9 DEF IInv, FileOK, FileKept, Alone, Contents
<1> QED BY <1>5, <1>6, <1>7, <1>10, <1>11 DEF IInv

-----------------------------------------------------------------------------
(* run, and the sessions.                                                  *)

LEMMA ConfirmKeeps ==
  ASSUME SessionsOK, NEW c \in Client, NEW p \in Profile, Confirm(c, p),
         UNCHANGED <<session, holds, opened>>
  PROVE  SessionsOK' /\ consented \subseteq consented' /\ p \in consented'
<1>1. /\ consented' = consented \cup {p}
      /\ confirmed' = IF Accepts(c, p) THEN [confirmed EXCEPT ![p] = TRUE] ELSE confirmed
  BY DEF Confirm
<1>2. Accepts(c, p) => session[p] = "open" BY DEF Accepts
<1> QED BY <1>1, <1>2 DEF SessionsOK

\* The guard goes on with a tag it has read, or without one, or not at all.
LEMMA RunKeeps ==
  ASSUME IInv, NEW c \in Client, NEW p \in Profile, Run(c, p)
  PROVE  IInv'
<1>1. UNCHANGED <<session, holds, store, acked, noted>> BY DEF Run
<1>2. EntriesOK' BY <1>1, SameEntries DEF IInv
<1>3. PICK step \in {"group", "ping"}, data \in Ground :
        /\ Wait(c, p, step, data)
        /\ UNCHANGED <<confirmed, consented>> \/ Confirm(c, p)
        /\ step = "group" /\ data = "told" /\ Tier[p] = "prod" => Confirm(c, p)
  <2>1. CASE ~Production(c, p)
    <3>1. Accepts(c, p) => Tier[p] # "prod" BY <2>1 DEF Production
    <3> QED BY <2>1, <3>1 DEF Run, Ground
  <2>2. CASE Production(c, p) BY <2>2 DEF Run, Ground
  <2> QED BY <2>1, <2>2
<1>4. UNCHANGED <<opened, files, moved>> BY <1>3 DEF Wait
<1>5. SessionsOK' /\ consented \subseteq consented' /\ (Confirm(c, p) => p \in consented')
  <2>1. CASE UNCHANGED <<confirmed, consented>>
    BY <1>1, <1>4, <2>1 DEF IInv, SessionsOK, Confirm
  <2>2. CASE Confirm(c, p) BY <1>1, <1>4, <2>2, ConfirmKeeps DEF IInv
  <2> QED BY <1>3, <2>1, <2>2
<1>6. CommandsOK'
  <2>1. Fits(step, data) BY DEF Fits
  <2> QED BY <1>3, <2>1, WaitFits DEF IInv, Step
<1>7. Alone(c) /\ at'[c] = step /\ on'[c] = p /\ seen'[c] = data BY <1>3, OthersWait DEF IInv
<1>8. Granted' BY <1>3, <1>5, <1>7, AloneGranted DEF IInv, Ground
<1>9. FileOK' BY <1>4, <1>7, AloneFile DEF IInv
<1> QED BY <1>2, <1>5, <1>6, <1>8, <1>9 DEF IInv

\* A session that is confirmed was confirmed by somebody.
LEMMA PingKeeps ==
  ASSUME IInv, NEW c \in Client, RunPing(c)
  PROVE  IInv'
<1>1. /\ at[c] = "ping" /\ UNCHANGED <<session, holds, store, acked, noted>>
      /\ UNCHANGED <<confirmed, files, moved, consented>>
  BY DEF RunPing, unread, historyVars
<1>2. at[c] # None BY <1>1, NoStep DEF Step
<1>3. EntriesOK' BY <1>1, SameEntries DEF IInv
<1>4. Asks(c, on[c]) BY <1>1 DEF Asks
<1>5. CASE confirmed[on[c]] /\ GoOn(c, "group", "told")
  <2>1. on[c] \in consented BY <1>2, <1>5, OnProfile DEF IInv, SessionsOK
  <2>2. Fits("group", "told") BY DEF Fits
  <2>3. UNCHANGED opened BY <1>5 DEF GoOn
  <2>4. SessionsOK' BY <1>1, <2>3 DEF IInv, SessionsOK
  <2>5. CommandsOK' BY <1>2, <1>5, <2>2, GoOnFits DEF IInv, Step
  <2>6. Alone(c) /\ at'[c] = "group" /\ on'[c] = on[c] BY <1>5, OthersWait DEF IInv
  <2>7. Granted' BY <1>1, <2>1, <2>6, AloneGranted DEF IInv
  <2>8. FileOK' BY <1>1, <2>6, AloneFile DEF IInv
  <2> QED BY <1>3, <2>4, <2>5, <2>7, <2>8 DEF IInv
<1>6. CASE GoOn(c, "prompt", "told")
  <2>1. Fits("prompt", "told") BY DEF Fits
  <2> QED BY <1>1, <1>2, <1>3, <1>4, <1>6, <2>1, GoOnStep DEF Step
<1>7. CASE Done(c) BY <1>1, <1>2, <1>3, <1>4, <1>7, DoneStep
<1> QED BY <1>5, <1>6, <1>7 DEF RunPing

LEMMA PromptKeeps ==
  ASSUME IInv, NEW c \in Client, RunPrompt(c)
  PROVE  IInv'
<1>1. /\ at[c] = "prompt" /\ GoOn(c, "group", "told") /\ Confirm(c, on[c])
      /\ UNCHANGED <<session, holds, store, files, acked, noted, moved, opened>>
  BY DEF RunPrompt, GoOn
<1>2. at[c] # None BY <1>1, NoStep DEF Step
<1>3. on[c] \in Profile BY <1>2, OnProfile DEF IInv
<1>4. SessionsOK' /\ consented \subseteq consented' /\ on[c] \in consented'
  BY <1>1, <1>3, ConfirmKeeps DEF IInv
<1>5. Fits("group", "told") BY DEF Fits
<1>6. CommandsOK' BY <1>1, <1>2, <1>5, GoOnFits DEF IInv, Step
<1>7. EntriesOK' BY <1>1, SameEntries DEF IInv
<1>8. Alone(c) /\ at'[c] = "group" /\ on'[c] = on[c] BY <1>1, OthersWait DEF IInv
<1>9. Granted' BY <1>4, <1>8, AloneGranted DEF IInv
<1>10. FileOK' BY <1>1, <1>8, AloneFile DEF IInv
<1> QED BY <1>4, <1>6, <1>7, <1>9, <1>10 DEF IInv

LEMMA GroupKeeps ==
  ASSUME IInv, NEW c \in Client, RunGroup(c)
  PROVE  IInv'
<1>1. /\ at[c] = "group" /\ Asks(c, on[c])
      /\ UNCHANGED <<store, acked, noted, confirmed, files, moved, consented>>
      /\ IF seen[c] = "dry" THEN Done(c) ELSE GoOn(c, "running", seen[c])
  BY DEF RunGroup, Asks, unread, historyVars
<1>2. at[c] # None BY <1>1, NoStep DEF Step
<1>3. EntriesOK' BY <1>1, SameEntries DEF IInv
<1>4. CASE seen[c] = "dry" BY <1>1, <1>2, <1>3, <1>4, DoneStep
<1>5. CASE seen[c] # "dry"
  <2>1. GoOn(c, "running", seen[c]) BY <1>1, <1>5
  <2>2. UNCHANGED opened BY <2>1 DEF GoOn
  <2>3. SessionsOK' BY <1>1, <1>2, <2>2, AskKeeps, OnProfile DEF IInv
  <2>4. Fits("running", seen[c]) BY <1>5 DEF Fits
  <2>5. CommandsOK' BY <1>2, <2>1, <2>4, GoOnFits DEF IInv, Step
  <2>6. Alone(c) /\ at'[c] = "running" /\ on'[c] = on[c] /\ seen'[c] = seen[c]
    BY <2>1, OthersWait DEF IInv
  <2>7. Granted' BY <1>1, <2>6, AloneGranted DEF IInv, Granted
  <2>8. FileOK' BY <1>1, <2>6, AloneFile DEF IInv
  <2> QED BY <1>3, <2>3, <2>5, <2>7, <2>8 DEF IInv
<1> QED BY <1>4, <1>5

\* A lock takes the confirmation with it.
LEMMA SessionStepsKeep ==
  ASSUME IInv, NEW p \in Profile, Lock(p) \/ Open(p)
  PROVE  IInv'
<1>1. UNCHANGED <<store, acked, noted, at, on, seen, started, files, moved, consented>>
  BY DEF Lock, Open, clientVars, historyVars
<1>2. EntriesOK' BY <1>1, SameEntries DEF IInv
<1>3. CommandsOK' BY <1>1 DEF IInv, CommandsOK
<1>4. Granted' BY <1>1 DEF IInv, Granted
<1>5. FileOK' BY <1>1 DEF IInv, FileOK, FileKept, files
<1>6. CASE Lock(p)
  <2>1. SessionsOK' BY <1>6 DEF IInv, SessionsOK, Lock, historyVars
  <2> QED BY <1>2, <1>3, <1>4, <1>5, <2>1 DEF IInv
<1>7. CASE Open(p)
  <2>1. opened' \in 0..Opens
    <3>1. Opens \in Nat /\ opened \in 0..Opens BY ClientAssumption DEF IInv, SessionsOK
    <3>2. opened < Opens /\ opened' = opened + 1 BY <1>7 DEF Open
    <3> QED BY <3>1, <3>2
  <2>2. /\ session' \in [Profile -> {"open", "locked"}]
        /\ \A q \in Profile : session[q] = "open" => session'[q] = "open"
        /\ UNCHANGED <<confirmed, holds, consented>>
    BY <1>7 DEF IInv, SessionsOK, Open, clientVars, historyVars
  <2>3. SessionsOK' BY <2>1, <2>2 DEF IInv, SessionsOK
  <2> QED BY <1>2, <1>3, <1>4, <1>5, <2>3 DEF IInv
<1> QED BY <1>6, <1>7

-----------------------------------------------------------------------------
(* The theorems.                                                           *)

LEMMA StartsWell == Init => IInv
<1> SUFFICES ASSUME Init PROVE IInv OBVIOUS
<1> USE DEF Init
<1>1. SessionsOK BY ClientAssumption DEF SessionsOK
<1>2. CommandsOK
  <2>1. /\ at \in [Client -> Step \cup {None}] /\ on \in [Client -> Profile \cup {None}]
        /\ seen = [c \in Client |-> seen[c]]
        /\ \A c \in Client : at[c] = None /\ on[c] = None /\ seen[c] = None /\ started[c] = 0
        /\ started \in [Client -> Nat]
    OBVIOUS
  <2>2. \A c \in Client : 0 \in 0..Commands[c] BY ClientAssumption
  <2> QED BY <2>1, <2>2, NoStep DEF CommandsOK
<1>3. EntriesOK
  <2>1. Fresh(Old) \in Entry /\ Fresh(Old).value = Old /\ Fresh(Old).notes = None
    BY DEF Fresh, Entry, Value, Notes
  <2>2. Fresh(Old) # None BY <2>1, NamesAssumption
  <2> DEFINE f == Fresh(Old)
  <2>3. /\ store = [p \in Profile |-> [k \in Key |-> IF <<p, k>> \in Kept THEN f ELSE None]]
        /\ acked = {<<e[1], e[2], Old>> : e \in Kept}
        /\ noted = [p \in Profile |-> [k \in Key |-> None]]
        /\ f \in Entry /\ f.value = Old /\ f.notes = None /\ f # None
    BY <2>1, <2>2
  <2> HIDE DEF f, Init
  <2>4. Kept \subseteq Profile \X Key BY ClientAssumption
  <2>5. StoreTyped
    <3>1. store \in [Profile -> [Key -> Entry \cup {None}]] BY <2>3
    <3>2. acked \subseteq Profile \X Key \X Value BY <2>3, <2>4 DEF Value
    <3>3. noted \in [Profile -> [Key -> Notes]] BY <2>3 DEF Notes
    <3> QED BY <3>1, <3>2, <3>3 DEF StoreTyped
  <2>6. ASSUME NEW a \in acked
        PROVE  Has(a[1], a[2]) /\ store[a[1]][a[2]].value = a[3]
    <3>1. PICK e \in Kept : a = <<e[1], e[2], Old>> BY <2>3
    <3>2. e = <<a[1], a[2]>> /\ a[1] \in Profile /\ a[2] \in Key BY <2>4, <3>1
    <3>3. store[a[1]][a[2]] = f BY <2>3, <3>1, <3>2
    <3> QED BY <2>3, <3>1, <3>3 DEF Has
  <2>7. \A p \in Profile, k \in Key : Has(p, k) => store[p][k].notes = noted[p][k]
    BY <2>3 DEF Has
  <2>8. AckedKept BY <2>6, <2>7 DEF AckedKept
  <2>9. NotesGone BY <2>3 DEF NotesGone
  <2> QED BY <2>5, <2>8, <2>9 DEF EntriesOK
<1>4. Granted BY NoStep DEF Granted, Step
<1>5. FileOK
  <2>1. kdbx \in [Backup -> Value] BY DEF Value
  <2>2. kdbx \in Backups BY <2>1, ClientAssumption DEF Backups
  <2>3. \A c \in Client : at[c] # "migrate" BY NoStep DEF Step
  <2>4. file \in Contents /\ \A f \in Var : file[f] = f BY DEF Contents
  <2> QED BY <2>2, <2>3, <2>4, NamesAssumption DEF FileOK, FileKept
<1> QED BY <1>1, <1>2, <1>3, <1>4, <1>5 DEF IInv

LEMMA StaysWell == IInv /\ [Next]_vars => IInv'
<1> SUFFICES ASSUME IInv, [Next]_vars PROVE IInv' OBVIOUS
<1>1. CASE UNCHANGED vars
  <2>1. UNCHANGED <<store, acked, noted, session, confirmed, holds, at, on, seen, started,
                    file, kdbx, opened, moved, consented>>
    BY <1>1 DEF vars, daemonVars, clientVars, files, historyVars
  <2>2. EntriesOK' BY <2>1, SameEntries DEF IInv
  <2>3. SessionsOK' BY <2>1 DEF IInv, SessionsOK
  <2>4. CommandsOK' BY <2>1 DEF IInv, CommandsOK
  <2>5. Granted' BY <2>1 DEF IInv, Granted
  <2>6. FileOK' BY <2>1 DEF IInv, FileOK, FileKept
  <2> QED BY <2>2, <2>3, <2>4, <2>5, <2>6 DEF IInv
<1>2. \A c \in Client : Uses[c] \subseteq Profile BY ClientAssumption
<1>3. ASSUME NEW c \in Client, NEW p \in Uses[c],
             \/ List(c, p) \/ Load(c, p) \/ Export(c, p) \/ Check(c, p)
             \/ Revoke(c, p) \/ BackupFrom(c, p) \/ Restore(c, p) \/ Import(c, p)
             \/ Merge(c, p) \/ Migrate(c, p) \/ Run(c, p)
      PROVE  IInv'
  <2>1. p \in Profile BY <1>2
  <2>2. CASE List(c, p) \/ Load(c, p) \/ Export(c, p) \/ Check(c, p)
    BY <2>1, <2>2, ReadsKeep DEF List, Load, Export, Check
  <2>3. CASE Restore(c, p) \/ Revoke(c, p) BY <2>1, <2>3, RestoreKeeps
  <2>4. CASE BackupFrom(c, p) \/ Import(c, p) \/ Merge(c, p) BY <2>1, <2>4, StoreReadersKeep
  <2>5. CASE Migrate(c, p) BY <2>1, <2>5, MigrateKeeps
  <2>6. CASE Run(c, p) BY <2>1, <2>6, RunKeeps
  <2> QED BY <1>3, <2>2, <2>3, <2>4, <2>5, <2>6
<1>4. ASSUME NEW c \in Client, NEW p \in Uses[c], NEW q \in Profile,
             Diff(c, p, q) \/ DiffProfiles(c, p, q) \/ Stream(c, p, q)
      PROVE  IInv'
  <2>1. p \in Profile BY <1>2
  <2>2. Diff(c, p, q) \/ Diff(c, q, p) BY <1>4 DEF DiffProfiles, Stream
  <2> QED BY <2>1, <2>2, StoreReadersKeep
<1>5. ASSUME NEW c \in Client, NEW p \in Uses[c], NEW k \in Key,
             \/ Get(c, p, k) \/ Pipe(c, p, k) \/ Describe(c, p, k) \/ History(c, p, k) \/ Lease(c, p, k)
             \/ Set(c, p, k) \/ Delete(c, p, k) \/ DeletePermanently(c, p, k)
             \/ RestoreDeleted(c, p, k) \/ Rollback(c, p, k) \/ Relabel(c, p, k)
             \/ EditNotes(c, p, k) \/ Rotate(c, p, k)
             \/ \E l \in Key : Rename(c, p, k, l) \/ Copy(c, p, k, l)
             \/ \E q \in Profile : CopyFrom(c, p, q, k)
      PROVE  IInv'
  <2>1. p \in Profile BY <1>2
  <2>2. CASE Get(c, p, k) \/ Pipe(c, p, k) \/ Describe(c, p, k) \/ History(c, p, k)
    BY <2>1, <2>2, ReadsKeep DEF Get, Pipe, Describe, History
  <2>3. CASE Lease(c, p, k) \/ EditNotes(c, p, k) \/ Rotate(c, p, k)
    BY <2>1, <2>3, EntryReadersKeep
  <2>4. CASE \E q \in Profile : CopyFrom(c, p, q, k) BY <2>1, <2>4, EntryReadersKeep
  <2>5. CASE \/ Set(c, p, k) \/ Delete(c, p, k) \/ DeletePermanently(c, p, k)
             \/ RestoreDeleted(c, p, k) \/ Rollback(c, p, k) \/ Relabel(c, p, k)
    BY <2>1, <2>5, EntryCommandsKeep
  <2>6. CASE \E l \in Key : Rename(c, p, k, l) \/ Copy(c, p, k, l)
    BY <2>1, <2>6, EntryCommandsKeep
  <2> QED BY <1>5, <2>2, <2>3, <2>4, <2>5, <2>6
<1>6. ASSUME NEW c \in Client,
             \/ Fails(c) \/ EditedNotes(c) \/ CopyTo(c) \/ RotateEnv(c) \/ Rotated(c)
             \/ DiffSecond(c) \/ BackupTo(c) \/ ImportOne(c) \/ Merged(c) \/ MigrateOne(c)
             \/ Sanitize(c) \/ RunPing(c) \/ RunPrompt(c) \/ RunGroup(c) \/ RunEnds(c) \/ Kill(c)
      PROVE  IInv'
  <2>1. CASE Fails(c) \/ DiffSecond(c) \/ RunEnds(c) \/ Kill(c) BY <2>1, EndsKeep
  <2>2. CASE EditedNotes(c) BY <2>2, EditedKeeps
  <2>3. CASE CopyTo(c) BY <2>3, CopiedKeeps
  <2>4. CASE RotateEnv(c) \/ Rotated(c) BY <2>4, RotatingKeeps
  <2>5. CASE BackupTo(c) BY <2>5, BackedUpKeeps
  <2>6. CASE ImportOne(c) BY <2>6, ImportingKeeps
  <2>7. CASE Merged(c) BY <2>7, MergedKeeps
  <2>8. CASE MigrateOne(c) BY <2>8, MigratedKeeps
  <2>9. CASE Sanitize(c) BY <2>9, SanitizeKeeps
  <2>10. CASE RunPing(c) BY <2>10, PingKeeps
  <2>11. CASE RunPrompt(c) BY <2>11, PromptKeeps
  <2>12. CASE RunGroup(c) BY <2>12, GroupKeeps
  <2> QED BY <1>6, <2>1, <2>2, <2>3, <2>4, <2>5, <2>6, <2>7, <2>8, <2>9, <2>10, <2>11, <2>12
<1>7. ASSUME NEW p \in Profile, Lock(p) \/ Open(p)
      PROVE  IInv'
  BY <1>7, SessionStepsKeep
<1> QED BY <1>1, <1>3, <1>4, <1>5, <1>6, <1>7 DEF Next

\* Every state the commands of any number of users reach is one of IInv: what
\* each of them waits with is what its step needs, and the entries, the
\* confirmations and the file are as their parts of it say.
THEOREM CommandsInvariant == Spec => []IInv
<1>1. IInv /\ [Next]_vars => IInv' BY StaysWell
<1> QED BY <1>1, StartsWell, PTL DEF Spec

\* No command leaves a store, a session, a file or another command with
\* something that is none: what an edit or a copy carries from one request to
\* the next is a key and an entry, or a key and a value.
THEOREM CommandsTyped == Spec => []TypeOK
<1>1. IInv => TypeOK
  <2> SUFFICES ASSUME IInv PROVE TypeOK OBVIOUS
  <2>1. DOMAIN kdbx \subseteq Key /\ \A k \in DOMAIN kdbx : kdbx[k] \in Value
    BY DEF IInv, FileOK, Backups
  <2>2. file \in [Var -> Var \cup {Placeholder}] BY DEF IInv, FileOK, Contents
  <2> QED BY <2>1, <2>2
    DEF IInv, TypeOK, SessionsOK, CommandsOK, EntriesOK, StoreTyped, FileOK
<1> QED BY <1>1, CommandsInvariant, PTL

\* Whatever commands run at the same time and wherever they are interrupted,
\* a value that was acknowledged is the entry's or in its history until a
\* command erases it, and the notes are those saved last.
THEOREM AcknowledgedKept == Spec => []AckedKept
<1>1. IInv => AckedKept BY DEF IInv, EntriesOK
<1> QED BY <1>1, CommandsInvariant, PTL

\* A file has a placeholder only for a variable that some vault was given.
THEOREM MigratedKept == Spec => []FileKept
<1>1. IInv => FileKept BY DEF IInv, FileOK
<1> QED BY <1>1, CommandsInvariant, PTL

\* A command that runs with the secrets of a profile tagged prod was agreed
\* to, by its user or another one of the profile, or the tag was not read.
THEOREM RunsConsented == Spec => []RunConfirmed
<1>1. IInv => RunConfirmed
  <2> SUFFICES ASSUME IInv, NEW c \in Client, at[c] = "running", Tier[on[c]] = "prod",
                      seen[c] # "blind"
               PROVE  on[c] \in consented
    BY DEF RunConfirmed
  <2>1. seen[c] # "dry" BY DEF IInv, CommandsOK, Fits
  <2> QED BY <2>1 DEF IInv, Granted
<1> QED BY <1>1, CommandsInvariant, PTL
=============================================================================
