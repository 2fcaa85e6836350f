---------------------------- MODULE RedactStream ----------------------------
(***************************************************************************)
(* `sec run` copies the output of the child it starts through a            *)
(* redactWriter (cmd_profile.go): secrets are replaced, a tail that may be *)
(* the beginning of a secret is held back, and a timer gives the tail out  *)
(* when the child falls silent, so that a prompt without a newline is      *)
(* seen.  One writer is modelled; stdout and stderr have one each and      *)
(* share nothing.                                                          *)
(*                                                                         *)
(* A replaced secret keeps its characters, marked "redacted", instead of   *)
(* turning into "[REDACTED_BY_SEC]": what was given and what was shown can *)
(* then be compared position by position.                                  *)
(***************************************************************************)
EXTENDS Integers, FiniteSets, Sequences, SequencesExt, FiniteSetsExt

CONSTANTS
  Char,       \* what the child may print
  Blank,      \* the characters strings.TrimSpace removes
  Value,      \* the values of the secrets given to the child
  MinLength,  \* shorter values are not redacted (4 in the code)
  Chunk,      \* the writes the child may make
  MaxText     \* bound: the characters the child prints

ASSUME RedactAssumption ==
  /\ Blank \subseteq Char
  /\ Value \subseteq Seq(Char) /\ IsFiniteSet(Value)
  /\ Chunk \subseteq Seq(Char) \ {<<>>}
  /\ MinLength \in Nat \ {0}
  /\ MaxText \in Nat

VARIABLES
  secrets,  \* the sequence of values the writer looks for
  given,    \* what the child has written so far
  shown,    \* what the target received
  buf,      \* what the writer holds back
  timer,    \* flushTimer: "off" or "armed"
  fired,    \* callbacks of the timer that wait for the mutex
  child,    \* "running", "cut" (its output no longer copied), "exited", "done"
  target,   \* "open" or "closed": whether writes to the terminal succeed
  cuts      \* history: the positions at which a callback gave the tail out

vars == <<secrets, given, shown, buf, timer, fired, child, target, cuts>>

Cell == [char : Char, as : {"plain", "redacted"}]
Plain(text) == [i \in DOMAIN text |-> [char |-> text[i], as |-> "plain"]]
Chars(cells) == [i \in DOMAIN cells |-> cells[i].char]

-----------------------------------------------------------------------------
(* The text functions.                                                     *)

\* strings.TrimSpace.
Trimmed(value) ==
  LET kept == {i \in DOMAIN value : value[i] \notin Blank}
  IN  IF kept = {} THEN <<>> ELSE SubSeq(value, Min(kept), Max(kept))

\* newRedactWriter keeps the trimmed values that are long enough; handleRun
\* ranges over a map, so they come in any order.
Valid == {v \in {Trimmed(w) : w \in Value} : Len(v) >= MinLength}
MaxLen == Max({0} \cup {Len(s) : s \in Valid})

OccursAt(s, i, cells) ==
  /\ i + Len(s) - 1 <= Len(cells)
  /\ \A j \in DOMAIN s : cells[i + j - 1] = [char |-> s[j], as |-> "plain"]

\* Where strings.ReplaceAll finds s: from the left, without overlaps.
Starts(s, cells) ==
  CHOOSE found \in SUBSET DOMAIN cells :
    \A i \in DOMAIN cells :
      i \in found <=> /\ OccursAt(s, i, cells)
                      /\ \A k \in found : k < i => k + Len(s) <= i

Replaced(cells, s) ==
  LET starts == Starts(s, cells)
  IN  [i \in DOMAIN cells |->
        IF \E k \in starts : i \in k..(k + Len(s) - 1)
        THEN [cells[i] EXCEPT !.as = "redacted"] ELSE cells[i]]

\* One secret after the other.
Redacted(cells) ==
  LET after[n \in 0..Len(secrets)] ==
        IF n = 0 THEN cells ELSE Replaced(after[n - 1], secrets[n])
  IN  after[Len(secrets)]

\* Mutant of Held: a whole buffer is taken for a beginning, whatever it is.
HeldAll(cells) == Min({MaxLen, Len(cells)})

\* Mutant of Held: one character too few is held back.
HeldShort(cells) ==
  Max({0} \cup {l \in 1..Min({MaxLen - 2, Len(cells)}) :
    \E s \in Range(secrets) :
      l <= Len(s) /\ OccursAt(SubSeq(s, 1, l), Len(cells) - l + 1, cells)})

\* longestSecretPrefixSuffix: how much of the end may be the beginning of a
\* secret that is still being written.
Held(cells) ==
  Max({0} \cup {l \in 1..Min({MaxLen - 1, Len(cells)}) :
    \E s \in Range(secrets) :
      l <= Len(s) /\ OccursAt(SubSeq(s, 1, l), Len(cells) - l + 1, cells)})

-----------------------------------------------------------------------------

\* The group given to the child has all the values or none.
Orders == SetToSeqs(Valid) \cup {<<>>}

Init ==
  /\ secrets \in Orders
  /\ given = <<>> /\ shown = <<>> /\ buf = <<>>
  /\ timer = "off" /\ fired = 0
  /\ child = "running" /\ target = "open"
  /\ cuts = {}

\* A write to the target; the text of a failed one is lost.
Show(cells) == shown' = IF target = "open" THEN shown \o cells ELSE shown

\* os/exec stops copying when the writer returns an error.
Copied(failed) == child' = IF failed THEN "cut" ELSE child

\* The goroutine of os/exec hands a chunk of the child's output to Write.
Write(p) ==
  /\ child = "running"
  /\ Len(given) + Len(p) <= MaxText
  /\ given' = given \o p
  /\ IF secrets = <<>>
       THEN /\ Show(Plain(p)) /\ Copied(target = "closed")
            /\ UNCHANGED <<buf, timer>>
       ELSE LET out == Redacted(buf \o Plain(p))
                safe == Len(out) - Held(out)
            IN  /\ buf' = SubSeq(out, safe + 1, Len(out))
                /\ Show(SubSeq(out, 1, safe))
                /\ Copied(safe > 0 /\ target = "closed")
                /\ timer' = IF safe = Len(out) \/ (safe > 0 /\ target = "closed")
                            THEN "off" ELSE "armed"
  /\ UNCHANGED <<secrets, fired, target, cuts>>

\* Mutant of Expire: the callback is lost.
ExpireIdly ==
  /\ timer = "armed"
  /\ timer' = "off"
  /\ UNCHANGED <<secrets, given, shown, buf, fired, child, target, cuts>>

\* 25 ms without a write: the callback starts, and waits for the mutex.  A
\* Write that holds the mutex cannot stop it any more.
Expire ==
  /\ timer = "armed"
  /\ timer' = "off"
  /\ fired' = fired + 1
  /\ UNCHANGED <<secrets, given, shown, buf, child, target, cuts>>

\* Mutant of Callback: the tail is shown and kept.
CallbackKeeps ==
  /\ fired > 0
  /\ fired' = fired - 1
  /\ Show(Redacted(buf))
  /\ UNCHANGED <<secrets, given, buf, timer, child, target, cuts>>

\* The callback gives out whatever is held back when it gets the mutex.
Callback ==
  /\ fired > 0
  /\ fired' = fired - 1
  /\ IF buf # <<>>
       THEN /\ Show(Redacted(buf))
            /\ buf' = <<>>
            /\ cuts' = cuts \cup {Len(given)}
       ELSE UNCHANGED <<shown, buf, cuts>>
  /\ UNCHANGED <<secrets, given, timer, child, target>>

\* The child ends and its output is drained: Wait returns.
ChildExits ==
  /\ child \in {"running", "cut"}
  /\ child' = "exited"
  /\ UNCHANGED <<secrets, given, shown, buf, timer, fired, target, cuts>>

\* handleRun calls Flush and leaves.
Flush ==
  /\ child = "exited"
  /\ child' = "done"
  /\ timer' = "off"
  /\ Show(Redacted(buf))
  /\ buf' = <<>>
  /\ UNCHANGED <<secrets, given, fired, target, cuts>>

\* The reader of the output goes away.
TargetCloses ==
  /\ target = "open" /\ child = "running"
  /\ target' = "closed"
  /\ UNCHANGED <<secrets, given, shown, buf, timer, fired, child, cuts>>

Next ==
  \/ \E p \in Chunk : Write(p)
  \/ Expire \/ Callback
  \/ ChildExits \/ Flush
  \/ TargetCloses

\* Timers expire and their callbacks run; the child need not write, nor end.
Spec == Init /\ [][Next]_vars /\ WF_vars(Expire) /\ WF_vars(Callback)

-----------------------------------------------------------------------------
(* Properties.                                                             *)

TypeOK ==
  /\ secrets \in Orders
  /\ given \in Seq(Char) /\ Len(given) <= MaxText
  /\ shown \in Seq(Cell) /\ buf \in Seq(Cell)
  /\ Len(buf) < Max({1, MaxLen})
  /\ timer \in {"off", "armed"} /\ fired \in 0..MaxText
  /\ child \in {"running", "cut", "exited", "done"}
  /\ target \in {"open", "closed"}
  /\ cuts \subseteq 1..MaxText

\* Nothing is lost, doubled or moved: what was shown and what is held back
\* is what the child wrote, and at the end nothing is held back.
NothingLost ==
  /\ target = "open" => Chars(shown \o buf) = given
  /\ child = "done" => buf = <<>>

\* The secret v stands at i in what was shown, with no character redacted.
Bare(v, i) == OccursAt(v, i, shown)

\* However the child cuts its output into writes, a secret is never shown
\* whole, unless the timer gave out a part of it while the rest was still
\* to come (cmd_profile.go:877-903).
SecretsRedacted ==
  target = "open" =>
    \A v \in Range(secrets) : \A i \in 1..Len(shown) :
      Bare(v, i) => \E k \in cuts : i <= k /\ k < i + Len(v) - 1

\* What the changelog claims: no secret is shown, however it is split.
NeverLeaked == \A v \in Range(secrets) : \A i \in 1..Len(shown) : ~ Bare(v, i)

\* A prompt that looks like the beginning of a secret is shown even if the
\* child writes nothing more (cmd_profile.go:892).
PromptShown == []<>(buf = <<>> \/ target = "closed")
=============================================================================
