------------------------- MODULE RedactStreamProofs -------------------------
(***************************************************************************)
(* What the writer of `sec run` keeps for any alphabet, any secrets and    *)
(* any way the child cuts its output into writes.  Replacing only ever     *)
(* hides characters, and hides every whole secret of the text it is given; *)
(* what it is given begins where a secret may still be open.               *)
(***************************************************************************)
EXTENDS RedactStream, TLAPS, WellFoundedInduction, FiniteSetTheorems,
        SequenceTheorems

\* The text from i on may be v, as far as it goes.
Begins(v, i, cells) ==
  \A j \in DOMAIN v :
    i + j - 1 <= Len(cells) => cells[i + j - 1] = [char |-> v[j], as |-> "plain"]

\* Every callback of the timer is paid for by a write.
Timely == fired + (IF timer = "armed" THEN 1 ELSE 0) <= Len(given)

\* What is held back is text of the child, and nothing is without secrets.
Buffered == Len(buf) <= Len(given) /\ (secrets = <<>> => buf = <<>>)

\* A secret that begins in what was shown, and may still become whole, has
\* been cut by the timer.
NoneOpen ==
  target = "open" =>
    \A v \in Range(secrets) : \A i \in 1..Len(shown) :
      /\ Begins(v, i, shown \o buf)
      /\ child = "done" => i + Len(v) - 1 <= Len(shown)
      => \E k \in cuts : i <= k /\ k < i + Len(v) - 1

IInv == TypeOK /\ Timely /\ Buffered /\ NothingLost /\ NoneOpen

-----------------------------------------------------------------------------
(* Numbers.                                                                *)

LEMMA LeastOf ==
  ASSUME NEW S \in SUBSET Nat, S # {}
  PROVE  Min(S) \in S /\ \A y \in S : Min(S) <= y
<1>1. PICK x \in S : \A y \in S : <<y, x>> \notin OpToRel(<, Nat)
  BY NatLessThanWellFounded, WFMin
<1>2. \A y \in S : ~(y < x)
  BY <1>1 DEF OpToRel
<1>3. \A y \in S : x <= y
  BY <1>2
<1> QED BY <1>3 DEF Min

LEMMA Inducts ==
  ASSUME NEW S \in SUBSET Nat, 0 \in S, \A n \in S : n + 1 \in S
  PROVE  S = Nat
<1> SUFFICES ASSUME Nat \ S # {} PROVE FALSE
  OBVIOUS
<1> DEFINE m == Min(Nat \ S)
<1>1. m \in Nat \ S /\ \A y \in Nat \ S : m <= y
  BY LeastOf
<1> HIDE DEF m
<1>2. m # 0 /\ m - 1 \in Nat
  BY <1>1
<1>3. m - 1 \in S
  BY <1>1, <1>2
<1>4. m = (m - 1) + 1
  BY <1>1
<1> QED BY <1>1, <1>3, <1>4

LEMMA GreatestOf ==
  ASSUME NEW S \in SUBSET Nat, S # {}, NEW N \in Nat, \A x \in S : x <= N
  PROVE  Max(S) \in S /\ \A y \in S : y <= Max(S)
<1> DEFINE T == {n \in Nat : \E x \in S : n = N - x}
           m == Min(T)
<1>1. PICK z \in S : TRUE
  OBVIOUS
<1>2. N - z \in T
  BY <1>1
<1>3. m \in T /\ \A y \in T : m <= y
  BY <1>2, LeastOf
<1> HIDE DEF m
<1>4. PICK x \in S : m = N - x
  BY <1>3
<1>5. \A y \in S : N - y \in T
  OBVIOUS
<1> HIDE DEF T
<1>6. \A y \in S : x >= y
  BY <1>3, <1>4, <1>5
<1>7. \E w \in S : \A y \in S : w >= y
  BY <1>6
<1>8. Max(S) \in S /\ \A y \in S : Max(S) >= y
  BY <1>7 DEF Max
<1> QED BY <1>8

LEMMA LeastOfTwo ==
  ASSUME NEW a \in Int, NEW b \in Int
  PROVE  Min({a, b}) \in {a, b} /\ Min({a, b}) <= a /\ Min({a, b}) <= b
<1>1. \E x \in {a, b} : \A y \in {a, b} : x =< y
  OBVIOUS
<1>2. Min({a, b}) \in {a, b} /\ \A y \in {a, b} : Min({a, b}) =< y
  BY <1>1 DEF Min
<1> QED BY <1>2

-----------------------------------------------------------------------------
(* The secrets.                                                            *)

LEMMA TrimmedText ==
  ASSUME NEW w \in Seq(Char)
  PROVE  Trimmed(w) \in Seq(Char) /\ Len(Trimmed(w)) <= Len(w)
<1> DEFINE kept == {i \in DOMAIN w : w[i] \notin Blank}
<1>1. kept \in SUBSET Nat /\ \A i \in kept : 1 <= i /\ i <= Len(w)
  OBVIOUS
<1>2. CASE kept = {}
  <2>1. Trimmed(w) = <<>>
    BY <1>2 DEF Trimmed
  <2> QED BY <2>1
<1>3. CASE kept # {}
  <2>1. Min(kept) \in kept /\ Max(kept) \in kept
    <3>1. Len(w) \in Nat
      OBVIOUS
    <3> HIDE DEF kept
    <3>2. Min(kept) \in kept
      BY <1>1, <1>3, LeastOf
    <3>3. Max(kept) \in kept
      BY <1>1, <1>3, <3>1, GreatestOf
    <3> QED BY <3>2, <3>3
  <2> DEFINE m == Min(kept)  n == Max(kept)
  <2>2. m \in 1..Len(w) /\ n \in 1..Len(w)
    BY <1>1, <2>1
  <2>3. Trimmed(w) = SubSeq(w, m, n)
    BY <1>3 DEF Trimmed
  <2> HIDE DEF m, n
  <2>4. \A i \in m..n : w[i] \in Char
    BY <2>2
  <2> QED BY <2>2, <2>3, <2>4, SubSeqProperties
<1> QED BY <1>2, <1>3

LEMMA ValuesFinite ==
  \E N \in Nat : \A w \in Value : Len(w) <= N
<1>1. PICK vs \in Seq(Value) : \A w \in Value : \E n \in 1..Len(vs) : vs[n] = w
  BY RedactAssumption DEF RedactAssumption, IsFiniteSet
<1> DEFINE S == {n \in Nat :
                   \E N \in Nat : \A i \in 1..Len(vs) : i <= n => Len(vs[i]) <= N}
<1>2. Len(vs) \in Nat /\ \A i \in 1..Len(vs) : Len(vs[i]) \in Nat
  BY RedactAssumption DEF RedactAssumption
<1>3. 0 \in S
  OBVIOUS
<1>4. ASSUME NEW n \in S PROVE n + 1 \in S
  <2>1. PICK N \in Nat : \A i \in 1..Len(vs) : i <= n => Len(vs[i]) <= N
    OBVIOUS
  <2>2. \E M \in Nat : \A i \in 1..Len(vs) : i <= n + 1 => Len(vs[i]) <= M
    <3>1. CASE n + 1 \in 1..Len(vs)
      <4>1. N + Len(vs[n + 1]) \in Nat
        BY <1>2, <3>1
      <4>2. \A i \in 1..Len(vs) : i <= n + 1 => Len(vs[i]) <= N + Len(vs[n + 1])
        BY <1>2, <2>1, <3>1
      <4> QED BY <4>1, <4>2
    <3>2. CASE n + 1 \notin 1..Len(vs)
      <4>1. \A i \in 1..Len(vs) : i <= n + 1 => Len(vs[i]) <= N
        BY <1>2, <2>1, <3>2
      <4> QED BY <4>1
    <3> QED BY <3>1, <3>2
  <2> QED BY <2>2
<1>5. S = Nat
  <2>1. S \in SUBSET Nat
    OBVIOUS
  <2> HIDE DEF S
  <2> QED BY <1>3, <1>4, <2>1, Inducts
<1>6. PICK N \in Nat : \A i \in 1..Len(vs) : i <= Len(vs) => Len(vs[i]) <= N
  <2>1. Len(vs) \in S
    <3> HIDE DEF S
    <3> QED BY <1>2, <1>5
  <2> QED BY <2>1
<1>7. \A w \in Value : Len(w) <= N
  BY <1>1, <1>2, <1>6
<1> QED BY <1>7

LEMMA ValidText == \A v \in Valid : v \in Seq(Char) /\ Len(v) >= 1
BY TrimmedText, RedactAssumption DEF RedactAssumption, Valid

LEMMA MaxLenBounds == MaxLen \in Nat /\ \A v \in Valid : Len(v) <= MaxLen
<1> DEFINE lengths == {0} \cup {Len(s) : s \in Valid}
<1>1. lengths \in SUBSET Nat /\ lengths # {}
  BY ValidText
<1>2. PICK N \in Nat : \A w \in Value : Len(w) <= N
  BY ValuesFinite
<1>3. \A v \in Valid : Len(v) <= N
  BY <1>2, TrimmedText, RedactAssumption DEF RedactAssumption, Valid
<1>4. \A l \in lengths : l <= N
  BY <1>3
<1>5. Max(lengths) \in lengths /\ \A l \in lengths : l <= Max(lengths)
  BY <1>1, <1>2, <1>4, GreatestOf
<1> QED BY <1>1, <1>5 DEF MaxLen

LEMMA ValidFinite == IsFiniteSet(Valid)
<1> DEFINE trims == {Trimmed(w) : w \in Value}
<1>1. PICK vs \in Seq(Value) : \A w \in Value : \E n \in 1..Len(vs) : vs[n] = w
  BY RedactAssumption DEF RedactAssumption, IsFiniteSet
<1> DEFINE ts == [i \in 1..Len(vs) |-> Trimmed(vs[i])]
<1>2. ts \in Seq(trims) /\ Len(ts) = Len(vs)
  OBVIOUS
<1>3. \A t \in trims : \E n \in 1..Len(ts) : ts[n] = t
  BY <1>1, <1>2
<1>4. IsFiniteSet(trims)
  <2> HIDE DEF ts, trims
  <2> QED BY <1>2, <1>3 DEF IsFiniteSet
<1>5. Valid \subseteq trims
  BY DEF Valid
<1> QED BY <1>4, <1>5, FS_Subset

LEMMA OrdersText ==
  \A order \in Orders : order \in Seq(Valid) /\ Range(order) \subseteq Valid
<1> SUFFICES ASSUME NEW order \in Orders
             PROVE  order \in Seq(Valid) /\ Range(order) \subseteq Valid
  OBVIOUS
<1>1. order \in Seq(Valid)
  <2>1. Cardinality(Valid) \in Nat
    BY ValidFinite, FS_CardinalityType
  <2>2. CASE order \in SetToSeqs(Valid)
    <3>1. order \in [1..Cardinality(Valid) -> Valid]
      BY <2>2 DEF SetToSeqs
    <3> QED BY <2>1, <3>1
  <2>3. CASE order = <<>>
    BY <2>3
  <2> QED BY <2>2, <2>3 DEF Orders
<1> QED BY <1>1 DEF Range

-----------------------------------------------------------------------------
(* Replacing.                                                              *)

\* One text is another with more of it hidden.
Masks(d, c) ==
  /\ Len(d) = Len(c)
  /\ \A i \in 1..Len(c) : /\ d[i].char = c[i].char
                          /\ d[i].as = "plain" => c[i].as = "plain"

LEMMA MasksItself == \A c \in Seq(Cell) : Masks(c, c)
BY DEF Masks

LEMMA MasksOfMasks ==
  ASSUME NEW c \in Seq(Cell), NEW d \in Seq(Cell), NEW e \in Seq(Cell),
         Masks(e, d), Masks(d, c)
  PROVE  Masks(e, c)
BY DEF Masks

\* A character in the clear was so before.
LEMMA MaskedCell ==
  ASSUME NEW c \in Seq(Cell), NEW d \in Seq(Cell), Masks(d, c),
         NEW i \in 1..Len(c), NEW x, d[i] = [char |-> x, as |-> "plain"]
  PROVE  c[i] = [char |-> x, as |-> "plain"]
<1>1. c[i] \in Cell
  OBVIOUS
<1>2. c[i].char = x /\ c[i].as = "plain"
  BY DEF Masks
<1> QED BY <1>1, <1>2 DEF Cell

\* So no secret comes up by replacing another.
LEMMA MaskedOccurs ==
  ASSUME NEW c \in Seq(Cell), NEW d \in Seq(Cell), Masks(d, c),
         NEW s \in Seq(Char), NEW i \in 1..Len(c), OccursAt(s, i, d)
  PROVE  OccursAt(s, i, c)
<1>1. Len(d) = Len(c) /\ i + Len(s) - 1 <= Len(c)
  BY DEF OccursAt, Masks
<1>2. ASSUME NEW j \in DOMAIN s
      PROVE  c[i + j - 1] = [char |-> s[j], as |-> "plain"]
  <2>1. i + j - 1 \in 1..Len(c)
    BY <1>1
  <2>2. d[i + j - 1] = [char |-> s[j], as |-> "plain"]
    BY DEF OccursAt
  <2> QED BY <2>1, <2>2, MaskedCell
<1> QED BY <1>1, <1>2 DEF OccursAt

\* What Starts chooses is there: the occurrences before n + 1 are those before
\* n, and n + 1 or not.
Leftmost(s, cells, n, found) ==
  \A i \in 1..n :
    i \in found <=> /\ OccursAt(s, i, cells)
                    /\ \A k \in found : k < i => k + Len(s) <= i

LEMMA StartsFound ==
  ASSUME NEW cells \in Seq(Cell), NEW s \in Seq(Char)
  PROVE  /\ Starts(s, cells) \subseteq 1..Len(cells)
         /\ Leftmost(s, cells, Len(cells), Starts(s, cells))
<1> DEFINE S == {n \in Nat : \E found \in SUBSET (1..n) : Leftmost(s, cells, n, found)}
<1>1. 0 \in S
  <2>1. Leftmost(s, cells, 0, {})
    BY DEF Leftmost
  <2> QED BY <2>1
<1>2. ASSUME NEW n \in S PROVE n + 1 \in S
  <2>1. PICK found \in SUBSET (1..n) : Leftmost(s, cells, n, found)
    OBVIOUS
  <2>2. n \in Nat /\ n + 1 \in Nat
    OBVIOUS
  <2>3. CASE OccursAt(s, n + 1, cells) /\ \A k \in found : k + Len(s) <= n + 1
    <3> DEFINE more == found \cup {n + 1}
    <3>1. more \in SUBSET (1..(n + 1))
      BY <2>2
    <3>2. Leftmost(s, cells, n + 1, more)
      BY <2>1, <2>2, <2>3 DEF Leftmost
    <3> QED BY <2>2, <3>1, <3>2
  <2>4. CASE ~(OccursAt(s, n + 1, cells) /\ \A k \in found : k + Len(s) <= n + 1)
    <3>1. found \in SUBSET (1..(n + 1))
      BY <2>2
    <3>2. Leftmost(s, cells, n + 1, found)
      BY <2>1, <2>2, <2>4 DEF Leftmost
    <3> QED BY <2>2, <3>1, <3>2
  <2> QED BY <2>3, <2>4
<1>3. Len(cells) \in S
  <2>1. S \in SUBSET Nat
    OBVIOUS
  <2>2. Len(cells) \in Nat
    OBVIOUS
  <2> HIDE DEF S
  <2> QED BY <1>1, <1>2, <2>1, <2>2, Inducts
<1>4. DOMAIN cells = 1..Len(cells)
  OBVIOUS
<1>5. \E found \in SUBSET (1..Len(cells)) : Leftmost(s, cells, Len(cells), found)
  BY <1>3
<1>6. Starts(s, cells) = CHOOSE found \in SUBSET (1..Len(cells)) :
                           Leftmost(s, cells, Len(cells), found)
  BY <1>4 DEF Starts, Leftmost
<1> HIDE DEF S
<1> QED BY <1>5, <1>6

\* strings.ReplaceAll leaves no occurrence, and the rest as it was.
LEMMA ReplacedHides ==
  ASSUME NEW cells \in Seq(Cell), NEW s \in Seq(Char), Len(s) >= 1
  PROVE  /\ Replaced(cells, s) \in Seq(Cell)
         /\ Masks(Replaced(cells, s), cells)
         /\ \A i \in 1..Len(cells) : ~ OccursAt(s, i, Replaced(cells, s))
<1> DEFINE starts == Starts(s, cells)
           out == Replaced(cells, s)
           hidden(i) == \E k \in starts : i \in k..(k + Len(s) - 1)
<1>1. starts \subseteq 1..Len(cells) /\ Leftmost(s, cells, Len(cells), starts)
  BY StartsFound
<1>2. DOMAIN cells = 1..Len(cells) /\ Len(cells) \in Nat
  OBVIOUS
<1>3. out = [i \in 1..Len(cells) |->
              IF hidden(i) THEN [cells[i] EXCEPT !.as = "redacted"] ELSE cells[i]]
  BY <1>2 DEF Replaced
<1> HIDE DEF out, starts
<1>4. ASSUME NEW i \in 1..Len(cells) PROVE out[i] \in Cell
  <2>1. cells[i] \in Cell
    OBVIOUS
  <2>2. [cells[i] EXCEPT !.as = "redacted"] \in Cell
    BY <2>1 DEF Cell
  <2> HIDE DEF hidden
  <2> QED BY <1>3, <2>1, <2>2
<1>5. out \in Seq(Cell) /\ Len(out) = Len(cells)
  BY <1>2, <1>3, <1>4
<1>6. ASSUME NEW i \in 1..Len(cells)
      PROVE  /\ out[i].char = cells[i].char
             /\ out[i].as = "plain" => cells[i].as = "plain"
             /\ out[i].as = "plain" => ~ hidden(i)
  <2>1. cells[i] \in Cell
    OBVIOUS
  <2>2. CASE hidden(i)
    <3>1. out[i] = [cells[i] EXCEPT !.as = "redacted"]
      BY <1>3, <2>2
    <3> HIDE DEF hidden
    <3> QED BY <2>1, <3>1 DEF Cell
  <2>3. CASE ~ hidden(i)
    <3>1. out[i] = cells[i]
      BY <1>3, <2>3
    <3> QED BY <2>3, <3>1
  <2> QED BY <2>2, <2>3
<1>7. Masks(out, cells)
  BY <1>5, <1>6 DEF Masks
<1>8. ASSUME NEW i \in 1..Len(cells), OccursAt(s, i, out) PROVE FALSE
  <2>1. i + Len(s) - 1 <= Len(cells) /\ Len(s) \in Nat
    BY <1>5, <1>8 DEF OccursAt
  <2>2. ASSUME NEW j \in 1..Len(s) PROVE out[i + j - 1].as = "plain"
    <3>1. j \in DOMAIN s
      OBVIOUS
    <3>2. out[i + j - 1] = [char |-> s[j], as |-> "plain"]
      BY <1>8, <3>1 DEF OccursAt
    <3> QED BY <3>2
  <2>3. ASSUME NEW m \in i..(i + Len(s) - 1) PROVE ~ hidden(m)
    <3>1. m - i + 1 \in 1..Len(s) /\ i + (m - i + 1) - 1 = m /\ m \in 1..Len(cells)
      BY <2>1
    <3>2. out[m].as = "plain"
      BY <2>2, <3>1
    <3> QED BY <1>6, <3>1, <3>2
  <2>4. ~ hidden(i)
    BY <2>1, <2>3
  <2>5. i \notin starts
    BY <2>1, <2>4
  <2>6. OccursAt(s, i, cells)
    BY <1>5, <1>7, <1>8, MaskedOccurs
  <2>7. PICK k \in starts : k < i /\ ~(k + Len(s) <= i)
    BY <1>1, <2>5, <2>6 DEF Leftmost
  <2>8. k \in Nat /\ i \in k..(k + Len(s) - 1)
    BY <1>1, <2>1, <2>7
  <2> QED BY <2>4, <2>8
<1> QED BY <1>5, <1>7, <1>8 DEF out

\* The text after each of the secrets in turn.
Stages(f, n, cells) ==
  /\ f \in [0..n -> Seq(Cell)]
  /\ f[0] = cells
  /\ \A i \in 1..n : f[i] = Replaced(f[i - 1], secrets[i])

LEMMA StagesExist ==
  ASSUME secrets \in Orders, NEW cells \in Seq(Cell)
  PROVE  \E f : Stages(f, Len(secrets), cells)
<1>1. /\ Len(secrets) \in Nat
      /\ \A n \in 1..Len(secrets) : secrets[n] \in Seq(Char) /\ Len(secrets[n]) >= 1
  <2>1. secrets \in Seq(Valid)
    BY OrdersText
  <2> QED BY <2>1, ValidText
<1> DEFINE S == {n \in Nat : n <= Len(secrets) => \E f : Stages(f, n, cells)}
<1>2. 0 \in S
  <2>1. Stages([i \in 0..0 |-> cells], 0, cells)
    BY DEF Stages
  <2> QED BY <2>1
<1>3. ASSUME NEW n \in S PROVE n + 1 \in S
  <2> SUFFICES ASSUME n + 1 <= Len(secrets)
               PROVE  \E f : Stages(f, n + 1, cells)
    OBVIOUS
  <2>1. n \in Nat /\ n <= Len(secrets)
    BY <1>1
  <2>2. PICK f : Stages(f, n, cells)
    BY <2>1
  <2>3. f[n] \in Seq(Cell) /\ n + 1 \in 1..Len(secrets)
    BY <2>1, <2>2, <1>1 DEF Stages
  <2> DEFINE next == Replaced(f[n], secrets[n + 1])
             g == [i \in 0..(n + 1) |-> IF i <= n THEN f[i] ELSE next]
  <2>4. next \in Seq(Cell)
    BY <2>3, <1>1, ReplacedHides
  <2> HIDE DEF next
  <2>5. g \in [0..(n + 1) -> Seq(Cell)] /\ g[0] = cells
    BY <2>1, <2>2, <2>4 DEF Stages
  <2>6. ASSUME NEW i \in 1..(n + 1) PROVE g[i] = Replaced(g[i - 1], secrets[i])
    <3>1. CASE i <= n
      <4>1. g[i] = f[i] /\ g[i - 1] = f[i - 1]
        BY <2>1, <3>1
      <4>2. f[i] = Replaced(f[i - 1], secrets[i])
        BY <2>1, <2>2, <3>1 DEF Stages
      <4> HIDE DEF g
      <4> QED BY <4>1, <4>2
    <3>2. CASE i = n + 1
      <4>1. g[i] = next /\ g[i - 1] = f[n]
        BY <2>1, <3>2
      <4> HIDE DEF g
      <4> QED BY <3>2, <4>1 DEF next
    <3> QED BY <2>1, <3>1, <3>2
  <2> HIDE DEF g
  <2> QED BY <2>5, <2>6 DEF Stages
<1>4. Len(secrets) \in S
  <2>1. S \in SUBSET Nat
    OBVIOUS
  <2> HIDE DEF S
  <2> QED BY <1>1, <1>2, <1>3, <2>1, Inducts
<1> QED BY <1>1, <1>4

LEMMA RedactedStages ==
  ASSUME secrets \in Orders, NEW cells \in Seq(Cell)
  PROVE  \E f : Stages(f, Len(secrets), cells) /\ Redacted(cells) = f[Len(secrets)]
<1> DEFINE N == Len(secrets)
           rec(f) == f = [n \in 0..N |-> IF n = 0 THEN cells
                                         ELSE Replaced(f[n - 1], secrets[n])]
           after == CHOOSE f : rec(f)
<1>1. Redacted(cells) = after[N]
  BY DEF Redacted
<1>2. N \in Nat
  BY OrdersText
<1>3. PICK f : Stages(f, N, cells)
  BY StagesExist
<1>4. rec(f)
  BY <1>2, <1>3 DEF Stages
<1>5. rec(after)
  BY <1>4
<1> HIDE DEF after
<1>6. /\ after[0] = cells
      /\ \A n \in 1..N : after[n] = Replaced(after[n - 1], secrets[n])
  BY <1>2, <1>5
<1> HIDE DEF rec
<1> DEFINE S == {n \in Nat : n <= N => after[n] = f[n]}
<1>7. 0 \in S
  BY <1>3, <1>6 DEF Stages
<1>8. ASSUME NEW n \in S PROVE n + 1 \in S
  <2> SUFFICES ASSUME n + 1 <= N PROVE after[n + 1] = f[n + 1]
    OBVIOUS
  <2>1. n + 1 \in 1..N /\ (n + 1) - 1 = n /\ after[n] = f[n]
    BY <1>2
  <2>2. after[n + 1] = Replaced(after[n], secrets[n + 1])
    BY <1>6, <2>1
  <2>3. f[n + 1] = Replaced(f[n], secrets[n + 1])
    BY <1>3, <2>1 DEF Stages
  <2> QED BY <2>1, <2>2, <2>3
<1>9. N \in S
  <2>1. S \in SUBSET Nat
    OBVIOUS
  <2> HIDE DEF S
  <2> QED BY <1>2, <1>7, <1>8, <2>1, Inducts
<1> QED BY <1>1, <1>2, <1>3, <1>9

\* Redacted leaves no secret, whatever the order of the secrets, and the rest
\* as it was.
LEMMA RedactedHides ==
  ASSUME secrets \in Orders, NEW cells \in Seq(Cell)
  PROVE  /\ Redacted(cells) \in Seq(Cell)
         /\ Masks(Redacted(cells), cells)
         /\ \A v \in Range(secrets) : \A i \in 1..Len(cells) :
              ~ OccursAt(v, i, Redacted(cells))
<1>1. PICK f : Stages(f, Len(secrets), cells) /\ Redacted(cells) = f[Len(secrets)]
  BY RedactedStages
<1>2. /\ Len(secrets) \in Nat
      /\ DOMAIN secrets = 1..Len(secrets)
      /\ \A n \in 1..Len(secrets) : secrets[n] \in Seq(Char) /\ Len(secrets[n]) >= 1
  <2>1. secrets \in Seq(Valid)
    BY OrdersText
  <2> QED BY <2>1, ValidText
<1> DEFINE Hidden(n) ==
             /\ Masks(f[n], cells)
             /\ \A j \in 1..n : \A i \in 1..Len(cells) : ~ OccursAt(secrets[j], i, f[n])
           S == {n \in Nat : n <= Len(secrets) => Hidden(n)}
<1>3. \A n \in 0..Len(secrets) : f[n] \in Seq(Cell)
  BY <1>1 DEF Stages
<1>4. Hidden(0)
  BY <1>1, MasksItself DEF Stages
<1>5. ASSUME NEW n \in Nat, n + 1 <= Len(secrets), Hidden(n) PROVE Hidden(n + 1)
  <2>1. n \in 0..Len(secrets) /\ n + 1 \in 1..Len(secrets) /\ n + 1 \in 0..Len(secrets)
    BY <1>2, <1>5
  <2>2. f[n] \in Seq(Cell) /\ f[n + 1] \in Seq(Cell) /\ Masks(f[n], cells)
    BY <1>3, <1>5, <2>1
  <2>3. f[n + 1] = Replaced(f[n], secrets[n + 1])
    BY <1>1, <2>1 DEF Stages
  <2>4. /\ Masks(f[n + 1], f[n])
        /\ \A i \in 1..Len(f[n]) : ~ OccursAt(secrets[n + 1], i, f[n + 1])
    BY <1>2, <2>1, <2>2, <2>3, ReplacedHides
  <2>5. Len(f[n]) = Len(cells)
    BY <2>2 DEF Masks
  <2>6. Masks(f[n + 1], cells)
    BY <2>2, <2>4, MasksOfMasks
  <2>7. ASSUME NEW j \in 1..(n + 1), NEW i \in 1..Len(cells),
               OccursAt(secrets[j], i, f[n + 1])
        PROVE  FALSE
    <3>1. CASE j = n + 1
      BY <2>4, <2>5, <2>7, <3>1
    <3>2. CASE j \in 1..n
      <4>1. secrets[j] \in Seq(Char) /\ i \in 1..Len(f[n])
        BY <1>2, <1>5, <2>5, <3>2
      <4>2. OccursAt(secrets[j], i, f[n])
        BY <2>2, <2>4, <2>7, <4>1, MaskedOccurs
      <4> QED BY <1>5, <3>2, <4>2
    <3> QED BY <3>1, <3>2
  <2> QED BY <2>6, <2>7
<1>6. Hidden(Len(secrets))
  <2> HIDE DEF Hidden
  <2>1. S \in SUBSET Nat /\ 0 \in S
    BY <1>4
  <2>2. ASSUME NEW n \in S PROVE n + 1 \in S
    BY <1>2, <1>5
  <2>3. Len(secrets) \in S => Hidden(Len(secrets))
    BY <1>2
  <2> HIDE DEF S
  <2> QED BY <1>2, <2>1, <2>2, <2>3, Inducts
<1>7. Len(secrets) \in 0..Len(secrets)
  BY <1>2
<1>8. ASSUME NEW v \in Range(secrets) PROVE \E j \in 1..Len(secrets) : v = secrets[j]
  BY <1>2 DEF Range
<1> QED BY <1>1, <1>3, <1>6, <1>7, <1>8

-----------------------------------------------------------------------------
(* Holding back.                                                           *)

LEMMA Room == /\ Max({1, MaxLen}) \in Nat
              /\ 1 <= Max({1, MaxLen}) /\ MaxLen <= Max({1, MaxLen})
<1>1. MaxLen \in Nat
  BY MaxLenBounds
<1>2. {1, MaxLen} \in SUBSET Nat /\ \A x \in {1, MaxLen} : x <= MaxLen + 1
  BY <1>1
<1>3. /\ Max({1, MaxLen}) \in {1, MaxLen}
      /\ \A y \in {1, MaxLen} : y <= Max({1, MaxLen})
  BY <1>1, <1>2, GreatestOf
<1> QED BY <1>1, <1>3

\* What is held back leaves room, and whatever may still become a secret is in
\* it.
LEMMA HeldBack ==
  ASSUME secrets \in Orders, NEW cells \in Seq(Cell)
  PROVE  /\ Held(cells) \in 0..Len(cells)
         /\ Held(cells) < Max({1, MaxLen})
         /\ \A v \in Range(secrets) : \A i \in 1..Len(cells) :
              Begins(v, i, cells) /\ i + Len(v) - 1 > Len(cells)
                => Len(cells) - i + 1 <= Held(cells)
<1> DEFINE most == Min({MaxLen - 1, Len(cells)})
           L == {0} \cup {l \in 1..most :
                  \E s \in Range(secrets) :
                    l <= Len(s) /\ OccursAt(SubSeq(s, 1, l), Len(cells) - l + 1, cells)}
<1>1. MaxLen \in Nat /\ Len(cells) \in Nat
  BY MaxLenBounds
<1>2. /\ most \in {MaxLen - 1, Len(cells)}
      /\ most <= MaxLen - 1 /\ most <= Len(cells)
  <2> DEFINE m == MaxLen - 1
  <2>1. m \in Int /\ Len(cells) \in Int
    BY <1>1
  <2> HIDE DEF m
  <2>2. Min({m, Len(cells)}) \in {m, Len(cells)}
        /\ Min({m, Len(cells)}) <= m /\ Min({m, Len(cells)}) <= Len(cells)
    BY <2>1, LeastOfTwo
  <2> QED BY <2>2 DEF m
<1> HIDE DEF most
<1>3. /\ L \in SUBSET Nat /\ 0 \in L
      /\ \A l \in L : l <= Len(cells) /\ (l = 0 \/ l <= MaxLen - 1)
  BY <1>1, <1>2
<1>4. Held(cells) = Max(L)
  BY DEF Held, most
<1>5. Held(cells) \in L /\ \A l \in L : l <= Held(cells)
  <2> HIDE DEF L
  <2> QED BY <1>1, <1>3, <1>4, GreatestOf
<1>6. Held(cells) < Max({1, MaxLen})
  BY <1>1, <1>3, <1>5, Room
<1>7. ASSUME NEW v \in Range(secrets), NEW i \in 1..Len(cells),
             Begins(v, i, cells), i + Len(v) - 1 > Len(cells)
      PROVE  Len(cells) - i + 1 <= Held(cells)
  <2> DEFINE l == Len(cells) - i + 1
             w == SubSeq(v, 1, l)
  <2>1. v \in Valid /\ v \in Seq(Char) /\ Len(v) \in Nat /\ Len(v) <= MaxLen
    BY OrdersText, ValidText, MaxLenBounds
  <2>2. l \in 1..Len(v) /\ l <= most
    BY <1>1, <1>2, <1>7, <2>1
  <2>3. w \in Seq(Char) /\ Len(w) = l /\ \A j \in 1..l : w[j] = v[j]
    <3>1. \A j \in 1..l : v[j] \in Char
      BY <2>1, <2>2
    <3> HIDE DEF l
    <3> QED BY <2>1, <2>2, <3>1, SubSeqProperties
  <2>4. OccursAt(w, Len(cells) - l + 1, cells)
    <3>1. Len(cells) - l + 1 = i /\ DOMAIN w = 1..l /\ i + Len(w) - 1 = Len(cells)
      BY <1>1, <2>3
    <3>2. ASSUME NEW j \in DOMAIN w
          PROVE  cells[i + j - 1] = [char |-> w[j], as |-> "plain"]
      <4>1. j \in 1..l /\ j \in DOMAIN v /\ i + j - 1 <= Len(cells)
        BY <1>1, <2>1, <2>2, <3>1
      <4>2. cells[i + j - 1] = [char |-> v[j], as |-> "plain"]
        BY <1>7, <4>1 DEF Begins
      <4> QED BY <2>3, <4>1, <4>2
    <3> HIDE DEF l, w
    <3> QED BY <1>1, <3>1, <3>2 DEF OccursAt
  <2>5. l \in L
    <3>1. l \in 1..most
      BY <1>1, <1>2, <2>2
    <3>2. l <= Len(v)
      BY <2>2
    <3> HIDE DEF l
    <3> QED BY <2>4, <3>1, <3>2
  <2> QED BY <1>5, <2>5
<1>8. Held(cells) \in 0..Len(cells)
  BY <1>1, <1>3, <1>5
<1> QED BY <1>6, <1>7, <1>8

-----------------------------------------------------------------------------
(* Characters.                                                             *)

LEMMA CellsRegrouped == \A s, t, u \in Seq(Cell) : (s \o t) \o u = s \o (t \o u)
BY ConcatAssociative, SMT

LEMMA CharsRegrouped == \A s, t, u \in Seq(Char) : (s \o t) \o u = s \o (t \o u)
BY ConcatAssociative, SMT

LEMMA CharsText ==
  ASSUME NEW c \in Seq(Cell)
  PROVE  /\ Chars(c) \in Seq(Char) /\ Len(Chars(c)) = Len(c)
         /\ \A i \in 1..Len(c) : Chars(c)[i] = c[i].char
<1>1. Len(c) \in Nat /\ DOMAIN c = 1..Len(c)
  OBVIOUS
<1>2. ASSUME NEW i \in 1..Len(c) PROVE c[i].char \in Char
  <2>1. c[i] \in Cell
    OBVIOUS
  <2> QED BY <2>1 DEF Cell
<1>3. Chars(c) = [i \in 1..Len(c) |-> c[i].char]
  BY <1>1 DEF Chars
<1> QED BY <1>1, <1>2, <1>3

LEMMA PlainText ==
  ASSUME NEW p \in Seq(Char)
  PROVE  Plain(p) \in Seq(Cell) /\ Len(Plain(p)) = Len(p) /\ Chars(Plain(p)) = p
<1>1. Len(p) \in Nat /\ DOMAIN p = 1..Len(p)
  OBVIOUS
<1>2. ASSUME NEW i \in 1..Len(p) PROVE [char |-> p[i], as |-> "plain"] \in Cell
  <2>1. p[i] \in Char
    OBVIOUS
  <2> QED BY <2>1 DEF Cell
<1>3. Plain(p) = [i \in 1..Len(p) |-> [char |-> p[i], as |-> "plain"]]
  BY <1>1 DEF Plain
<1>4. Plain(p) \in Seq(Cell) /\ Len(Plain(p)) = Len(p)
  BY <1>1, <1>2, <1>3
<1>5. \A i \in 1..Len(p) : Plain(p)[i].char = p[i]
  BY <1>3
<1>6. Chars(Plain(p)) = p
  <2>1. /\ Chars(Plain(p)) \in Seq(Char) /\ Len(Chars(Plain(p))) = Len(p)
        /\ \A i \in 1..Len(p) : Chars(Plain(p))[i] = p[i]
    BY <1>4, <1>5, CharsText
  <2> QED BY <2>1, SeqEqual
<1> QED BY <1>4, <1>6

LEMMA CharsMasked ==
  ASSUME NEW c \in Seq(Cell), NEW d \in Seq(Cell), Masks(d, c)
  PROVE  Chars(d) = Chars(c)
<1>1. /\ Chars(c) \in Seq(Char) /\ Chars(d) \in Seq(Char)
      /\ Len(Chars(c)) = Len(c) /\ Len(Chars(d)) = Len(c)
      /\ \A i \in 1..Len(c) : Chars(d)[i] = Chars(c)[i]
  BY CharsText DEF Masks
<1> QED BY <1>1, SeqEqual

LEMMA CharsJoined ==
  ASSUME NEW c \in Seq(Cell), NEW d \in Seq(Cell)
  PROVE  Chars(c \o d) = Chars(c) \o Chars(d)
<1>1. /\ c \o d \in Seq(Cell) /\ Len(c \o d) = Len(c) + Len(d)
      /\ \A i \in 1..Len(c) + Len(d) :
           (c \o d)[i] = IF i <= Len(c) THEN c[i] ELSE d[i - Len(c)]
  BY ConcatProperties
<1>2. /\ Chars(c \o d) \in Seq(Char) /\ Len(Chars(c \o d)) = Len(c) + Len(d)
      /\ \A i \in 1..Len(c) + Len(d) : Chars(c \o d)[i] = (c \o d)[i].char
  BY <1>1, CharsText
<1>3. /\ Chars(c) \in Seq(Char) /\ Len(Chars(c)) = Len(c)
      /\ \A i \in 1..Len(c) : Chars(c)[i] = c[i].char
      /\ Chars(d) \in Seq(Char) /\ Len(Chars(d)) = Len(d)
      /\ \A i \in 1..Len(d) : Chars(d)[i] = d[i].char
  BY CharsText
<1>4. /\ Chars(c) \o Chars(d) \in Seq(Char)
      /\ Len(Chars(c) \o Chars(d)) = Len(c) + Len(d)
      /\ \A i \in 1..Len(c) + Len(d) :
           (Chars(c) \o Chars(d))[i] = IF i <= Len(c) THEN Chars(c)[i]
                                       ELSE Chars(d)[i - Len(c)]
  <2> DEFINE a == Chars(c)
             b == Chars(d)
  <2>1. a \in Seq(Char) /\ b \in Seq(Char) /\ Len(a) = Len(c) /\ Len(b) = Len(d)
    BY <1>3
  <2> HIDE DEF a, b
  <2>2. /\ a \o b \in Seq(Char)
        /\ Len(a \o b) = Len(c) + Len(d)
        /\ \A i \in 1..Len(c) + Len(d) :
             (a \o b)[i] = IF i <= Len(c) THEN a[i] ELSE b[i - Len(c)]
    <3>1. /\ a \o b \in Seq(Char)
          /\ Len(a \o b) = Len(a) + Len(b)
          /\ \A i \in 1..Len(a) + Len(b) :
               (a \o b)[i] = IF i <= Len(a) THEN a[i] ELSE b[i - Len(a)]
      BY <2>1, ConcatProperties
    <3> QED BY <2>1, <3>1
  <2> QED BY <2>2 DEF a, b
<1>5. ASSUME NEW i \in 1..Len(c) + Len(d)
      PROVE  Chars(c \o d)[i] = (Chars(c) \o Chars(d))[i]
  <2>1. Len(c) \in Nat /\ Len(d) \in Nat
    OBVIOUS
  <2>2. CASE i <= Len(c)
    <3>1. i \in 1..Len(c)
      BY <2>1, <2>2
    <3>2. (c \o d)[i] = c[i]
      BY <1>1, <2>2
    <3>3. (Chars(c) \o Chars(d))[i] = Chars(c)[i]
      BY <1>4, <2>2
    <3> QED BY <1>2, <1>3, <3>1, <3>2, <3>3
  <2>3. CASE ~(i <= Len(c))
    <3>1. i - Len(c) \in 1..Len(d)
      BY <2>1, <2>3
    <3>2. (c \o d)[i] = d[i - Len(c)]
      BY <1>1, <2>3
    <3>3. (Chars(c) \o Chars(d))[i] = Chars(d)[i - Len(c)]
      BY <1>4, <2>3
    <3> QED BY <1>2, <1>3, <3>1, <3>2, <3>3
  <2> QED BY <2>2, <2>3
<1> QED BY <1>2, <1>4, <1>5, SeqEqual

-----------------------------------------------------------------------------
(* Giving out: shown is followed by out, which hides at least as much of   *)
(* what was held back.                                                     *)

Continues(out, b) ==
  /\ Len(b) <= Len(out)
  /\ \A i \in 1..Len(b) : /\ out[i].char = b[i].char
                          /\ out[i].as = "plain" => b[i].as = "plain"

\* What may still become v from a place in what was shown, might before.
LEMMA BegunBefore ==
  ASSUME NEW past \in Seq(Cell), NEW b \in Seq(Cell), NEW out \in Seq(Cell),
         Continues(out, b), NEW v \in Seq(Char), NEW i \in 1..Len(past),
         Begins(v, i, past \o out)
  PROVE  Begins(v, i, past \o b)
<1>1. Len(past) \in Nat /\ Len(b) \in Nat /\ Len(out) \in Nat /\ Len(b) <= Len(out)
  BY DEF Continues
<1>2. /\ past \o b \in Seq(Cell) /\ Len(past \o b) = Len(past) + Len(b)
      /\ \A n \in 1..Len(past) + Len(b) :
           (past \o b)[n] = IF n <= Len(past) THEN past[n] ELSE b[n - Len(past)]
  BY ConcatProperties
<1>3. /\ past \o out \in Seq(Cell) /\ Len(past \o out) = Len(past) + Len(out)
      /\ \A n \in 1..Len(past) + Len(out) :
           (past \o out)[n] = IF n <= Len(past) THEN past[n] ELSE out[n - Len(past)]
  BY ConcatProperties
<1>4. ASSUME NEW j \in DOMAIN v, i + j - 1 <= Len(past) + Len(b)
      PROVE  (past \o b)[i + j - 1] = [char |-> v[j], as |-> "plain"]
  <2> DEFINE n == i + j - 1
  <2>1. j \in Nat /\ j >= 1
    OBVIOUS
  <2>2. n \in 1..Len(past) + Len(b) /\ n \in 1..Len(past) + Len(out)
    BY <1>1, <1>4, <2>1
  <2>3. (past \o out)[n] = [char |-> v[j], as |-> "plain"]
    BY <1>3, <2>2 DEF Begins
  <2> HIDE DEF n
  <2>4. CASE n <= Len(past)
    BY <1>2, <1>3, <2>2, <2>3, <2>4 DEF n
  <2>5. CASE ~(n <= Len(past))
    <3> DEFINE m == n - Len(past)
    <3>1. m \in 1..Len(b) /\ (past \o b)[n] = b[m] /\ (past \o out)[n] = out[m]
      BY <1>1, <1>2, <1>3, <2>2, <2>5
    <3> HIDE DEF m
    <3>2. out[m] = [char |-> v[j], as |-> "plain"]
      BY <2>3, <3>1
    <3>3. b[m].char = v[j] /\ b[m].as = "plain"
      BY <3>1, <3>2 DEF Continues
    <3>4. b[m] \in Cell
      BY <3>1
    <3>5. b[m] = [char |-> v[j], as |-> "plain"]
      BY <3>3, <3>4 DEF Cell
    <3> QED BY <3>1, <3>5 DEF n
  <2> QED BY <2>4, <2>5
<1> QED BY <1>2, <1>4 DEF Begins

\* What may still become v from a place in out has its end to come, if v does
\* not stand in out.
LEMMA BegunNow ==
  ASSUME NEW past \in Seq(Cell), NEW out \in Seq(Cell), NEW v \in Seq(Char),
         NEW i \in 1..Len(past) + Len(out), i > Len(past),
         Begins(v, i, past \o out),
         \A j \in 1..Len(out) : ~ OccursAt(v, j, out)
  PROVE  /\ i - Len(past) \in 1..Len(out)
         /\ Begins(v, i - Len(past), out)
         /\ i + Len(v) - 1 > Len(past) + Len(out)
<1>1. Len(past) \in Nat /\ Len(out) \in Nat /\ Len(v) \in Nat
  OBVIOUS
<1>2. /\ Len(past \o out) = Len(past) + Len(out)
      /\ \A n \in 1..Len(past) + Len(out) :
           (past \o out)[n] = IF n <= Len(past) THEN past[n] ELSE out[n - Len(past)]
  BY ConcatProperties
<1> DEFINE q == i - Len(past)
<1>3. q \in 1..Len(out)
  BY <1>1
<1>4. ASSUME NEW j \in DOMAIN v, q + j - 1 <= Len(out)
      PROVE  out[q + j - 1] = [char |-> v[j], as |-> "plain"]
  <2>1. j \in Nat /\ j >= 1
    OBVIOUS
  <2>2. /\ i + j - 1 \in 1..Len(past) + Len(out)
        /\ ~(i + j - 1 <= Len(past))
        /\ (i + j - 1) - Len(past) = q + j - 1
    BY <1>1, <1>4, <2>1
  <2>3. (past \o out)[i + j - 1] = [char |-> v[j], as |-> "plain"]
    BY <1>2, <2>2 DEF Begins
  <2> QED BY <1>2, <2>2, <2>3
<1>5. Begins(v, q, out)
  BY <1>4 DEF Begins
<1>6. i + Len(v) - 1 > Len(past) + Len(out)
  <2> SUFFICES ASSUME i + Len(v) - 1 <= Len(past) + Len(out) PROVE FALSE
    BY <1>1
  <2>1. q + Len(v) - 1 <= Len(out)
    BY <1>1
  <2>2. \A j \in DOMAIN v : q + j - 1 <= Len(out)
    BY <1>1, <1>3, <2>1
  <2>3. OccursAt(v, q, out)
    BY <1>4, <2>1, <2>2 DEF OccursAt
  <2> QED BY <1>3, <2>3
<1> QED BY <1>3, <1>5, <1>6

-----------------------------------------------------------------------------
(* The actions.                                                            *)

LEMMA InitHolds == Init => IInv
<1> SUFFICES ASSUME Init PROVE IInv
  OBVIOUS
<1>1. shown \o buf = <<>> /\ Len(<<>>) = 0
  BY DEF Init
<1>2. TypeOK
  <2>1. Len(buf) < Max({1, MaxLen})
    BY <1>1, Room DEF Init
  <2> QED BY <2>1, RedactAssumption DEF Init, TypeOK, RedactAssumption
<1>3. NothingLost
  BY <1>1 DEF Init, NothingLost, Chars
<1>4. Timely /\ Buffered /\ NoneOpen
  BY <1>1 DEF Init, Timely, Buffered, NoneOpen
<1> QED BY <1>2, <1>3, <1>4 DEF IInv

\* A write without secrets is shown at once.
LEMMA PassesThrough ==
  ASSUME IInv, NEW p \in Chunk, Write(p), secrets = <<>>
  PROVE  IInv'
<1>1. /\ p \in Seq(Char) /\ Len(p) >= 1 /\ given' = given \o p
      /\ given \in Seq(Char) /\ Len(given) + Len(p) <= MaxText
  BY RedactAssumption DEF RedactAssumption, IInv, TypeOK, Write
<1>2. given' \in Seq(Char) /\ Len(given') = Len(given) + Len(p)
  BY <1>1, ConcatProperties
<1>3. Plain(p) \in Seq(Cell) /\ Chars(Plain(p)) = p
  BY <1>1, PlainText
<1>4. /\ shown' = IF target = "open" THEN shown \o Plain(p) ELSE shown
      /\ buf = <<>> /\ UNCHANGED <<secrets, buf, timer, fired, target, cuts>>
      /\ child' \in {child, "cut"} /\ child = "running"
  BY DEF IInv, Buffered, Write, Show, Copied
<1>5. shown \in Seq(Cell) /\ shown' \in Seq(Cell)
  BY <1>3, <1>4, ConcatProperties DEF IInv, TypeOK
<1>6. TypeOK'
  BY <1>1, <1>2, <1>4, <1>5 DEF IInv, TypeOK
<1>7. Timely' /\ Buffered'
  BY <1>1, <1>2, <1>4 DEF IInv, TypeOK, Timely, Buffered
<1>8. NothingLost'
  <2>1. ASSUME target = "open" PROVE Chars(shown' \o buf') = given'
    <3>1. shown \o buf = shown /\ shown' \o buf' = shown \o Plain(p)
      BY <1>4, <1>5, <2>1, ConcatEmptySeq
    <3>2. Chars(shown) = given
      BY <2>1, <3>1 DEF IInv, NothingLost
    <3> QED BY <1>1, <1>3, <1>5, <3>1, <3>2, CharsJoined
  <2> QED BY <1>4, <2>1 DEF NothingLost
<1>9. NoneOpen'
  <2>1. Range(secrets') = {}
    BY <1>4 DEF Range
  <2> QED BY <2>1 DEF NoneOpen
<1> QED BY <1>6, <1>7, <1>8, <1>9 DEF IInv

\* With secrets, the text is redacted and its end held back.
LEMMA WriteKeeps ==
  ASSUME IInv, NEW p \in Chunk, Write(p), secrets # <<>>
  PROVE  IInv'
<1> DEFINE text == buf \o Plain(p)
           out == Redacted(text)
           safe == Len(out) - Held(out)
           front == SubSeq(out, 1, safe)
           tail == SubSeq(out, safe + 1, Len(out))
<1>1. /\ p \in Seq(Char) /\ Len(p) >= 1 /\ given' = given \o p
      /\ given \in Seq(Char) /\ Len(given) + Len(p) <= MaxText
  BY RedactAssumption DEF RedactAssumption, IInv, TypeOK, Write
<1>2. given' \in Seq(Char) /\ Len(given') = Len(given) + Len(p)
  BY <1>1, ConcatProperties
<1>3. /\ Plain(p) \in Seq(Cell) /\ Len(Plain(p)) = Len(p) /\ Chars(Plain(p)) = p
      /\ buf \in Seq(Cell) /\ shown \in Seq(Cell) /\ secrets \in Orders
  BY <1>1, PlainText DEF IInv, TypeOK
<1>4. /\ text \in Seq(Cell) /\ Len(text) = Len(buf) + Len(p)
      /\ \A i \in 1..Len(buf) : text[i] = buf[i]
      /\ Chars(text) = Chars(buf) \o p
  <2>1. /\ text \in Seq(Cell) /\ Len(text) = Len(buf) + Len(Plain(p))
        /\ \A i \in 1..Len(buf) + Len(Plain(p)) :
             text[i] = IF i <= Len(buf) THEN buf[i] ELSE Plain(p)[i - Len(buf)]
    BY <1>3, ConcatProperties
  <2>2. Chars(text) = Chars(buf) \o p
    BY <1>3, CharsJoined
  <2> HIDE DEF text
  <2>3. \A i \in 1..Len(buf) : text[i] = buf[i]
    BY <1>1, <1>3, <2>1
  <2> QED BY <1>3, <2>1, <2>2, <2>3
<1> HIDE DEF text
<1>5. /\ out \in Seq(Cell) /\ Masks(out, text) /\ Len(out) = Len(text)
      /\ \A v \in Range(secrets) : \A i \in 1..Len(out) : ~ OccursAt(v, i, out)
  BY <1>3, <1>4, RedactedHides DEF Masks
<1>6. Continues(out, buf)
  BY <1>1, <1>3, <1>4, <1>5 DEF Masks, Continues
<1>7. /\ buf' = tail
      /\ shown' = IF target = "open" THEN shown \o front ELSE shown
      /\ child' = IF safe > 0 /\ target = "closed" THEN "cut" ELSE child
      /\ timer' \in {"off", "armed"}
      /\ UNCHANGED <<secrets, fired, target, cuts>>
      /\ child = "running"
  BY DEF Write, Show, Copied, text
<1> HIDE DEF out
<1>8. /\ Held(out) \in 0..Len(out) /\ Held(out) < Max({1, MaxLen})
      /\ \A v \in Range(secrets) : \A i \in 1..Len(out) :
           Begins(v, i, out) /\ i + Len(v) - 1 > Len(out)
             => Len(out) - i + 1 <= Held(out)
  BY <1>3, <1>5, HeldBack
<1>9. safe \in 0..Len(out) /\ Len(out) - safe = Held(out)
  BY <1>5, <1>8
<1> HIDE DEF safe
<1>10. /\ front \in Seq(Cell) /\ Len(front) = safe
       /\ tail \in Seq(Cell) /\ Len(tail) = Held(out)
       /\ front \o tail = out
  <2>1. safe \in Int /\ safe + 1 \in Int /\ Len(out) \in Int /\ 1 \in Int
    BY <1>5, <1>9
  <2>2. /\ \A i \in 1..safe : out[i] \in Cell
        /\ \A i \in (safe + 1)..Len(out) : out[i] \in Cell
    BY <1>5, <1>9
  <2>3. front \in Seq(Cell) /\ Len(front) = IF 1 <= safe THEN safe - 1 + 1 ELSE 0
    BY <2>1, <2>2, SubSeqProperties
  <2>4. /\ tail \in Seq(Cell)
        /\ Len(tail) = IF safe + 1 <= Len(out) THEN Len(out) - (safe + 1) + 1 ELSE 0
    BY <2>1, <2>2, SubSeqProperties
  <2>5. front \o tail = out
    <3>1. 1 \in 1..(Len(out) + 1) /\ safe \in (1 - 1)..Len(out) /\ Len(out) \in safe..Len(out)
      BY <1>5, <1>9
    <3>2. SubSeq(out, 1, safe) \o SubSeq(out, safe + 1, Len(out)) = SubSeq(out, 1, Len(out))
      BY <1>5, <3>1, ConcatAdjacentSubSeq
    <3> QED BY <1>5, <3>2, SubSeqFull
  <2> HIDE DEF front, tail
  <2> QED BY <1>5, <1>9, <2>3, <2>4, <2>5
<1> HIDE DEF front, tail
<1>11. shown' \in Seq(Cell) /\ buf' \in Seq(Cell)
  BY <1>3, <1>7, <1>10, ConcatProperties
<1>12. ASSUME target = "open"
       PROVE  shown' \o buf' = shown \o out /\ shown' = shown \o front
  <2>1. shown' = shown \o front /\ buf' = tail
    BY <1>7, <1>12
  <2>2. (shown \o front) \o tail = shown \o (front \o tail)
    <3>1. shown \in Seq(Cell) /\ front \in Seq(Cell) /\ tail \in Seq(Cell)
      BY <1>3, <1>10
    <3> QED BY <3>1, CellsRegrouped, Zenon
  <2> QED BY <1>10, <2>1, <2>2
<1>13. TypeOK'
  BY <1>1, <1>2, <1>7, <1>8, <1>10, <1>11 DEF IInv, TypeOK
<1>14. Timely' /\ Buffered'
  <2>1. Len(buf') <= Len(buf) + Len(p)
    BY <1>1, <1>4, <1>5, <1>7, <1>8, <1>10
  <2>2. Buffered'
    BY <1>1, <1>2, <1>3, <1>7, <2>1 DEF IInv, Buffered
  <2>3. Timely'
    BY <1>1, <1>2, <1>7 DEF IInv, TypeOK, Timely
  <2> QED BY <2>2, <2>3
<1>15. NothingLost'
  <2>1. ASSUME target = "open" PROVE Chars(shown' \o buf') = given'
    <3> DEFINE a == Chars(shown)
               b == Chars(buf)
    <3>1. Chars(out) = b \o p
      BY <1>4, <1>5, CharsMasked
    <3>2. Chars(shown \o out) = a \o (b \o p)
      BY <1>3, <1>5, <3>1, CharsJoined
    <3>3. a \o b = given
      BY <1>3, <2>1, CharsJoined DEF IInv, NothingLost
    <3>4. a \in Seq(Char) /\ b \in Seq(Char)
      BY <1>3, CharsText
    <3> HIDE DEF a, b
    <3>5. a \o (b \o p) = (a \o b) \o p
      <4>1. a \in Seq(Char) /\ b \in Seq(Char) /\ p \in Seq(Char)
        BY <1>1, <3>4
      <4> QED BY <4>1, CharsRegrouped, Zenon
    <3> QED BY <1>1, <1>12, <2>1, <3>2, <3>3, <3>5
  <2> QED BY <1>7, <2>1 DEF NothingLost
<1>16. NoneOpen'
  <2> SUFFICES ASSUME target = "open", NEW v \in Range(secrets),
                      NEW i \in 1..Len(shown'), Begins(v, i, shown' \o buf')
               PROVE  \E k \in cuts : i <= k /\ k < i + Len(v) - 1
    BY <1>7 DEF NoneOpen
  <2>1. v \in Seq(Char)
    BY <1>3, OrdersText, ValidText
  <2>2. Begins(v, i, shown \o out) /\ Len(shown') = Len(shown) + safe
    BY <1>3, <1>10, <1>12, ConcatProperties
  <2>3. CASE i <= Len(shown)
    <3>1. i \in 1..Len(shown)
      BY <1>3, <1>11, <2>3
    <3>2. Begins(v, i, shown \o buf)
      BY <1>3, <1>5, <1>6, <2>1, <2>2, <3>1, BegunBefore
    <3> QED BY <1>7, <3>1, <3>2 DEF IInv, NoneOpen
  <2>4. CASE i > Len(shown)
    <3>1. i \in 1..Len(shown) + Len(out)
      BY <1>3, <1>5, <1>9, <2>2
    <3>2. /\ i - Len(shown) \in 1..Len(out)
          /\ Begins(v, i - Len(shown), out)
          /\ i + Len(v) - 1 > Len(shown) + Len(out)
      BY <1>3, <1>5, <2>1, <2>2, <2>4, <3>1, BegunNow
    <3>3. Len(out) - (i - Len(shown)) + 1 <= Held(out)
      <4>1. (i - Len(shown)) + Len(v) - 1 > Len(out)
        BY <1>3, <1>5, <2>1, <3>2
      <4> QED BY <1>8, <3>2, <4>1
    <3>4. i <= Len(shown) + safe
      BY <2>2
    <3> QED BY <1>3, <1>5, <1>8, <1>9, <3>1, <3>3, <3>4
  <2> QED BY <1>3, <2>2, <2>3, <2>4
<1> QED BY <1>13, <1>14, <1>15, <1>16 DEF IInv

\* What the timer and Flush share: all that was held back is given out.  A
\* place from which a secret may still become whole was one before, or the
\* text ends within the secret.
LEMMA TailGivenOut ==
  ASSUME IInv, Show(Redacted(buf)), buf' = <<>>, UNCHANGED <<secrets, given, target>>
  PROVE  /\ shown' \in Seq(Cell)
         /\ target = "open" => Chars(shown' \o buf') = given
         /\ target = "open" =>
              \A v \in Range(secrets) : \A i \in 1..Len(shown') :
                Begins(v, i, shown' \o buf') =>
                  \/ i \in 1..Len(shown) /\ Begins(v, i, shown \o buf)
                  \/ i <= Len(given) /\ i + Len(v) - 1 > Len(given)
         /\ target = "open" => Len(shown') = Len(given)
<1> DEFINE out == Redacted(buf)
<1>1. buf \in Seq(Cell) /\ shown \in Seq(Cell) /\ secrets \in Orders
  BY DEF IInv, TypeOK
<1>2. /\ out \in Seq(Cell) /\ Masks(out, buf) /\ Len(out) = Len(buf)
      /\ \A v \in Range(secrets) : \A i \in 1..Len(out) : ~ OccursAt(v, i, out)
  BY <1>1, RedactedHides DEF Masks
<1>3. Continues(out, buf)
  BY <1>1, <1>2 DEF Masks, Continues
<1>4. shown' = IF target = "open" THEN shown \o out ELSE shown
  BY DEF Show
<1> HIDE DEF out
<1>5. shown' \in Seq(Cell)
  BY <1>1, <1>2, <1>4, ConcatProperties
<1>6. ASSUME target = "open"
      PROVE  /\ shown' = shown \o out /\ shown' \o buf' = shown \o out
             /\ Len(shown') = Len(shown) + Len(out)
  <2>1. shown' \o buf' = shown'
    BY <1>5, ConcatEmptySeq
  <2> QED BY <1>1, <1>2, <1>4, <1>6, <2>1, ConcatProperties
<1>7. ASSUME target = "open"
      PROVE  Chars(shown' \o buf') = given /\ Len(shown') = Len(given)
  <2>1. Chars(shown \o buf) = given
    BY <1>7 DEF IInv, NothingLost
  <2>2. Chars(shown \o out) = given
    <3>1. Chars(out) = Chars(buf)
      BY <1>1, <1>2, CharsMasked
    <3>2. Chars(shown \o buf) = Chars(shown) \o Chars(buf)
      BY <1>1, CharsJoined
    <3>3. Chars(shown \o out) = Chars(shown) \o Chars(out)
      BY <1>1, <1>2, CharsJoined
    <3> QED BY <2>1, <3>1, <3>2, <3>3
  <2>3. shown \o out \in Seq(Cell)
    BY <1>5, <1>6, <1>7
  <2> QED BY <1>6, <1>7, <2>2, <2>3, CharsText
<1>8. ASSUME target = "open", NEW v \in Range(secrets), NEW i \in 1..Len(shown'),
             Begins(v, i, shown' \o buf')
      PROVE  \/ i \in 1..Len(shown) /\ Begins(v, i, shown \o buf)
             \/ i <= Len(given) /\ i + Len(v) - 1 > Len(given)
  <2>1. v \in Seq(Char) /\ Begins(v, i, shown \o out)
    BY <1>1, <1>6, <1>8, OrdersText, ValidText
  <2>2. Len(shown) \in Nat /\ Len(out) \in Nat
    BY <1>1, <1>2
  <2>3. CASE i <= Len(shown)
    <3>1. i \in 1..Len(shown)
      BY <2>2, <2>3
    <3> QED BY <1>1, <1>2, <1>3, <2>1, <3>1, BegunBefore
  <2>4. CASE i > Len(shown)
    <3>1. i \in 1..Len(shown) + Len(out)
      BY <1>6, <1>8
    <3>2. i + Len(v) - 1 > Len(shown) + Len(out)
      BY <1>1, <1>2, <2>1, <2>4, <3>1, BegunNow
    <3> QED BY <1>6, <1>7, <1>8, <3>1, <3>2
  <2> QED BY <2>2, <2>3, <2>4
<1> QED BY <1>5, <1>7, <1>8

LEMMA GivingOutKeeps ==
  ASSUME IInv, Callback
  PROVE  IInv'
<1>1. /\ fired > 0 /\ fired' = fired - 1
      /\ UNCHANGED <<secrets, given, timer, child, target>>
  BY DEF Callback
<1>2. fired' \in 0..MaxText /\ Timely'
  <2>1. MaxText \in Nat /\ fired \in 0..MaxText /\ Len(given) \in Nat
    BY RedactAssumption DEF RedactAssumption, IInv, TypeOK
  <2> QED BY <1>1, <2>1 DEF IInv, Timely
<1>3. CASE buf = <<>>
  <2>1. UNCHANGED <<shown, buf, cuts>>
    BY <1>3 DEF Callback
  <2>2. TypeOK' /\ Timely'
    BY <1>1, <1>2, <2>1 DEF IInv, TypeOK
  <2>3. Buffered' /\ NothingLost' /\ NoneOpen'
    BY <1>1, <2>1 DEF IInv, Buffered, NothingLost, NoneOpen
  <2> QED BY <2>2, <2>3 DEF IInv
<1>4. CASE buf # <<>>
  <2>1. /\ Show(Redacted(buf)) /\ buf' = <<>>
        /\ cuts' = cuts \cup {Len(given)}
    BY <1>4 DEF Callback
  <2>2. /\ shown' \in Seq(Cell)
        /\ target = "open" => Chars(shown' \o buf') = given
        /\ target = "open" =>
             \A v \in Range(secrets) : \A i \in 1..Len(shown') :
               Begins(v, i, shown' \o buf') =>
                 \/ i \in 1..Len(shown) /\ Begins(v, i, shown \o buf)
                 \/ i <= Len(given) /\ i + Len(v) - 1 > Len(given)
    BY <1>1, <2>1, TailGivenOut
  <2>3. Len(given) \in 1..MaxText
    BY <1>4 DEF IInv, TypeOK, Buffered
  <2>4. TypeOK'
    <3>1. buf' \in Seq(Cell) /\ Len(buf') < Max({1, MaxLen})
      BY <2>1, Room
    <3>2. cuts' \subseteq 1..MaxText
      BY <2>1, <2>3 DEF IInv, TypeOK
    <3> QED BY <1>1, <1>2, <2>2, <3>1, <3>2 DEF IInv, TypeOK
  <2>5. Timely' /\ Buffered'
    BY <1>1, <1>2, <2>1, <2>3 DEF IInv, Buffered
  <2>6. child # "done"
    BY <1>4 DEF IInv, NothingLost
  <2>7. NothingLost'
    BY <1>1, <2>1, <2>2 DEF NothingLost
  <2>8. NoneOpen'
    <3> SUFFICES ASSUME target = "open", NEW v \in Range(secrets),
                        NEW i \in 1..Len(shown'), Begins(v, i, shown' \o buf')
                 PROVE  \E k \in cuts' : i <= k /\ k < i + Len(v) - 1
      BY <1>1 DEF NoneOpen
    <3>1. CASE i \in 1..Len(shown) /\ Begins(v, i, shown \o buf)
      BY <2>1, <2>6, <3>1 DEF IInv, NoneOpen
    <3>2. CASE i <= Len(given) /\ i + Len(v) - 1 > Len(given)
      <4>1. Len(given) \in cuts'
        BY <2>1
      <4> QED BY <3>2, <4>1
    <3> QED BY <2>2, <3>1, <3>2
  <2> QED BY <2>4, <2>5, <2>7, <2>8 DEF IInv
<1> QED BY <1>3, <1>4

LEMMA FlushKeeps ==
  ASSUME IInv, Flush
  PROVE  IInv'
<1>1. /\ child = "exited" /\ child' = "done" /\ timer' = "off" /\ buf' = <<>>
      /\ Show(Redacted(buf))
      /\ UNCHANGED <<secrets, given, fired, target, cuts>>
  BY DEF Flush
<1>2. /\ shown' \in Seq(Cell)
      /\ target = "open" => Chars(shown' \o buf') = given
      /\ target = "open" =>
           \A v \in Range(secrets) : \A i \in 1..Len(shown') :
             Begins(v, i, shown' \o buf') =>
               \/ i \in 1..Len(shown) /\ Begins(v, i, shown \o buf)
               \/ i <= Len(given) /\ i + Len(v) - 1 > Len(given)
      /\ target = "open" => Len(shown') = Len(given)
  BY <1>1, TailGivenOut
<1>3. TypeOK'
  <2>1. buf' \in Seq(Cell) /\ Len(buf') < Max({1, MaxLen})
    BY <1>1, Room
  <2> QED BY <1>1, <1>2, <2>1 DEF IInv, TypeOK
<1>4. Timely' /\ Buffered'
  BY <1>1 DEF IInv, TypeOK, Timely, Buffered
<1>5. NothingLost'
  BY <1>1, <1>2 DEF NothingLost
<1>6. NoneOpen'
  <2> SUFFICES ASSUME target = "open", NEW v \in Range(secrets),
                      NEW i \in 1..Len(shown'), Begins(v, i, shown' \o buf'),
                      i + Len(v) - 1 <= Len(shown')
               PROVE  \E k \in cuts : i <= k /\ k < i + Len(v) - 1
    BY <1>1 DEF NoneOpen
  <2>1. ~(i + Len(v) - 1 > Len(given))
    <3>1. secrets \in Orders /\ Len(given) \in Nat
      BY DEF IInv, TypeOK
    <3>2. Len(v) \in Nat
      BY <3>1, OrdersText, ValidText
    <3> QED BY <1>2, <3>1, <3>2
  <2>2. i \in 1..Len(shown) /\ Begins(v, i, shown \o buf)
    BY <1>2, <2>1
  <2> QED BY <1>1, <2>2 DEF IInv, NoneOpen
<1> QED BY <1>3, <1>4, <1>5, <1>6 DEF IInv

LEMMA ExpireKeeps ==
  ASSUME IInv, Expire
  PROVE  IInv'
<1>1. /\ timer = "armed" /\ timer' = "off" /\ fired' = fired + 1
      /\ UNCHANGED <<secrets, given, shown, buf, child, target, cuts>>
  BY DEF Expire
<1>2. TypeOK' /\ Timely'
  <2>1. MaxText \in Nat /\ fired \in 0..MaxText /\ Len(given) \in Nat /\ Len(given) <= MaxText
    BY RedactAssumption DEF RedactAssumption, IInv, TypeOK
  <2>2. fired + 1 <= Len(given)
    BY <1>1 DEF IInv, Timely
  <2>3. fired' \in 0..MaxText /\ Timely'
    BY <1>1, <2>1, <2>2 DEF Timely
  <2> QED BY <1>1, <2>3 DEF IInv, TypeOK
<1>3. Buffered' /\ NothingLost' /\ NoneOpen'
  BY <1>1 DEF IInv, Buffered, NothingLost, NoneOpen
<1> QED BY <1>2, <1>3 DEF IInv

LEMMA ChildExitsKeeps ==
  ASSUME IInv, ChildExits
  PROVE  IInv'
<1>1. /\ child \in {"running", "cut"} /\ child' = "exited"
      /\ UNCHANGED <<secrets, given, shown, buf, timer, fired, target, cuts>>
  BY DEF ChildExits
<1>2. TypeOK' /\ Timely'
  BY <1>1 DEF IInv, TypeOK, Timely
<1>3. Buffered' /\ NothingLost' /\ NoneOpen'
  BY <1>1 DEF IInv, Buffered, NothingLost, NoneOpen
<1> QED BY <1>2, <1>3 DEF IInv

LEMMA TargetClosesKeeps ==
  ASSUME IInv, TargetCloses
  PROVE  IInv'
<1>1. /\ target' = "closed"
      /\ UNCHANGED <<secrets, given, shown, buf, timer, fired, child, cuts>>
  BY DEF TargetCloses
<1>2. TypeOK' /\ Timely'
  BY <1>1 DEF IInv, TypeOK, Timely
<1>3. Buffered' /\ NothingLost' /\ NoneOpen'
  BY <1>1 DEF IInv, Buffered, NothingLost, NoneOpen
<1> QED BY <1>2, <1>3 DEF IInv

LEMMA StepHolds == IInv /\ [Next]_vars => IInv'
<1> SUFFICES ASSUME IInv, [Next]_vars PROVE IInv'
  OBVIOUS
<1>1. ASSUME NEW p \in Chunk, Write(p) PROVE IInv'
  BY <1>1, PassesThrough, WriteKeeps
<1>2. CASE Expire
  BY <1>2, ExpireKeeps
<1>3. CASE Callback
  BY <1>3, GivingOutKeeps
<1>4. CASE ChildExits
  BY <1>4, ChildExitsKeeps
<1>5. CASE Flush
  BY <1>5, FlushKeeps
<1>6. CASE TargetCloses
  BY <1>6, TargetClosesKeeps
<1>7. CASE UNCHANGED vars
  <2>1. UNCHANGED <<secrets, given, shown, buf, timer, fired, child, target, cuts>>
    BY <1>7 DEF vars
  <2>2. TypeOK' /\ Timely'
    BY <2>1 DEF IInv, TypeOK, Timely
  <2>3. Buffered' /\ NothingLost' /\ NoneOpen'
    BY <2>1 DEF IInv, Buffered, NothingLost, NoneOpen
  <2> QED BY <2>2, <2>3 DEF IInv
<1> QED BY <1>1, <1>2, <1>3, <1>4, <1>5, <1>6, <1>7 DEF Next

-----------------------------------------------------------------------------
(* The theorems.                                                           *)

LEMMA StreamInvariant == Spec => []IInv
BY InitHolds, StepHolds, PTL DEF Spec

\* Type correctness; in particular the buffer stays shorter than the longest
\* secret, and no more callbacks wait than there were writes.
THEOREM StreamTyped == Spec => []TypeOK
<1>1. IInv => TypeOK
  BY DEF IInv
<1> QED BY <1>1, StreamInvariant, PTL

\* Whatever the timer, the redaction and the order of the callbacks do, what
\* was shown and what is held back is what the child wrote.
THEOREM TextKept == Spec => []NothingLost
<1>1. IInv => NothingLost
  BY DEF IInv
<1> QED BY <1>1, StreamInvariant, PTL

\* However the output is cut into writes, a secret is shown whole only if the
\* timer gave out a part of it while the rest was still to come.
THEOREM SecretsStayHidden == Spec => []SecretsRedacted
<1>1. IInv => SecretsRedacted
  <2> SUFFICES ASSUME IInv, target = "open", NEW v \in Range(secrets),
                      NEW i \in 1..Len(shown), OccursAt(v, i, shown)
               PROVE  \E k \in cuts : i <= k /\ k < i + Len(v) - 1
    BY DEF SecretsRedacted, Bare
  <2>1. shown \in Seq(Cell) /\ buf \in Seq(Cell) /\ secrets \in Orders
    BY DEF IInv, TypeOK
  <2>2. v \in Seq(Char) /\ DOMAIN v = 1..Len(v) /\ Len(v) \in Nat
    BY <2>1, OrdersText, ValidText
  <2>3. \A n \in 1..Len(shown) : (shown \o buf)[n] = shown[n]
    BY <2>1, ConcatProperties
  <2>4. i + Len(v) - 1 <= Len(shown)
    BY DEF OccursAt
  <2>5. ASSUME NEW j \in DOMAIN v
        PROVE  (shown \o buf)[i + j - 1] = [char |-> v[j], as |-> "plain"]
    <3>1. i + j - 1 \in 1..Len(shown)
      BY <2>1, <2>2, <2>4
    <3> QED BY <2>3, <3>1 DEF OccursAt
  <2>6. Begins(v, i, shown \o buf)
    BY <2>5 DEF Begins
  <2> QED BY <2>4, <2>6 DEF IInv, NoneOpen
<1> QED BY <1>1, StreamInvariant, PTL

=============================================================================
