---------------------------- MODULE DaemonProofs ----------------------------
(***************************************************************************)
(* Proofs about a profile's daemon.                                        *)
(*                                                                         *)
(* The session, for every set of connections, keys, durations and bounds:  *)
(* it is whole, tokens and production confirmations do not outlive it, the *)
(* vault's key is stable, and DaemonSession implements SessionPromise.     *)
(*                                                                         *)
(* The secrets, for every set of paths, data and metadata, every limit and *)
(* every bound: versions are contiguous, and, where nobody copies,         *)
(* SecretHistory implements SecretVersions.                                *)
(***************************************************************************)
EXTENDS DaemonSessionProps, SecretHistory, TLAPS

USE KeyAssumption, DurationAssumption, OpAssumption, BoundAssumption
    DEF KeyAssumption, DurationAssumption, OpAssumption, BoundAssumption

(* A step either takes one of these forms or leaves everything alone. *)
LEMMA NextCases ==
  ASSUME Next
  PROVE  \/ \E c \in Client : Admit(c)
         \/ \E c \in Client : Hijacked(c)
         \/ \E c \in Client, k \in Key, ttl \in TTL \cup {Unset},
               grace \in Grace \cup {Unset} : Open(c, k, ttl, grace)
         \/ \E c \in Client : OpenFails(c)
         \/ \E c \in Client : Ping(c)
         \/ \E c \in Client, tok \in Token : RefuseLocked(c, tok)
         \/ \E c \in Client, tok \in Token : DenyToken(c, tok)
         \/ \E c \in Client, tok \in Token, op \in Op : Use(c, op, tok)
         \/ \E c \in Client, tok \in Token : UseFails(c, tok)
         \/ \E c \in Client, tok \in Token : ConfirmProd(c, tok)
         \/ \E c \in Client, tok \in Token : Clear(c, tok)
         \/ \E c \in Client, tok \in Token, ttl \in TTL \cup {Unset},
               grace \in Grace \cup {Unset} : Extend(c, tok, ttl, grace)
         \/ \E c \in Client, tok \in Token, ttl \in TTL \cup {Unset} :
               ExtendFails(c, tok, ttl)
         \/ TickerWake
         \/ TickerStop
         \/ SignalStop
         \/ Exit
         \/ Start
         \/ LoseSocket
         \/ Tick
  BY DEF Next, Request

-----------------------------------------------------------------------------
(* Type correctness: every reachable state of a daemon is well typed.      *)
THEOREM TypeCorrect == Spec => []TypeOK
<1>1. Init => TypeOK
  BY DEF Init, TypeOK, ReplyKinds, NoReply
<1>2. TypeOK /\ [Next]_vars => TypeOK'
  <2> SUFFICES ASSUME TypeOK, [Next]_vars
               PROVE  TypeOK'
    OBVIOUS
  <2> USE DEF TypeOK, ReplyKinds, NoReply, Token, envVars, procVars,
              wipedVars, limitVars, tokenVars
  <2>1. ASSUME NEW c \in Client, Admit(c) PROVE TypeOK'
    BY <2>1 DEF Admit
  <2>2. ASSUME NEW c \in Client, Hijacked(c) PROVE TypeOK'
    BY <2>2 DEF Hijacked, WipeMemory
  <2>3. ASSUME NEW c \in Client, NEW k \in Key, NEW ttl \in TTL \cup {Unset},
               NEW grace \in Grace \cup {Unset}, Open(c, k, ttl, grace)
        PROVE  TypeOK'
    BY <2>3 DEF Open, Answer
  <2>4. ASSUME NEW c \in Client, OpenFails(c) PROVE TypeOK'
    BY <2>4 DEF OpenFails, Answer, WipeMemory
  <2>5. ASSUME NEW c \in Client, Ping(c) PROVE TypeOK'
    BY <2>5 DEF Ping, Answer, WipeMemory
  <2>6. ASSUME NEW c \in Client, NEW tok \in Token, RefuseLocked(c, tok)
        PROVE  TypeOK'
    BY <2>6 DEF RefuseLocked, Answer, WipeMemory
  <2>7. ASSUME NEW c \in Client, NEW tok \in Token, DenyToken(c, tok)
        PROVE  TypeOK'
    BY <2>7 DEF DenyToken, Answer
  <2>8. ASSUME NEW c \in Client, NEW tok \in Token, NEW op \in Op,
               Use(c, op, tok)
        PROVE  TypeOK'
    BY <2>8 DEF Use, Answer
  <2>9. ASSUME NEW c \in Client, NEW tok \in Token, UseFails(c, tok)
        PROVE  TypeOK'
    BY <2>9 DEF UseFails, Answer
  <2>10. ASSUME NEW c \in Client, NEW tok \in Token, ConfirmProd(c, tok)
         PROVE  TypeOK'
    BY <2>10 DEF ConfirmProd, Answer
  <2>11. ASSUME NEW c \in Client, NEW tok \in Token, Clear(c, tok)
         PROVE  TypeOK'
    BY <2>11 DEF Clear, Answer, WipeMemory
  <2>12. ASSUME NEW c \in Client, NEW tok \in Token,
                NEW ttl \in TTL \cup {Unset}, NEW grace \in Grace \cup {Unset},
                Extend(c, tok, ttl, grace)
         PROVE  TypeOK'
    BY <2>12 DEF Extend, Answer
  <2>13. ASSUME NEW c \in Client, NEW tok \in Token,
                NEW ttl \in TTL \cup {Unset}, ExtendFails(c, tok, ttl)
         PROVE  TypeOK'
    BY <2>13 DEF ExtendFails, Answer
  <2>14. CASE TickerWake
    BY <2>14 DEF TickerWake, WipeMemory
  <2>15. CASE TickerStop
    BY <2>15 DEF TickerStop, Stop, WipeMemory
  <2>16. CASE SignalStop
    BY <2>16 DEF SignalStop, Stop, WipeMemory
  <2>17. CASE Exit
    BY <2>17 DEF Exit, WipeMemory
  <2>18. CASE Start
    BY <2>18 DEF Start, WipeMemory
  <2>19. CASE LoseSocket
    BY <2>19 DEF LoseSocket
  <2>20. CASE Tick
    BY <2>20 DEF Tick
  <2>21. CASE UNCHANGED vars
    BY <2>21 DEF vars
  <2> QED
    BY <2>1, <2>2, <2>3, <2>4, <2>5, <2>6, <2>7, <2>8, <2>9, <2>10, <2>11,
       <2>12, <2>13, <2>14, <2>15, <2>16, <2>17, <2>18, <2>19, <2>20, <2>21,
       NextCases
<1> QED
  BY <1>1, <1>2, PTL DEF Spec
-----------------------------------------------------------------------------
(* Every property of one state follows from one inductive invariant: the   *)
(* fields of a session come and go together, the key in memory is the      *)
(* vault's, and tokens only grow.                                          *)
LEMMA InvInit == Init => IInv
BY DEF Init, IInv, TypeOK, SessionWhole, KeyMatchesVault,
       ConfirmationNotInherited, StaleTokenRefused, ReplyKinds, NoReply

(* A step that wipes the session or leaves it alone, and answers nobody    *)
(* from the vault, keeps the invariant.                                    *)
LEMMA QuietStep ==
  ASSUME IInv, TypeOK',
         WipeMemory \/ UNCHANGED wipedVars,
         UNCHANGED <<vaultKey, issued, confirmedFor>>,
         now' >= now,
         reply'.kind \notin {"opened", "served", "extended",
                             "cleared"}
  PROVE  IInv'
<1> USE DEF IInv, TypeOK, Token, wipedVars, WipeMemory
<1>1. SessionWhole'
  BY DEF SessionWhole
<1>2. KeyMatchesVault'
  BY DEF KeyMatchesVault, SessionWhole
<1>3. ConfirmationNotInherited'
  BY DEF ConfirmationNotInherited, SessionWhole
<1>4. sessionToken' <= issued' /\ revoked' <= issued'
  BY DEF SessionWhole
<1>5. StaleTokenRefused'
  BY DEF StaleTokenRefused
<1> QED
  BY <1>1, <1>2, <1>3, <1>4, <1>5

(* The steps that touch the session otherwise: open, the operations of an  *)
(* unlocked session, confirm_prod, clear and extend.                       *)
LEMMA OpenStep ==
  ASSUME IInv, TypeOK', NEW c \in Client, NEW k \in Key,
         NEW ttl \in TTL \cup {Unset}, NEW grace \in Grace \cup {Unset},
         Open(c, k, ttl, grace)
  PROVE  IInv'
<1> USE DEF IInv, TypeOK, Open, Answer
<1>1. SessionWhole'
  BY DEF SessionWhole
<1>2. KeyMatchesVault'
  BY DEF KeyMatchesVault
<1>3. ConfirmationNotInherited'
  BY DEF ConfirmationNotInherited, SessionWhole
<1>4. sessionToken' <= issued' /\ revoked' <= issued'
  OBVIOUS
<1>5. StaleTokenRefused'
  BY DEF StaleTokenRefused
<1> QED
  BY <1>1, <1>2, <1>3, <1>4, <1>5

LEMMA UseStep ==
  ASSUME IInv, TypeOK', NEW c \in Client, NEW tok \in Token, NEW op \in Op,
         Use(c, op, tok)
  PROVE  IInv'
<1> USE DEF IInv, TypeOK, Use, Answer, Locked, limitVars
<1>1. SessionWhole'
  BY DEF SessionWhole
<1>2. KeyMatchesVault'
  BY DEF KeyMatchesVault
<1>3. ConfirmationNotInherited'
  BY DEF ConfirmationNotInherited
<1>4. StaleTokenRefused'
  BY DEF StaleTokenRefused, TokenAccepted
<1> QED
  BY <1>1, <1>2, <1>3, <1>4

LEMMA ConfirmProdStep ==
  ASSUME IInv, TypeOK', NEW c \in Client, NEW tok \in Token,
         ConfirmProd(c, tok)
  PROVE  IInv'
<1> USE DEF IInv, TypeOK, ConfirmProd, Answer, Locked, limitVars
<1>1. SessionWhole'
  BY DEF SessionWhole
<1>2. KeyMatchesVault' /\ ConfirmationNotInherited'
  BY DEF KeyMatchesVault, ConfirmationNotInherited
<1>3. StaleTokenRefused'
  BY DEF StaleTokenRefused, TokenAccepted
<1> QED
  BY <1>1, <1>2, <1>3

LEMMA ClearStep ==
  ASSUME IInv, TypeOK', NEW c \in Client, NEW tok \in Token, Clear(c, tok)
  PROVE  IInv'
<1> USE DEF IInv, TypeOK, Clear, Answer, Locked, WipeMemory
<1>1. SessionWhole' /\ KeyMatchesVault' /\ ConfirmationNotInherited'
  BY DEF SessionWhole, KeyMatchesVault, ConfirmationNotInherited
<1>2. StaleTokenRefused'
  BY DEF StaleTokenRefused, TokenAccepted
<1> QED
  BY <1>1, <1>2

LEMMA ExtendStep ==
  ASSUME IInv, TypeOK', NEW c \in Client, NEW tok \in Token,
         NEW ttl \in TTL \cup {Unset}, NEW grace \in Grace \cup {Unset},
         Extend(c, tok, ttl, grace)
  PROVE  IInv'
<1> USE DEF IInv, TypeOK, Extend, Answer, Locked
<1>1. SessionWhole'
  BY DEF SessionWhole
<1>2. KeyMatchesVault' /\ ConfirmationNotInherited'
  BY DEF KeyMatchesVault, ConfirmationNotInherited
<1>3. StaleTokenRefused'
  BY DEF StaleTokenRefused
<1> QED
  BY <1>1, <1>2, <1>3

LEMMA InvStep ==
  ASSUME IInv, TypeOK', [Next]_vars
  PROVE  IInv'
<1> USE QuietStep DEF envVars, procVars, wipedVars, limitVars, tokenVars,
        NoReply, IInv, TypeOK
<1>1. ASSUME NEW c \in Client, Admit(c) PROVE IInv'
  BY <1>1 DEF Admit
<1>2. ASSUME NEW c \in Client, Hijacked(c) PROVE IInv'
  BY <1>2 DEF Hijacked
<1>4. ASSUME NEW c \in Client, OpenFails(c) PROVE IInv'
  BY <1>4 DEF OpenFails, Answer
<1>5. ASSUME NEW c \in Client, Ping(c) PROVE IInv'
  BY <1>5 DEF Ping, Answer
<1>6. ASSUME NEW c \in Client, NEW tok \in Token, RefuseLocked(c, tok)
      PROVE  IInv'
  BY <1>6 DEF RefuseLocked, Answer
<1>7. ASSUME NEW c \in Client, NEW tok \in Token, DenyToken(c, tok)
      PROVE  IInv'
  BY <1>7 DEF DenyToken, Answer
<1>9. ASSUME NEW c \in Client, NEW tok \in Token, UseFails(c, tok)
      PROVE  IInv'
  BY <1>9 DEF UseFails, Answer
<1>13. ASSUME NEW c \in Client, NEW tok \in Token,
              NEW ttl \in TTL \cup {Unset}, ExtendFails(c, tok, ttl)
       PROVE  IInv'
  BY <1>13 DEF ExtendFails, Answer
<1>14. CASE TickerWake
  BY <1>14 DEF TickerWake
<1>15. CASE TickerStop
  BY <1>15 DEF TickerStop, Stop
<1>16. CASE SignalStop
  BY <1>16 DEF SignalStop, Stop
<1>17. CASE Exit
  BY <1>17 DEF Exit
<1>18. CASE Start
  BY <1>18 DEF Start
<1>19. CASE LoseSocket
  BY <1>19 DEF LoseSocket
<1>20. CASE Tick
  BY <1>20 DEF Tick
<1>21. CASE UNCHANGED vars
  BY <1>21 DEF vars, SessionWhole, KeyMatchesVault, ConfirmationNotInherited,
                StaleTokenRefused
<1> QED
  BY <1>1, <1>2, <1>4, <1>5, <1>6, <1>7, <1>9, <1>13, <1>14, <1>15, <1>16,
     <1>17, <1>18, <1>19, <1>20, <1>21, OpenStep, UseStep, ConfirmProdStep,
     ClearStep, ExtendStep, NextCases

THEOREM InvariantHolds == Spec => []IInv
<1>1. IInv /\ TypeOK' /\ [Next]_vars => IInv'
  BY InvStep
<1> QED
  BY InvInit, <1>1, TypeCorrect, PTL DEF Spec

(* The parts a reader looks for, each at every reachable state.            *)
THEOREM SessionAlwaysWhole == Spec => []SessionWhole
<1>1. IInv => SessionWhole
  BY DEF IInv
<1> QED
  BY <1>1, InvariantHolds, PTL

THEOREM StaleTokenNeverAccepted == Spec => []StaleTokenRefused
<1>1. IInv => StaleTokenRefused
  BY DEF IInv
<1> QED
  BY <1>1, InvariantHolds, PTL

THEOREM ConfirmationNeverInherited == Spec => []ConfirmationNotInherited
<1>1. IInv => ConfirmationNotInherited
  BY DEF IInv
<1> QED
  BY <1>1, InvariantHolds, PTL

(* No step of the daemon changes the key of a vault that has one: only a   *)
(* writing operation touches the file, and it writes under the key in      *)
(* memory, which the invariant says is the vault's.                        *)
THEOREM VaultKeyNeverChanges == Spec => VaultKeyStable
<1>1. IInv /\ [Next]_vars => [vaultKey # NoKey => vaultKey' = vaultKey]_vars
  <2> SUFFICES ASSUME IInv, Next
               PROVE  vaultKey # NoKey => vaultKey' = vaultKey
    BY DEF vars
  <2> USE DEF envVars
  <2>1. ASSUME NEW c \in Client, NEW tok \in Token, NEW op \in Op,
               Use(c, op, tok)
        PROVE  vaultKey # NoKey => vaultKey' = vaultKey
    BY <2>1 DEF Use, Locked, IInv, KeyMatchesVault
  <2> QED
    BY <2>1, NextCases DEF Admit, Hijacked, Open, OpenFails, Ping,
       RefuseLocked, DenyToken, UseFails, ConfirmProd, Clear, Extend,
       ExtendFails, TickerWake, TickerStop, SignalStop, Stop, Exit, Start,
       LoseSocket, Tick
<1> QED
  BY <1>1, InvariantHolds, PTL DEF Spec, VaultKeyStable

-----------------------------------------------------------------------------
(* The refinement.  First, the two clauses of isExpired amount to one      *)
(* deadline.                                                               *)
LEMMA DeadlineType == ASSUME TypeOK PROVE Deadline \in Int
BY DEF TypeOK, Deadline, Later

LEMMA LaterIsUpperBound ==
  ASSUME NEW s \in Int, NEW t \in Int
  PROVE  Later(s, t) \in Int /\ Later(s, t) >= s /\ Later(s, t) >= t
BY DEF Later

LEMMA NextDeadline ==
  ASSUME TypeOK', sessionStart' # 0
  PROVE  /\ Deadline' \in Int
         /\ Deadline' >= sessionStart' + sessionTTL'
         /\ Deadline' >= lastUsed' + graceTTL'
<1>1. /\ sessionStart' + sessionTTL' \in Int
      /\ lastUsed' + graceTTL' \in Int
  BY DEF TypeOK
<1>2. Deadline' = Later(sessionStart' + sessionTTL', lastUsed' + graceTTL')
  BY DEF Deadline, Later
<1> QED
  BY <1>1, <1>2, LaterIsUpperBound

LEMMA DeadlineIsExpiry ==
  ASSUME IInv, masterKey # NoKey
  PROVE  Expired <=> now > Deadline
BY DEF IInv, TypeOK, SessionWhole, Expired, Deadline, Later

(* A step that answers nobody from the vault and wipes the session, or     *)
(* leaves it alone, is a revocation, a refusal or the passing of time.     *)
LEMMA QuietRefines ==
  ASSUME IInv, IInv', UNCHANGED <<graceTTL, sessionTTL>>,
         now' >= now,
         \/ WipeMemory /\ now' = now
         \/ UNCHANGED wipedVars,
         \/ Outcome' = "none"
         \/ /\ Outcome' \in {"refused", "revoked"}
            /\ now' = now
            /\ Outcome' = "revoked" => WipeMemory
            /\ Outcome' = "refused" => UNCHANGED wipedVars \/ Expired
  PROVE  Promise!Next
<1> USE DEF IInv, TypeOK, wipedVars, WipeMemory
<1>1. CASE UNCHANGED wipedVars /\ Outcome' = "none"
  <2>1. UNCHANGED Deadline
    BY <1>1 DEF Deadline, Later
  <2>2. Promise!Tick
    BY <1>1, <2>1 DEF Promise!Tick
  <2> QED
    BY <2>2 DEF Promise!Next
<1>2. CASE UNCHANGED wipedVars /\ Outcome' = "refused"
  <2>1. UNCHANGED Deadline
    BY <1>2 DEF Deadline, Later
  <2>2. Promise!Refuse
    BY <1>2, <2>1 DEF Promise!Refuse
  <2> QED
    BY <2>2 DEF Promise!Next
<1>3. CASE WipeMemory /\ now' = now /\ Outcome' # "refused"
  <2>1. Promise!Revoke
    BY <1>3 DEF Promise!Revoke
  <2> QED
    BY <2>1 DEF Promise!Next
<1>4. CASE WipeMemory /\ now' = now /\ Outcome' = "refused" /\ Expired
  <2>1. masterKey # NoKey
    BY <1>4 DEF Expired, SessionWhole
  <2>2. now > Deadline
    BY <1>4, <2>1, DeadlineIsExpiry
  <2>3. Promise!Refuse
    BY <1>4, <2>2 DEF Promise!Refuse
  <2> QED
    BY <2>3 DEF Promise!Next
<1> QED
  BY <1>1, <1>2, <1>3, <1>4

LEMMA OpenRefines ==
  ASSUME IInv, IInv', NEW c \in Client, NEW k \in Key,
         NEW ttl \in TTL \cup {Unset}, NEW grace \in Grace \cup {Unset},
         Open(c, k, ttl, grace)
  PROVE  Promise!Next
<1>1. masterKey' # NoKey /\ UNCHANGED now /\ graceTTL' \in Int
  BY DEF Open, Answer, IInv, TypeOK
<1>2. Deadline' \in Int
  <2>1. TypeOK' /\ sessionStart' # 0
    BY DEF IInv, TypeOK, Open, Answer
  <2> QED
    BY <2>1, NextDeadline
<1>3. Outcome' = "opened"
  BY DEF Open, Answer, Outcome
<1>4. Promise!Authorise
  BY <1>1, <1>2, <1>3 DEF Promise!Authorise
<1> QED
  BY <1>4 DEF Promise!Next

(* Sliding the last use slides the deadline, and only outward. *)
LEMMA ServeRefines ==
  ASSUME IInv, IInv', ~Locked, Outcome' = "served",
         lastUsed' \in {lastUsed, now},
         UNCHANGED <<now, masterKey, sessionStart, sessionTTL, graceTTL>>
  PROVE  Promise!Next
<1> USE DEF IInv, TypeOK
<1>1. masterKey # NoKey /\ now <= Deadline
  BY DeadlineIsExpiry, DeadlineType DEF Locked
<1>2. \/ Deadline' = Deadline
      \/ /\ now + graceTTL > Deadline
         /\ Deadline' = now + graceTTL
  <2>1. sessionStart # 0 /\ lastUsed <= now
    BY <1>1 DEF SessionWhole
  <2>2. CASE lastUsed' = lastUsed
    BY <2>1, <2>2 DEF Deadline, Later
  <2>3. CASE lastUsed' = now
    BY <2>1, <2>3 DEF Deadline, Later
  <2> QED
    BY <2>2, <2>3
<1>3. Promise!Serve
  BY <1>1, <1>2 DEF Promise!Serve
<1> QED
  BY <1>3 DEF Promise!Next

LEMMA ExtendRefines ==
  ASSUME IInv, IInv', NEW c \in Client, NEW tok \in Token,
         NEW ttl \in TTL \cup {Unset}, NEW grace \in Grace \cup {Unset},
         Extend(c, tok, ttl, grace)
  PROVE  Promise!Next
<1> USE DEF IInv, TypeOK
<1>1. masterKey # NoKey /\ now <= Deadline
  BY DeadlineIsExpiry, DeadlineType DEF Extend, Locked
<1>2. UNCHANGED <<now, masterKey>> /\ graceTTL' \in Int
  BY DEF Extend, Answer
<1>3. Deadline' \in Int /\ Deadline' > now
  <2>1. sessionTTL' \in Int /\ sessionTTL' > 0
    BY DEF Extend
  <2>2. sessionStart' = now /\ now' = now /\ now > 0 /\ lastUsed' = now
    BY DEF Extend, Answer
  <2> QED
    BY <2>1, <2>2, <1>2, NextDeadline
<1>4. Outcome' = "extended"
  BY DEF Extend, Answer, Outcome
<1>5. Promise!Extend
  BY <1>1, <1>2, <1>3, <1>4 DEF Promise!Extend
<1> QED
  BY <1>5 DEF Promise!Next

LEMMA StepRefines ==
  ASSUME IInv, IInv', [Next]_vars
  PROVE  [Promise!Next]_(Promise!vars)
<1> SUFFICES ASSUME ~UNCHANGED vars
             PROVE  Promise!Next
  <2>1. CASE UNCHANGED vars
    BY <2>1 DEF vars, Promise!vars, Deadline, Later, Outcome
  <2> QED
    BY <2>1
<1> USE DEF envVars, procVars, wipedVars, limitVars, tokenVars, NoReply,
        Outcome
<1>0. Next
  OBVIOUS
<1>1. ASSUME NEW c \in Client, Admit(c) PROVE Promise!Next
  BY <1>1, QuietRefines DEF Admit, IInv, TypeOK
<1>2. ASSUME NEW c \in Client, Hijacked(c) PROVE Promise!Next
  BY <1>2, QuietRefines DEF Hijacked, IInv, TypeOK
<1>4. ASSUME NEW c \in Client, OpenFails(c)
      PROVE  Promise!Next
  BY <1>4, QuietRefines DEF OpenFails, Answer, IInv, TypeOK
<1>5. ASSUME NEW c \in Client, Ping(c) PROVE Promise!Next
  BY <1>5, QuietRefines DEF Ping, Answer, IInv, TypeOK
<1>6. ASSUME NEW c \in Client, NEW tok \in Token, RefuseLocked(c, tok)
      PROVE  Promise!Next
  BY <1>6, QuietRefines DEF RefuseLocked, Answer, IInv, TypeOK
<1>7. ASSUME NEW c \in Client, NEW tok \in Token, DenyToken(c, tok)
      PROVE  Promise!Next
  BY <1>7, QuietRefines DEF DenyToken, Answer, IInv, TypeOK
<1>8. ASSUME NEW c \in Client, NEW tok \in Token, NEW op \in Op,
             Use(c, op, tok)
      PROVE  Promise!Next
  BY <1>8, ServeRefines DEF Use, Answer
<1>9. ASSUME NEW c \in Client, NEW tok \in Token, UseFails(c, tok)
      PROVE  Promise!Next
  BY <1>9, QuietRefines DEF UseFails, Answer, IInv, TypeOK
<1>10. ASSUME NEW c \in Client, NEW tok \in Token, ConfirmProd(c, tok)
       PROVE  Promise!Next
  BY <1>10, ServeRefines DEF ConfirmProd, Answer
<1>11. ASSUME NEW c \in Client, NEW tok \in Token, Clear(c, tok)
       PROVE  Promise!Next
  BY <1>11, QuietRefines DEF Clear, Answer, IInv, TypeOK
<1>13. ASSUME NEW c \in Client, NEW tok \in Token,
              NEW ttl \in TTL \cup {Unset}, ExtendFails(c, tok, ttl)
       PROVE  Promise!Next
  BY <1>13, QuietRefines DEF ExtendFails, Answer, IInv, TypeOK
<1>14. CASE TickerWake
  BY <1>14, QuietRefines DEF TickerWake, IInv, TypeOK
<1>15. CASE TickerStop
  BY <1>15, QuietRefines DEF TickerStop, Stop, IInv, TypeOK
<1>16. CASE SignalStop
  BY <1>16, QuietRefines DEF SignalStop, Stop, IInv, TypeOK
<1>17. CASE Exit
  BY <1>17, QuietRefines DEF Exit, IInv, TypeOK
<1>18. CASE Start
  <2>1. masterKey' = NoKey /\ Outcome' = "none" /\ UNCHANGED now
    BY <1>18 DEF Start, WipeMemory
  <2>2. Promise!Revoke
    BY <2>1 DEF Promise!Revoke
  <2> QED
    BY <2>2 DEF Promise!Next
<1>19. CASE LoseSocket
  BY <1>19, QuietRefines DEF LoseSocket, IInv, TypeOK
<1>20. CASE Tick
  BY <1>20, QuietRefines DEF Tick, IInv, TypeOK
<1> QED
  BY <1>0, <1>1, <1>2, <1>4, <1>5, <1>6, <1>7, <1>8, <1>9, <1>10, <1>11,
     <1>13, <1>14, <1>15, <1>16, <1>17, <1>18, <1>19, <1>20, OpenRefines,
     ExtendRefines, NextCases

(* The daemon keeps the promise: whatever the interleaving, nothing is     *)
(* served outside a session, and no refusal ends one.                      *)
THEOREM ImplementsPromise == Spec => PromiseKept
<1>1. Init => Promise!Init
  BY DEF Init, Promise!Init, Deadline, Outcome, NoReply
<1>2. IInv /\ IInv' /\ [Next]_vars => [Promise!Next]_(Promise!vars)
  BY StepRefines
<1> QED
  BY <1>1, <1>2, InvariantHolds, PTL DEF Spec, PromiseKept, Promise!Spec
-----------------------------------------------------------------------------
(* HistoryContiguous is not inductive: where `copy` made two entries share *)
(* a backing array, a write to one may fill a cell that the history of the *)
(* other shows.  Sound adds what makes that harmless to the version        *)
(* numbers: entries that share an array agree on which version belongs in  *)
(* which cell.                                                             *)
HIDE DEF KeyAssumption, DurationAssumption, OpAssumption, BoundAssumption
USE HistoryAssumption, NoneAssumption DEF HistoryAssumption, NoneAssumption

(* The entry e, with the arrays as, shows the versions just below its own. *)
SoundEntry(e, as) ==
  /\ e \in Entry
  /\ e.len <= Limit
  /\ e.len > 0 => e.arr \in Array
  /\ e.arr \in Array => e.off + e.len <= Len(as[e.arr])
  /\ \A i \in 1 .. e.len :
       as[e.arr][e.off + i].version = e.version - e.len - 1 + i

(* The version that belongs in the cell just behind the slice of e is      *)
(* e's own; InStep says that e and f agree on every cell.                  *)
InStep(e, f) ==
  (e.arr = f.arr /\ e.arr # None)
    => e.version - e.off - e.len = f.version - f.off - f.len

Sound(s, as) ==
  /\ s \in [Path -> Entry \cup {None}]
  /\ as \in [Array -> Seq(Record)]
  /\ \A p \in Path : s[p] # None => SoundEntry(s[p], as)
  /\ \A p, q \in Path : s[p] # None /\ s[q] # None => InStep(s[p], s[q])

(* The inductive invariant. *)
HistoryInv == Sound(secrets, arrays)
-----------------------------------------------------------------------------
(* Collecting what is not referred to keeps Sound. *)
LEMMA StoreSound ==
  ASSUME NEW s, NEW as, NEW ms, Sound(s, as), Store(s, as, ms)
  PROVE  HistoryInv'
<1>1. secrets' = s /\ arrays' \in [Array -> Seq(Record)]
  <2>1. << >> \in Seq(Record)
    OBVIOUS
  <2>2. QED
    BY <2>1 DEF Store, Sound
<1>2. ASSUME NEW p \in Path, s[p] # None
      PROVE  SoundEntry(s[p], arrays')
  <2>1. s[p].arr \in Array => arrays'[s[p].arr] = as[s[p].arr]
    BY <1>2 DEF Store, UsedArrays
  <2>2. SoundEntry(s[p], as) /\ s[p] \in Entry
    BY <1>2 DEF Sound, SoundEntry
  <2>3. s[p].len \in Nat
    BY <2>2 DEF Entry
  <2>4. \A i \in 1 .. s[p].len : s[p].arr \in Array
    <3>1. TAKE i \in 1 .. s[p].len
    <3>2. s[p].len > 0
      BY <2>3
    <3>3. QED
      BY <2>2, <3>2 DEF SoundEntry
  <2>5. QED
    BY <2>1, <2>2, <2>3, <2>4 DEF SoundEntry
<1>3. QED
  BY <1>1, <1>2 DEF HistoryInv, Sound

(* Replacing one entry by a sound one that is in step with the others.     *)
LEMMA ReplaceSound ==
  ASSUME NEW s, NEW as, Sound(s, as), NEW p \in Path, NEW e,
         SoundEntry(e, as),
         \A q \in Path \ {p} : s[q] # None => InStep(e, s[q])
  PROVE  Sound([s EXCEPT ![p] = e], as)
<1> DEFINE t == [s EXCEPT ![p] = e]
<1>1. t \in [Path -> Entry \cup {None}]
  BY DEF Sound, SoundEntry
<1>2. \A q \in Path : t[q] # None => SoundEntry(t[q], as)
  BY DEF Sound
<1>3. ASSUME NEW q \in Path, NEW r \in Path, t[q] # None, t[r] # None
      PROVE  InStep(t[q], t[r])
  <2>1. CASE q = p /\ r = p
    BY <2>1 DEF InStep, Sound
  <2>2. CASE q = p /\ r # p
    BY <2>2, <1>3 DEF Sound
  <2>3. CASE q # p /\ r = p
    BY <2>3, <1>3 DEF Sound, InStep
  <2>4. CASE q # p /\ r # p
    BY <2>4, <1>3 DEF Sound
  <2>5. QED
    BY <2>1, <2>2, <2>3, <2>4
<1>4. QED
  BY <1>1, <1>2, <1>3 DEF Sound

(* Dropping one entry. *)
LEMMA DropSound ==
  ASSUME NEW s, NEW as, Sound(s, as), NEW p \in Path
  PROVE  Sound([s EXCEPT ![p] = None], as)
BY DEF Sound

(* An entry without a history is sound whatever the arrays hold. *)
LEMMA PlainSound ==
  ASSUME NEW as, NEW v \in Nat, NEW d \in Data, NEW x \in Map \cup {None}
  PROVE  /\ SoundEntry(Plain(v, d, x), as)
         /\ Plain(v, d, x).arr = None
<1> DEFINE e == Plain(v, d, x)
<1>1. e \in Entry
  BY DEF Plain, Entry
<1>2. e.len = 0 /\ e.arr = None
  BY DEF Plain
<1> HIDE DEF e
<1>3. SoundEntry(e, as) /\ e.arr = None
  <2>1. e.len <= Limit /\ 1 .. e.len = {} /\ ~ e.len > 0 /\ e.arr \notin Array
    BY <1>2
  <2>2. QED
    BY <1>1, <1>2, <2>1 DEF SoundEntry
<1>4. QED
  BY <1>3 DEF e

(* What FiledSlice and FiledArrays do, in the two cases of append. *)
LEMMA FreshArrayUnused ==
  ASSUME ArrayLeft
  PROVE  FreshArray \in Array /\ FreshArray \notin UsedArrays(secrets)
<1>1. \E a \in Array : a \notin UsedArrays(secrets)
  BY DEF ArrayLeft
<1>2. QED
  BY <1>1 DEF FreshArray

(* Filing the state of one entry keeps Sound, also where its array has     *)
(* room and other entries lie in it.                                       *)
LEMMA FiledSound ==
  ASSUME HistoryInv, NEW p \in Path, secrets[p] # None, ArrayLeft,
         NEW d \in Data, NEW x \in Map \cup {None}
  PROVE  Sound([secrets EXCEPT ![p] = Succeeded(secrets[p], d, x)],
               FiledArrays(secrets[p]))
<1> DEFINE e == secrets[p]
           n == Succeeded(e, d, x)
           cap == Capacity(e, arrays)
           as == FiledArrays(e)
           k == e.off + e.len + 1
           excess == IF e.len + 1 > Limit THEN e.len + 1 - Limit ELSE 0
<1>1. /\ SoundEntry(e, arrays)
      /\ arrays \in [Array -> Seq(Record)]
      /\ secrets \in [Path -> Entry \cup {None}]
  BY DEF HistoryInv, Sound
<1>2. /\ e \in Entry
      /\ e.version \in Nat /\ e.len \in Nat /\ e.off \in Nat
      /\ e.arr \in Array \cup {None} /\ e.data \in Data
      /\ e.map \in Map \cup {None}
      /\ e.len <= Limit
  BY <1>1 DEF SoundEntry, Entry
<1>3. Snapshot(e) \in Record /\ Snapshot(e).version = e.version
  BY <1>2 DEF Snapshot, Record
<1>4. Blank \in Record
  BY DEF Blank, Record
<1>5. e.arr # None => Len(arrays[e.arr]) \in Nat
  BY <1>1, <1>2
<1>6. cap \in Int /\ (e.arr = None => cap = 0)
  BY <1>2, <1>5 DEF Capacity
<1>7. /\ excess \in {0, 1}
      /\ e.len + 1 - excess \in Nat
      /\ e.len + 1 - excess <= Limit
      /\ e.len + 1 - excess > 0
  BY <1>2
<1>8. CASE e.len < cap
  <2>1. /\ e.arr \in Array
        /\ k \in 1 .. Len(arrays[e.arr])
        /\ k = e.off + e.len + 1
    BY <1>8, <1>2, <1>5, <1>6 DEF Capacity
  <2>2. as = [arrays EXCEPT ![e.arr] = [@ EXCEPT ![k] = Snapshot(e)]]
    BY <1>8 DEF FiledArrays
  <2>3. /\ as \in [Array -> Seq(Record)]
        /\ \A a \in Array : Len(as[a]) = Len(arrays[a])
    BY <1>1, <1>3, <2>1, <2>2
  <2>4. /\ as[e.arr][k] = Snapshot(e)
        /\ \A a \in Array, i \in Nat \ {0} :
             (a # e.arr \/ i # k) /\ i <= Len(arrays[a]) => as[a][i] = arrays[a][i]
    BY <1>1, <2>1, <2>2
  <2>5. /\ n.version = e.version + 1 /\ n.arr = e.arr
        /\ n.off = e.off + excess /\ n.len = e.len + 1 - excess
        /\ n \in Entry
    <3>1. FiledSlice(e) = [arr |-> e.arr, off |-> e.off + excess,
                           len |-> e.len + 1 - excess]
      BY <1>8 DEF FiledSlice
    <3>2. n = [version |-> e.version + 1, data |-> d, map |-> x, arr |-> e.arr,
               off |-> e.off + excess, len |-> e.len + 1 - excess,
               trashed |-> "no"]
      BY <3>1 DEF Succeeded
    <3>3. e.version + 1 \in Nat /\ e.off + excess \in Nat
          /\ e.len + 1 - excess \in Nat
      BY <1>2, <1>7
    <3> HIDE DEF n, excess, e
    <3> QED BY <1>2, <3>2, <3>3 DEF Entry
  <2> HIDE DEF n, excess, as, k, cap, e
  <2>6. ASSUME NEW q \in Path, secrets[q] # None
        PROVE  SoundEntry(secrets[q], as)
    <3> DEFINE f == secrets[q]
    <3>1. SoundEntry(f, arrays) /\ InStep(f, e)
      BY <2>6 DEF HistoryInv, Sound, e
    <3>2. f \in Entry /\ f.version \in Nat /\ f.len \in Nat /\ f.off \in Nat
      BY <3>1 DEF SoundEntry, Entry
    <3> HIDE DEF f
    <3>3. ASSUME NEW i \in 1 .. f.len
          PROVE  as[f.arr][f.off + i].version = f.version - f.len - 1 + i
      <4>1. f.arr \in Array /\ f.off + i <= Len(arrays[f.arr])
        <5>1. f.arr \in Array
          BY <3>1, <3>2, <3>3 DEF SoundEntry
        <5>2. f.off + f.len <= Len(arrays[f.arr]) /\ Len(arrays[f.arr]) \in Nat
          BY <5>1, <3>1, <1>1 DEF SoundEntry
        <5>3. QED
          BY <5>1, <5>2, <3>2, <3>3
      <4>2. arrays[f.arr][f.off + i].version = f.version - f.len - 1 + i
        BY <3>1, <3>3 DEF SoundEntry
      <4>3. CASE f.arr = e.arr /\ f.off + i = k
        <5>1. f.version - f.off - f.len = e.version - e.off - e.len
          BY <3>1, <4>1, <4>3 DEF InStep
        <5>2. e.version = f.version - f.len - 1 + i
          <6>1. f.version \in Nat /\ f.len \in Nat /\ f.off \in Nat /\ i \in Int
            BY <3>2, <3>3
          <6>2. e.version \in Nat /\ e.len \in Nat /\ e.off \in Nat
            BY <1>2
          <6>3. f.off + i = e.off + e.len + 1
            BY <4>3, <2>1
          <6>4. QED
            BY <5>1, <6>1, <6>2, <6>3
        <5>3. QED
          BY <5>2, <4>3, <2>4, <1>3
      <4>4. CASE f.arr # e.arr \/ f.off + i # k
        <5>1. f.off + i \in Nat \ {0}
          BY <3>2, <3>3
        <5>2. as[f.arr][f.off + i] = arrays[f.arr][f.off + i]
          BY <5>1, <4>1, <4>4, <2>4
        <5>3. QED
          BY <5>2, <4>2
      <4>5. QED
        BY <4>3, <4>4
    <3>4. QED
      BY <3>1, <3>2, <3>3, <2>3 DEF SoundEntry, f
  <2>7. SoundEntry(n, as)
    <3>1. ASSUME NEW i \in 1 .. n.len
          PROVE  as[n.arr][n.off + i].version = n.version - n.len - 1 + i
      <4>1. CASE n.off + i = k
        <5>1. as[n.arr][n.off + i].version = e.version
          BY <4>1, <2>4, <2>5, <1>3
        <5>2. /\ n.version = e.version + 1 /\ n.off = e.off + excess
              /\ n.len = e.len + 1 - excess /\ n.off + i = e.off + e.len + 1
          BY <4>1, <2>1, <2>5
        <5>3. /\ e.version \in Nat /\ e.len \in Nat /\ e.off \in Nat
              /\ excess \in {0, 1} /\ i \in Int
          BY <3>1, <1>2, <1>7
        <5>4. e.version = n.version - n.len - 1 + i
          BY <5>2, <5>3
        <5>5. QED
          BY <5>1, <5>4
      <4>2. CASE n.off + i # k
        <5>1. i + excess \in 1 .. e.len /\ n.off + i = e.off + (i + excess)
          <6>1. /\ i \in 1 .. (e.len + 1 - excess)
                /\ (e.off + excess) + i # e.off + e.len + 1
            BY <4>2, <3>1, <2>1, <2>5
          <6>2. e.len \in Nat /\ e.off \in Nat /\ excess \in {0, 1}
            BY <1>2, <1>7
          <6>3. n.off + i = (e.off + excess) + i
            BY <2>5
          <6>4. QED
            BY <6>1, <6>2, <6>3
        <5>2. as[e.arr][e.off + (i + excess)].version
                = e.version - e.len - 1 + (i + excess)
          BY <5>1, <2>6 DEF SoundEntry, e
        <5>3. QED
          <6>1. as[n.arr][n.off + i].version = e.version - e.len - 1 + (i + excess)
            BY <5>1, <5>2, <2>5
          <6>2. n.version = e.version + 1 /\ n.len = e.len + 1 - excess
            BY <2>5
          <6>3. /\ e.version \in Nat /\ e.len \in Nat
                /\ excess \in {0, 1} /\ i \in Int
            BY <3>1, <1>2, <1>7
          <6>4. e.version - e.len - 1 + (i + excess) = n.version - n.len - 1 + i
            BY <6>2, <6>3
          <6>5. QED
            BY <6>1, <6>4
      <4>3. QED
        BY <4>1, <4>2
    <3>2. n.off + n.len <= Len(as[n.arr])
      <4>1. Len(as[n.arr]) = Len(arrays[e.arr]) /\ k <= Len(arrays[e.arr])
        <5>1. Len(arrays[e.arr]) \in Nat
          BY <2>1, <1>1
        <5>2. k <= Len(arrays[e.arr])
          BY <5>1, <2>1
        <5>3. QED
          BY <5>2, <2>1, <2>3, <2>5
      <4>2. n.off + n.len = (e.off + excess) + (e.len + 1 - excess)
        BY <2>5
      <4>3. (e.off + excess) + (e.len + 1 - excess) = k
        BY <2>1, <1>2, <1>7
      <4>4. QED
        BY <4>1, <4>2, <4>3
    <3>3. QED
      BY <3>1, <3>2, <2>1, <2>5, <1>7 DEF SoundEntry
  <2>8. \A q \in Path \ {p} : secrets[q] # None => InStep(n, secrets[q])
    <3>1. TAKE q \in Path \ {p}
    <3>2. HAVE secrets[q] # None
    <3>3. InStep(e, secrets[q])
      BY <3>2 DEF HistoryInv, Sound, e
    <3>4. QED
      BY <3>3, <2>5, <1>2, <1>7 DEF InStep
  <2>9. Sound(secrets, as)
    BY <2>3, <2>6, <1>1 DEF HistoryInv, Sound
  <2>10. QED
    BY <2>7, <2>8, <2>9, ReplaceSound DEF n, as, e
<1>9. CASE ~ e.len < cap
  <2> DEFINE fresh == FreshArray
             grow == IF cap = 0 THEN 1 ELSE 2 * cap
             cells == [i \in 1 .. grow |->
                         IF i <= e.len THEN History(e, arrays)[i]
                         ELSE IF i = e.len + 1 THEN Snapshot(e) ELSE Blank]
  <2>1. fresh \in Array /\ fresh \notin UsedArrays(secrets)
    BY FreshArrayUnused
  <2>2. cap = e.len
    <3>1. CASE e.arr = None
      BY <3>1, <1>9, <1>1, <1>2 DEF SoundEntry, Capacity
    <3>2. CASE e.arr \in Array
      BY <3>2, <1>9, <1>1, <1>2, <1>5 DEF SoundEntry, Capacity
    <3>3. QED
      BY <3>1, <3>2, <1>2
  <2>3. grow \in Nat /\ grow >= e.len + 1
    BY <2>2, <1>2
  <2>4. \A i \in 1 .. e.len : /\ History(e, arrays)[i] = arrays[e.arr][e.off + i]
                              /\ History(e, arrays)[i] \in Record
    <3>1. TAKE i \in 1 .. e.len
    <3>2. e.arr \in Array /\ e.off + e.len <= Len(arrays[e.arr])
      BY <1>1, <1>2 DEF SoundEntry
    <3>3. e.off + i \in 1 .. Len(arrays[e.arr])
      BY <3>2, <1>2, <1>5
    <3>4. QED
      BY <3>2, <3>3, <1>1 DEF History
  <2>5. cells \in Seq(Record) /\ Len(cells) = grow
    <3>1. \A i \in 1 .. grow : cells[i] \in Record
      BY <2>4, <1>3, <1>4, <1>2, <2>3
    <3>2. cells \in [1 .. grow -> Record]
      BY <3>1
    <3>3. QED
      BY <3>2, <2>3
  <2>6. as = [arrays EXCEPT ![fresh] = cells]
    BY <1>9 DEF FiledArrays
  <2>7. as \in [Array -> Seq(Record)]
    BY <2>5, <2>6, <2>1, <1>1
  <2>8. /\ n.version = e.version + 1 /\ n.arr = fresh
        /\ n.off = excess /\ n.len = e.len + 1 - excess
        /\ n \in Entry
    BY <1>9, <1>2, <1>7, <2>1 DEF Succeeded, FiledSlice, Entry
  <2>14. /\ \A i \in 1 .. e.len : cells[i] = arrays[e.arr][e.off + i]
         /\ cells[e.len + 1] = Snapshot(e)
    BY <2>3, <2>4, <1>2
  <2> HIDE DEF n, excess, as, cells, grow, fresh, cap, e
  <2>9. \A q \in Path : secrets[q] # None => secrets[q].arr # fresh
    BY <2>1 DEF UsedArrays
  <2>10. Sound(secrets, as)
    <3>1. ASSUME NEW q \in Path, secrets[q] # None
          PROVE  SoundEntry(secrets[q], as)
      <4>1. SoundEntry(secrets[q], arrays) /\ secrets[q].len \in Nat
        BY <3>1 DEF HistoryInv, Sound, SoundEntry, Entry
      <4>2. secrets[q].arr \in Array => as[secrets[q].arr] = arrays[secrets[q].arr]
        BY <2>6, <2>9, <3>1, <1>1
      <4>3. \A i \in 1 .. secrets[q].len : secrets[q].arr \in Array
        <5>1. TAKE i \in 1 .. secrets[q].len
        <5>2. QED
          BY <4>1 DEF SoundEntry
      <4>4. QED
        BY <4>1, <4>2, <4>3 DEF SoundEntry
    <3>2. QED
      BY <3>1, <2>7, <1>1 DEF HistoryInv, Sound
  <2>11. SoundEntry(n, as)
    <3>1. ASSUME NEW i \in 1 .. n.len
          PROVE  as[n.arr][n.off + i].version = n.version - n.len - 1 + i
      <4>1. /\ i + excess \in 1 .. e.len + 1
            /\ as[n.arr][n.off + i] = cells[i + excess]
        BY <3>1, <2>1, <2>6, <2>8, <2>3, <1>1, <1>2, <1>7
      <4>2. CASE i + excess = e.len + 1
        BY <4>1, <4>2, <2>8, <2>14, <1>2, <1>3, <1>7
      <4>3. CASE i + excess \in 1 .. e.len
        <5>1. cells[i + excess] = arrays[e.arr][e.off + (i + excess)]
          BY <4>3, <2>14
        <5>2. arrays[e.arr][e.off + (i + excess)].version
                = e.version - e.len - 1 + (i + excess)
          BY <4>3, <1>1 DEF SoundEntry
        <5>3. QED
          BY <4>1, <5>1, <5>2, <2>8, <1>2, <1>7
      <4>4. QED
        BY <4>1, <4>2, <4>3, <1>2
    <3>2. n.off + n.len <= Len(as[n.arr])
      BY <2>1, <2>3, <2>5, <2>6, <2>8, <1>1, <1>2, <1>7
    <3>3. QED
      BY <3>1, <3>2, <2>1, <2>8, <1>7 DEF SoundEntry
  <2>12. \A q \in Path \ {p} : secrets[q] # None => InStep(n, secrets[q])
    BY <2>8, <2>9 DEF InStep
  <2>13. QED
    BY <2>10, <2>11, <2>12, ReplaceSound DEF n, as, e
<1>10. QED
  BY <1>8, <1>9
-----------------------------------------------------------------------------
(* A request brings no metadata, or a new map. *)
LEMMA NewMapType ==
  ASSUME NEW m, m # None => MapLeft
  PROVE  NewMap(m) \in Map \cup {None}
BY DEF NewMap, MapLeft, FreshMap

(* Changing fields that say nothing about the history. *)
LEMMA FieldsSound ==
  ASSUME Sound(secrets, arrays), NEW p \in Path, secrets[p] # None, NEW e \in Entry,
         e.version = secrets[p].version, e.arr = secrets[p].arr,
         e.off = secrets[p].off, e.len = secrets[p].len
  PROVE  Sound([secrets EXCEPT ![p] = e], arrays)
<1>1. SoundEntry(e, arrays)
  BY DEF Sound, SoundEntry
<1>2. \A q \in Path \ {p} : secrets[q] # None => InStep(e, secrets[q])
  BY DEF Sound, InStep
<1>3. QED
  BY <1>1, <1>2, ReplaceSound

(* A stored entry has the fields of Entry. *)
LEMMA StoredFields ==
  ASSUME HistoryInv, NEW p \in Stored
  PROVE  /\ p \in Path /\ secrets[p] # None
         /\ secrets[p] \in Entry
         /\ secrets[p].version \in Nat /\ secrets[p].len \in Nat
BY DEF HistoryInv, Sound, Stored, Entry

(* The version `rollback` finds is one that was filed, and an entry that   *)
(* has one is past version 0.                                              *)
LEMMA FoundVersion ==
  ASSUME HistoryInv, NEW p \in Path, NEW i \in 1 .. Limit, Rollback(p, i)
  PROVE  /\ History(secrets[p], arrays)[i].data \in Data
         /\ History(secrets[p], arrays)[i].map \in Map \cup {None}
         /\ [secrets[p] EXCEPT !.version = IF @ = 0 THEN 1 ELSE @] = secrets[p]
<1> DEFINE e == secrets[p]
           found == History(e, arrays)[i]
<1>1. /\ e # None /\ e \in Entry /\ e.version \in Nat /\ e.len \in Nat
      /\ i \in 1 .. e.len
  BY StoredFields DEF Rollback
<1>2. /\ e.arr \in Array /\ e.off + e.len <= Len(arrays[e.arr])
      /\ arrays[e.arr] \in Seq(Record)
      /\ arrays[e.arr][e.off + e.len].version = e.version - 1
  <2>1. SoundEntry(e, arrays) /\ arrays \in [Array -> Seq(Record)]
    BY <1>1 DEF HistoryInv, Sound
  <2> HIDE DEF e
  <2>2. e.len > 0 /\ e.len \in 1 .. e.len
    BY <1>1
  <2>3. e.version - e.len - 1 + e.len = e.version - 1
    BY <1>1
  <2>4. QED
    BY <2>1, <2>2, <2>3 DEF SoundEntry
<1>3. /\ e.off + e.len \in 1 .. Len(arrays[e.arr])
      /\ e.off + i \in 1 .. Len(arrays[e.arr])
  <2> HIDE DEF e
  <2>1. e.off \in Nat /\ Len(arrays[e.arr]) \in Nat
    BY <1>1, <1>2 DEF Entry
  <2>2. QED
    BY <2>1, <1>1, <1>2
<1>4. found \in Record
  BY <1>1, <1>2, <1>3 DEF History
<1>5. e.version # 0
  <2> DEFINE last == arrays[e.arr][e.off + e.len]
  <2>1. last \in Record
    BY <1>2, <1>3
  <2>2. last.version \in Nat
    BY <2>1 DEF Record
  <2> HIDE DEF last, e
  <2>3. last.version = e.version - 1
    BY <1>2 DEF last
  <2>4. QED
    BY <2>2, <2>3
<1>6. [e EXCEPT !.version = IF @ = 0 THEN 1 ELSE @] = e
  BY <1>1, <1>5 DEF Entry
<1>7. found.data \in Data /\ found.map \in Map \cup {None}
  BY <1>4 DEF Record
<1> QED BY <1>6, <1>7

(* Every operation keeps the inductive invariant. *)
LEMMA NextKeepsIInv == HistoryInv /\ [HistoryNext]_historyVars => HistoryInv'
<1> SUFFICES ASSUME HistoryInv, [HistoryNext]_historyVars
             PROVE  HistoryInv'
  OBVIOUS
<1>1. ASSUME NEW p \in Path, NEW d \in Data,
             NEW m \in (Meta \ {NilMeta}) \cup {None}, Create(p, d, m)
      PROVE  HistoryInv'
  <2> DEFINE e == Plain(1, d, NewMap(m))
  <2>1. NewMap(m) \in Map \cup {None}
    BY <1>1, NewMapType DEF Create
  <2>2. SoundEntry(e, arrays) /\ e.arr = None
    BY <2>1, PlainSound
  <2> HIDE DEF e
  <2>3. Sound([secrets EXCEPT ![p] = e], arrays)
    BY <2>2, ReplaceSound DEF InStep, HistoryInv
  <2>4. QED
    BY <2>3, <1>1, StoreSound DEF Create, e
<1>2. ASSUME NEW p \in Path, NEW d \in Data,
             NEW m \in (Meta \ {NilMeta}) \cup {None}, Set(p, d, m)
      PROVE  HistoryInv'
  <2>1. NewMap(m) \in Map \cup {None}
    BY <1>2, NewMapType DEF Set
  <2>2. secrets[p] # None
    BY <1>2, StoredFields DEF Set
  <2>3. Sound([secrets EXCEPT ![p] = Succeeded(secrets[p], d, NewMap(m))],
              FiledArrays(secrets[p]))
    BY <1>2, <2>1, <2>2, FiledSound DEF Set
  <2>4. QED
    BY <2>3, <1>2, StoreSound DEF Set
<1>3. ASSUME NEW p \in Path, NEW d \in Data, NEW m \in Meta, Relabel(p, d, m)
      PROVE  HistoryInv'
  <2> DEFINE x == IF secrets[p].map = None THEN FreshMap ELSE secrets[p].map
             e == [[secrets[p] EXCEPT !.data = d] EXCEPT !.map = x]
  <2>1. secrets[p] # None /\ secrets[p] \in Entry
    BY <1>3, StoredFields DEF Relabel
  <2>2. x \in Map \cup {None}
    BY <1>3, <2>1 DEF Relabel, MapLeft, FreshMap, Entry
  <2>3. /\ e \in Entry /\ e.version = secrets[p].version
        /\ e.arr = secrets[p].arr /\ e.off = secrets[p].off
        /\ e.len = secrets[p].len
    BY <2>1, <2>2 DEF Entry
  <2>4. [secrets EXCEPT ![p].data = d, ![p].map = x] = [secrets EXCEPT ![p] = e]
    BY DEF HistoryInv, Sound
  <2> HIDE DEF x, e
  <2>5. Sound([secrets EXCEPT ![p] = e], arrays)
    BY <2>1, <2>3, FieldsSound DEF HistoryInv
  <2>6. QED
    BY <2>4, <2>5, <1>3, StoreSound DEF Relabel, x
<1>4. ASSUME NEW p \in Path, NEW i \in 1 .. Limit, Rollback(p, i)
      PROVE  HistoryInv'
  <2> DEFINE e == secrets[p]
             found == History(e, arrays)[i]
  <2>1. /\ e # None /\ e \in Entry /\ e.version \in Nat /\ e.len \in Nat
        /\ i \in 1 .. e.len
    BY <1>4, StoredFields DEF Rollback
  <2>2. /\ found.data \in Data /\ found.map \in Map \cup {None}
        /\ [e EXCEPT !.version = IF @ = 0 THEN 1 ELSE @] = e
    BY <1>4, FoundVersion
  <2>3. Sound([secrets EXCEPT ![p] = Succeeded(e, found.data, found.map)],
              FiledArrays(e))
    BY <1>4, <2>1, <2>2, FiledSound DEF Rollback
  <2>4. QED
    BY <1>4, <2>2, <2>3, StoreSound DEF Rollback
<1>5. ASSUME NEW p \in Path, Delete(p)
      PROVE  HistoryInv'
  <2> DEFINE e == [secrets[p] EXCEPT !.trashed = "yes"]
  <2>1. secrets[p] # None /\ secrets[p] \in Entry
    BY <1>5, StoredFields DEF Delete
  <2>2. /\ e \in Entry /\ e.version = secrets[p].version
        /\ e.arr = secrets[p].arr /\ e.off = secrets[p].off
        /\ e.len = secrets[p].len
    BY <2>1 DEF Entry
  <2> HIDE DEF e
  <2>3. Sound([secrets EXCEPT ![p] = e], arrays)
    BY <2>1, <2>2, FieldsSound DEF HistoryInv
  <2>4. QED
    BY <2>3, <1>5, StoreSound DEF Delete, e
<1>6. ASSUME NEW p \in Path, Purge(p)
      PROVE  HistoryInv'
  BY <1>6, DropSound, StoreSound DEF Purge, HistoryInv
<1>7. ASSUME NEW p \in Path, RestoreDeleted(p)
      PROVE  HistoryInv'
  <2> DEFINE e == [secrets[p] EXCEPT !.trashed = "no"]
  <2>1. secrets[p] # None /\ secrets[p] \in Entry
    BY <1>7, StoredFields DEF RestoreDeleted
  <2>2. /\ e \in Entry /\ e.version = secrets[p].version
        /\ e.arr = secrets[p].arr /\ e.off = secrets[p].off
        /\ e.len = secrets[p].len
    BY <2>1 DEF Entry
  <2> HIDE DEF e
  <2>3. Sound([secrets EXCEPT ![p] = e], arrays)
    BY <2>1, <2>2, FieldsSound DEF HistoryInv
  <2>4. QED
    BY <2>3, <1>7, StoreSound DEF RestoreDeleted, e
<1>8. ASSUME NEW p \in Path, NEW d \in Data, NEW v \in {0, 1}, Restore(p, d, v)
      PROVE  HistoryInv'
  <2> DEFINE e == Plain(v, d, None)
  <2>1. SoundEntry(e, arrays) /\ e.arr = None
    <3>1. v \in Nat /\ None \in Map \cup {None}
      OBVIOUS
    <3>2. QED
      BY <3>1, PlainSound
  <2> HIDE DEF e
  <2>2. Sound([secrets EXCEPT ![p] = e], arrays)
    BY <2>1, ReplaceSound DEF InStep, HistoryInv
  <2>3. QED
    BY <2>2, <1>8, StoreSound DEF Restore, e
<1>9. ASSUME NEW p \in Path, NEW q \in Path, Rename(p, q)
      PROVE  HistoryInv'
  <2> DEFINE s == [secrets EXCEPT ![p] = None]
             e == secrets[p]
  <2>1. e # None
    BY <1>9, StoredFields DEF Rename
  <2>2. Sound(s, arrays)
    BY DropSound DEF HistoryInv
  <2>3. /\ SoundEntry(e, arrays)
        /\ \A r \in Path \ {q} : s[r] # None => InStep(e, s[r])
    BY <2>1 DEF HistoryInv, Sound
  <2> HIDE DEF s, e
  <2>4. Sound([s EXCEPT ![q] = e], arrays)
    BY <2>2, <2>3, ReplaceSound
  <2>5. QED
    BY <2>4, <1>9, StoreSound DEF Rename, s, e
<1>10. ASSUME NEW p \in Path, NEW q \in Path, Copy(p, q)
       PROVE  HistoryInv'
  <2> DEFINE e == secrets[p]
  <2>1. e # None
    BY <1>10, StoredFields DEF Copy
  <2>2. /\ SoundEntry(e, arrays)
        /\ \A r \in Path \ {q} : secrets[r] # None => InStep(e, secrets[r])
    BY <2>1 DEF HistoryInv, Sound
  <2> HIDE DEF e
  <2>3. Sound([secrets EXCEPT ![q] = e], arrays)
    BY <2>2, ReplaceSound DEF HistoryInv
  <2>4. QED
    BY <2>3, <1>10, StoreSound DEF Copy, e
<1>11. CASE UNCHANGED historyVars
  BY <1>11 DEF historyVars, HistoryInv, Sound, SoundEntry
<1>12. QED
  BY <1>1, <1>2, <1>3, <1>4, <1>5, <1>6, <1>7, <1>8, <1>9, <1>10, <1>11
     DEF HistoryNext

(* What a sound history shows is contiguous. *)
LEMMA IInvImpliesContiguous == HistoryInv => HistoryContiguous
<1> SUFFICES ASSUME HistoryInv, NEW p \in Stored
             PROVE  /\ secrets[p].len <= Limit
                    /\ \A i \in 1 .. secrets[p].len :
                         History(secrets[p], arrays)[i].version
                           = secrets[p].version - secrets[p].len - 1 + i
  BY DEF HistoryContiguous
<1>1. SoundEntry(secrets[p], arrays)
  BY StoredFields DEF HistoryInv, Sound
<1>2. QED
  BY <1>1 DEF SoundEntry, History

(* Whatever sequence of operations runs, copies that share an array        *)
(* included, the history of an entry holds the versions just below its     *)
(* own, in order, and at most Limit of them.                               *)
THEOREM VersionsContiguous == HistorySpec => []HistoryContiguous
<1>1. HistoryInit => HistoryInv
  <2>1. << >> \in Seq(Record)
    OBVIOUS
  <2>2. QED
    BY <2>1 DEF HistoryInit, HistoryInv, Sound
<1>2. QED
  BY <1>1, NextKeepsIInv, IInvImpliesContiguous, PTL DEF HistorySpec

-----------------------------------------------------------------------------
(* Maps hold metadata, whichever of them an operation writes. *)
MapsTyped == maps \in [Map -> Meta]

LEMMA StoreMaps ==
  ASSUME NEW s, NEW as, NEW ms \in [Map -> Meta], Store(s, as, ms)
  PROVE  MapsTyped'
BY DEF Store, MapsTyped

LEMMA NewMapsTyped ==
  ASSUME MapsTyped, NEW m \in Meta \cup {None}
  PROVE  NewMaps(m) \in [Map -> Meta]
BY DEF NewMaps, MapsTyped

LEMMA NextKeepsMaps == MapsTyped /\ [HistoryNext]_historyVars => MapsTyped'
<1> SUFFICES ASSUME MapsTyped, [HistoryNext]_historyVars
             PROVE  MapsTyped'
  OBVIOUS
<1>1. ASSUME NEW p \in Path, NEW d \in Data, NEW m \in (Meta \ {NilMeta}) \cup {None},
             Create(p, d, m) \/ Set(p, d, m)
      PROVE  MapsTyped'
  BY <1>1, NewMapsTyped, StoreMaps DEF Create, Set
<1>2. ASSUME NEW p \in Path, NEW d \in Data, NEW m \in Meta, Relabel(p, d, m)
      PROVE  MapsTyped'
  <2>1. PICK x : Store([secrets EXCEPT ![p].data = d, ![p].map = x], arrays, [maps EXCEPT ![x] = m])
    BY <1>2 DEF Relabel
  <2>2. [maps EXCEPT ![x] = m] \in [Map -> Meta]
    BY DEF MapsTyped
  <2>3. QED
    BY <2>1, <2>2, StoreMaps
<1>3. ASSUME NEW p \in Path, NEW q \in Path,
             \/ \E d \in Data, v \in {0, 1} : Restore(p, d, v)
             \/ \E i \in 1 .. Limit : Rollback(p, i)
             \/ Delete(p) \/ Purge(p) \/ RestoreDeleted(p) \/ Rename(p, q) \/ Copy(p, q)
      PROVE  MapsTyped'
  <2>1. \E s, as : Store(s, as, maps)
    BY <1>3 DEF Restore, Rollback, Delete, Purge, RestoreDeleted, Rename, Copy
  <2>2. QED
    BY <2>1, StoreMaps DEF MapsTyped
<1>4. CASE UNCHANGED historyVars
  BY <1>4 DEF historyVars, MapsTyped
<1>5. QED
  BY <1>1, <1>2, <1>3, <1>4 DEF HistoryNext

(* No operation leaves an entry, an array or a map that is none, nor a     *)
(* history that reaches beyond the end of its array.                       *)
THEOREM HistoryTyped == HistorySpec => []HistoryTypeOK
<1>1. HistoryInit => HistoryInv /\ MapsTyped
  <2>1. << >> \in Seq(Record)
    OBVIOUS
  <2>2. QED
    BY <2>1 DEF HistoryInit, HistoryInv, Sound, MapsTyped
<1>2. HistoryInv /\ MapsTyped => HistoryTypeOK
  BY DEF HistoryInv, MapsTyped, HistoryTypeOK, Sound, SoundEntry, Stored
<1>3. QED
  BY <1>1, <1>2, NextKeepsIInv, NextKeepsMaps, PTL DEF HistorySpec

-----------------------------------------------------------------------------
(* The refinement of SecretVersions.  Where nobody copies, no two entries  *)
(* lie in one array, so an append shows in one history only.               *)
Apart ==
  \A p, q \in Path :
    p # q /\ secrets[p] # None /\ secrets[q] # None
      => secrets[p].arr = None \/ secrets[p].arr # secrets[q].arr

(* The entry e as a client sees it, if all metadata is alike. *)
ViewRecord(r) == [version |-> r.version, data |-> r.data, meta |-> NilMeta]
View(e, as) ==
  [version |-> e.version, data |-> e.data, meta |-> NilMeta,
   history |-> [i \in 1 .. e.len |-> ViewRecord(as[e.arr][e.off + i])],
   trashed |-> e.trashed]

(* What is in the cells an entry shows. *)
LEMMA Cells ==
  ASSUME NEW as \in [Array -> Seq(Record)], NEW e, SoundEntry(e, as)
  PROVE  /\ e.version \in Nat /\ e.len \in Nat /\ e.off \in Nat
         /\ e.data \in Data /\ e.map \in Map \cup {None}
         /\ \A i \in 1 .. e.len :
              /\ e.arr \in Array /\ e.off + i \in 1 .. Len(as[e.arr])
              /\ as[e.arr][e.off + i] \in Record
<1>1. /\ e.version \in Nat /\ e.len \in Nat /\ e.off \in Nat
      /\ e.data \in Data /\ e.map \in Map \cup {None}
  BY DEF SoundEntry, Entry
<1>2. ASSUME NEW i \in 1 .. e.len
      PROVE  /\ e.arr \in Array /\ e.off + i \in 1 .. Len(as[e.arr])
             /\ as[e.arr][e.off + i] \in Record
  <2>1. e.arr \in Array
    BY <1>1 DEF SoundEntry
  <2> DEFINE cells == as[e.arr]
             n == e.off + i
  <2>2. cells \in Seq(Record) /\ e.off + e.len <= Len(cells)
    BY <2>1 DEF SoundEntry
  <2> HIDE DEF cells
  <2>3. n \in 1 .. Len(cells)
    <3>1. Len(cells) \in Nat /\ i \in Nat /\ 1 <= i /\ i <= e.len
      BY <1>1, <2>2
    <3> QED BY <1>1, <2>2, <3>1
  <2> HIDE DEF n
  <2>4. cells[n] \in Record
    BY <2>2, <2>3
  <2> QED BY <2>1, <2>3, <2>4 DEF cells, n
<1> QED BY <1>1, <1>2

LEMMA ViewType ==
  ASSUME NEW as \in [Array -> Seq(Record)], NEW e, SoundEntry(e, as)
  PROVE  View(e, as) \in Shown /\ View(e, as) # None
<1> DEFINE V == [version : Nat, data : Data, meta : Meta]
           h == [i \in 1 .. e.len |-> ViewRecord(as[e.arr][e.off + i])]
<1>1. h \in Seq(V)
  <2>1. \A r \in Record : ViewRecord(r) \in V
    BY DEF Record, ViewRecord
  <2>2. \A i \in 1 .. e.len : ViewRecord(as[e.arr][e.off + i]) \in V
    BY <2>1, Cells
  <2> HIDE DEF V
  <2>3. h \in [1 .. e.len -> V]
    BY <2>2
  <2>4. e.len \in Nat
    BY Cells
  <2> HIDE DEF h
  <2> QED BY <2>3, <2>4
<1>2. e.version \in Nat /\ e.data \in Data /\ e.trashed \in {"no", "yes"}
  BY DEF SoundEntry, Entry
<1>3. View(e, as) = [version |-> e.version, data |-> e.data, meta |-> NilMeta,
                     history |-> h, trashed |-> e.trashed]
  BY DEF View
<1> HIDE DEF h
<1>4. View(e, as) \in Shown
  BY <1>1, <1>2, <1>3 DEF Shown
<1> QED BY <1>4, ShownAssumption DEF ShownAssumption

LEMMA SeenIsView ==
  HistoryInv /\ MapsTyped /\ Meta = {NilMeta} =>
    \A p \in Path :
      Seen(p) = IF secrets[p] = None THEN None ELSE View(secrets[p], arrays)
<1> SUFFICES ASSUME HistoryInv, MapsTyped, Meta = {NilMeta}, NEW p \in Path,
                    secrets[p] # None
             PROVE  Seen(p) = View(secrets[p], arrays)
  BY DEF Seen
<1> DEFINE e == secrets[p]
<1>1. arrays \in [Array -> Seq(Record)] /\ SoundEntry(e, arrays)
  BY DEF HistoryInv, Sound
<1>2. \A x \in Map \cup {None} : MetaOf(x) = NilMeta
  BY DEF MetaOf, MapsTyped
<1>3. MetaOf(e.map) = NilMeta
  BY <1>1, <1>2, Cells
<1>4. ASSUME NEW i \in 1 .. e.len
      PROVE  /\ History(e, arrays)[i] = arrays[e.arr][e.off + i]
             /\ MetaOf(arrays[e.arr][e.off + i].map) = NilMeta
  <2>1. arrays[e.arr][e.off + i] \in Record
    BY <1>1, Cells
  <2>2. arrays[e.arr][e.off + i].map \in Map \cup {None}
    BY <2>1 DEF Record
  <2> QED BY <1>2, <2>2 DEF History
<1>5. Seen(p) = [version |-> e.version, data |-> e.data, meta |-> MetaOf(e.map),
                 history |-> [i \in 1 .. e.len |->
                   [version |-> History(e, arrays)[i].version,
                    data |-> History(e, arrays)[i].data,
                    meta |-> MetaOf(History(e, arrays)[i].map)]],
                 trashed |-> e.trashed]
  BY DEF Seen
<1> HIDE DEF e
<1>6. [i \in 1 .. e.len |->
         [version |-> History(e, arrays)[i].version,
          data |-> History(e, arrays)[i].data,
          meta |-> MetaOf(History(e, arrays)[i].map)]]
      = [i \in 1 .. e.len |-> ViewRecord(arrays[e.arr][e.off + i])]
  BY <1>4 DEF ViewRecord
<1>7. View(e, arrays) = [version |-> e.version, data |-> e.data, meta |-> NilMeta,
                         history |-> [i \in 1 .. e.len |-> ViewRecord(arrays[e.arr][e.off + i])],
                         trashed |-> e.trashed]
  BY DEF View
<1> QED BY <1>3, <1>5, <1>6, <1>7 DEF e

(* What an entry shows depends on its own array only. *)
LEMMA ViewAlike ==
  ASSUME NEW as \in [Array -> Seq(Record)], NEW bs, NEW e, SoundEntry(e, as),
         e.arr \in Array => bs[e.arr] = as[e.arr]
  PROVE  View(e, bs) = View(e, as)
<1>1. \A i \in 1 .. e.len : ViewRecord(bs[e.arr][e.off + i]) = ViewRecord(as[e.arr][e.off + i])
  BY Cells
<1> QED BY <1>1 DEF View

(* What is collected is not shown. *)
LEMMA StoreView ==
  ASSUME NEW s, NEW as, NEW ms, Sound(s, as), Store(s, as, ms)
  PROVE  /\ secrets' = s
         /\ \A p \in Path : s[p] # None => View(s[p], arrays') = View(s[p], as)
<1>1. ASSUME NEW p \in Path, s[p] # None
      PROVE  View(s[p], arrays') = View(s[p], as)
  <2>1. s[p].arr \in Array => arrays'[s[p].arr] = as[s[p].arr]
    BY <1>1 DEF Store, UsedArrays
  <2>2. as \in [Array -> Seq(Record)] /\ SoundEntry(s[p], as)
    BY <1>1 DEF Sound
  <2> QED BY <2>1, <2>2, ViewAlike
<1> QED BY <1>1 DEF Store

\* Where append puts things: the slice it yields shows what the old one
\* showed, but for the oldest version if there are Limit, and then the new one.
LEMMA FiledCells ==
  ASSUME HistoryInv, NEW p \in Path, secrets[p] # None, ArrayLeft,
         NEW d \in Data, NEW x \in Map \cup {None},
         NEW e, e = secrets[p],
         NEW n, n = Succeeded(e, d, x),
         NEW excess, excess = IF e.len + 1 > Limit THEN 1 ELSE 0
  PROVE  /\ n.len = e.len + 1 - excess
         /\ \A i \in 1 .. n.len :
              FiledArrays(e)[n.arr][n.off + i] =
                IF i + excess <= e.len THEN arrays[e.arr][e.off + (i + excess)]
                ELSE Snapshot(e)
<1> DEFINE cap == Capacity(e, arrays)
           as == FiledArrays(e)
           k == e.off + e.len + 1
<1>1. /\ SoundEntry(e, arrays) /\ arrays \in [Array -> Seq(Record)]
      /\ e \in Entry /\ e.len \in Nat /\ e.off \in Nat /\ e.len <= Limit
      /\ e.arr \in Array \cup {None}
  BY DEF HistoryInv, Sound, SoundEntry, Entry
<1>2. /\ e.arr # None => Len(arrays[e.arr]) \in Nat
      /\ cap = IF e.arr = None THEN 0 ELSE Len(arrays[e.arr]) - e.off
  BY <1>1 DEF Capacity
<1>3. /\ excess \in {0, 1}
      /\ excess = IF e.len + 1 > Limit THEN e.len + 1 - Limit ELSE 0
  BY <1>1
<1>4. n.len = e.len + 1 - excess /\ n.len \in Nat
  BY <1>1, <1>3 DEF Succeeded, FiledSlice
<1>5. CASE e.len < cap
  <2>1. n.arr = e.arr /\ n.off = e.off + excess
    BY <1>3, <1>5 DEF Succeeded, FiledSlice
  <2>2. e.arr \in Array /\ k \in 1 .. Len(arrays[e.arr])
    BY <1>1, <1>2, <1>5
  <2>3. as[e.arr] = [arrays[e.arr] EXCEPT ![k] = Snapshot(e)]
    BY <1>1, <1>5, <2>2 DEF FiledArrays
  <2> HIDE DEF as, cap
  <2>4. ASSUME NEW i \in 1 .. n.len
        PROVE  as[n.arr][n.off + i] =
                 IF i + excess <= e.len THEN arrays[e.arr][e.off + (i + excess)]
                 ELSE Snapshot(e)
    <3> DEFINE cells == arrays[e.arr]
               j == e.off + (i + excess)
    <3>1. n.off + i = j /\ j \in 1 .. k /\ (j = k <=> ~(i + excess <= e.len))
      <4>1. i \in Nat /\ 1 <= i /\ i + excess <= e.len + 1
        BY <1>1, <1>3, <1>4
      <4>2. e.len \in Nat /\ e.off \in Nat /\ excess \in {0, 1} /\ n.off = e.off + excess
        BY <1>1, <1>3, <2>1
      <4> QED BY ONLY <4>1, <4>2
    <3>2. cells \in Seq(Record) /\ as[n.arr] = [cells EXCEPT ![k] = Snapshot(e)]
      BY <1>1, <2>1, <2>2, <2>3
    <3>3. j \in 1 .. Len(cells) /\ k \in 1 .. Len(cells)
      BY <2>2, <3>1
    <3> HIDE DEF cells, j, k
    <3>4. as[n.arr][j] = IF j = k THEN Snapshot(e) ELSE cells[j]
      BY <3>2, <3>3
    <3> QED BY <3>1, <3>4 DEF cells, j
  <2> QED BY <1>4, <2>4 DEF as
<1>6. CASE ~(e.len < cap)
  <2> DEFINE grow == IF cap = 0 THEN 1 ELSE 2 * cap
             cell(i) == IF i <= e.len THEN History(e, arrays)[i]
                        ELSE IF i = e.len + 1 THEN Snapshot(e) ELSE Blank
  <2>1. n.arr = FreshArray /\ n.off = 0 + excess
    BY <1>3, <1>6 DEF Succeeded, FiledSlice
  <2>2. FreshArray \in Array
    BY FreshArrayUnused
  <2>3. as = [arrays EXCEPT ![FreshArray] = [i \in 1 .. grow |-> cell(i)]]
    BY <1>6 DEF FiledArrays
  <2>4. grow \in Nat /\ e.len + 1 <= grow
    <3>1. e.len = cap
      <4>1. CASE e.arr = None
        BY <1>1, <1>2, <1>6, <4>1 DEF SoundEntry
      <4>2. CASE e.arr # None
        <5>1. e.off + e.len <= Len(arrays[e.arr])
          BY <1>1, <4>2 DEF SoundEntry
        <5>2. Len(arrays[e.arr]) \in Nat /\ cap = Len(arrays[e.arr]) - e.off
          BY <1>2, <4>2
        <5>3. e.len \in Nat /\ e.off \in Nat
          BY <1>1
        <5> HIDE DEF cap
        <5> QED BY <1>6, <5>1, <5>2, <5>3
      <4> QED BY <4>1, <4>2
    <3> QED BY <1>1, <3>1
  <2> HIDE DEF as, cap, grow
  <2>5. as[FreshArray] = [i \in 1 .. grow |-> cell(i)]
    <3> HIDE DEF cell
    <3> QED BY <1>1, <2>2, <2>3
  <2>6. ASSUME NEW i \in 1 .. n.len
        PROVE  as[n.arr][n.off + i] =
                 IF i + excess <= e.len THEN arrays[e.arr][e.off + (i + excess)]
                 ELSE Snapshot(e)
    <3> DEFINE j == i + excess
    <3>1. n.off + i = j /\ j \in 1 .. grow /\ j \in 1 .. (e.len + 1)
      <4>1. i \in Nat /\ 1 <= i /\ i + excess <= e.len + 1
        BY <1>1, <1>3, <1>4
      <4>2. e.len \in Nat /\ excess \in {0, 1} /\ n.off = 0 + excess
        BY <1>1, <1>3, <2>1
      <4> QED BY ONLY <2>4, <4>1, <4>2
    <3>2. as[n.arr][n.off + i] = cell(j)
      <4> HIDE DEF cell, j
      <4> QED BY <2>1, <2>5, <3>1
    <3>3. j <= e.len => History(e, arrays)[j] = arrays[e.arr][e.off + j]
      BY <1>1, <3>1 DEF History
    <3>4. ~(j <= e.len) => j = e.len + 1
      BY <1>1, <3>1
    <3> HIDE DEF j
    <3> QED BY <3>2, <3>3, <3>4 DEF j
  <2> QED BY <1>4, <2>6 DEF as
<1> QED BY <1>5, <1>6

\* So the client sees the promised history.
LEMMA FiledView ==
  ASSUME HistoryInv, NEW p \in Path, secrets[p] # None, ArrayLeft,
         NEW d \in Data, NEW x \in Map \cup {None},
         NEW e, e = secrets[p],
         NEW n, n = Succeeded(e, d, x)
  PROVE  /\ View(n, FiledArrays(e)).version = View(e, arrays).version + 1
         /\ View(n, FiledArrays(e)).history = Versions!Filed(View(e, arrays))
         /\ View(n, FiledArrays(e)).trashed = "no"
<1> DEFINE excess == IF e.len + 1 > Limit THEN 1 ELSE 0
           V == [version : Nat, data : Data, meta : {NilMeta}]
           old == [i \in 1 .. e.len |-> ViewRecord(arrays[e.arr][e.off + i])]
           new == [i \in 1 .. n.len |-> ViewRecord(FiledArrays(e)[n.arr][n.off + i])]
           last == ViewRecord(Snapshot(e))
           h == Append(old, last)
<1>1. /\ SoundEntry(e, arrays) /\ arrays \in [Array -> Seq(Record)]
      /\ e.len \in Nat /\ e.len <= Limit
  BY DEF HistoryInv, Sound, SoundEntry, Entry
<1>2. \A r \in Record : ViewRecord(r) \in V
  BY DEF Record, ViewRecord
<1>3. /\ n.len = e.len + 1 - excess
      /\ \A i \in 1 .. n.len :
           FiledArrays(e)[n.arr][n.off + i] =
             IF i + excess <= e.len THEN arrays[e.arr][e.off + (i + excess)]
             ELSE Snapshot(e)
  BY FiledCells
<1>4. old \in Seq(V) /\ Len(old) = e.len
  <2>1. \A i \in 1 .. e.len : ViewRecord(arrays[e.arr][e.off + i]) \in V
    BY <1>1, <1>2, Cells
  <2> HIDE DEF V
  <2>2. old \in [1 .. e.len -> V]
    BY <2>1
  <2> HIDE DEF old
  <2> QED BY <1>1, <2>2
<1>5. last \in V
  <2>1. Snapshot(e) \in Record
    BY <1>1, Cells DEF Snapshot, Record
  <2> QED BY <1>2, <2>1
<1>6. excess \in {0, 1} /\ (excess = 1 <=> e.len + 1 > Limit)
  BY <1>1
<1>7. \A i \in 1 .. e.len : old[i] = ViewRecord(arrays[e.arr][e.off + i])
  OBVIOUS
<1> HIDE DEF excess, V, old, last
<1>8. ASSUME NEW i \in 1 .. n.len
      PROVE  new[i] = IF i + excess <= e.len THEN old[i + excess] ELSE last
  <2>1. new[i] = ViewRecord(FiledArrays(e)[n.arr][n.off + i])
    OBVIOUS
  <2>2. i + excess <= e.len => i + excess \in 1 .. e.len
    BY <1>1, <1>6
  <2> QED BY <1>3, <1>7, <2>1, <2>2 DEF last
<1>9. n.len \in Nat /\ n.len = e.len + 1 - excess
  BY <1>1, <1>3, <1>6
<1>10. new \in Seq(V) /\ Len(new) = n.len
  <2>1. ASSUME NEW i \in 1 .. n.len
        PROVE  ViewRecord(FiledArrays(e)[n.arr][n.off + i]) \in V
    <3>1. i + excess <= e.len => i + excess \in 1 .. e.len
      BY <1>1, <1>6
    <3>2. new[i] = ViewRecord(FiledArrays(e)[n.arr][n.off + i])
      OBVIOUS
    <3> HIDE DEF new, h
    <3>3. i + excess <= e.len => old[i + excess] \in V
      BY <1>4, <3>1
    <3>4. new[i] \in V
      BY <1>5, <1>8, <3>3
    <3> QED BY <3>2, <3>4
  <2>2. new \in [1 .. n.len -> V]
    BY <2>1
  <2> HIDE DEF new
  <2> QED BY <1>9, <2>2
<1> HIDE DEF new
<1>11. /\ h \in Seq(V) /\ Len(h) = e.len + 1
       /\ \A i \in 1 .. e.len : h[i] = old[i]
       /\ h[e.len + 1] = last
  BY <1>1, <1>4, <1>5
<1> HIDE DEF h
<1>12. new = IF Len(h) > Limit THEN Tail(h) ELSE h
  <2>1. CASE excess = 0
    <3>1. ASSUME NEW i \in 1 .. n.len PROVE new[i] = h[i]
      <4>1. CASE i = e.len + 1
        BY <1>1, <1>8, <1>11, <2>1, <4>1
      <4>2. CASE i # e.len + 1
        <5>1. i \in 1 .. e.len /\ i + excess <= e.len /\ i + excess = i
          BY <1>1, <1>9, <2>1, <4>2
        <5> QED BY <1>8, <1>11, <5>1
      <4> QED BY <4>1, <4>2
    <3>2. new = h
      BY <1>1, <1>9, <1>10, <1>11, <2>1, <3>1
    <3> QED BY <1>6, <1>11, <2>1, <3>2
  <2>2. CASE excess = 1
    <3>1. /\ Tail(h) \in Seq(V) /\ Len(Tail(h)) = e.len
          /\ \A i \in 1 .. e.len : Tail(h)[i] = h[i + 1]
      BY <1>1, <1>11
    <3>2. \A i \in 1 .. e.len : new[i] = h[i + 1]
      BY <1>1, <1>8, <1>9, <1>11, <2>2
    <3>3. new = Tail(h)
      BY <1>1, <1>9, <1>10, <2>2, <3>1, <3>2
    <3> QED BY <1>6, <1>11, <2>2, <3>3
  <2> QED BY <1>6, <2>1, <2>2
<1>13. View(n, FiledArrays(e)).history = new
  BY DEF View, new
<1>14. Versions!Filed(View(e, arrays)) = IF Len(h) > Limit THEN Tail(h) ELSE h
  <2>1. /\ View(e, arrays).history = old
        /\ [version |-> View(e, arrays).version, data |-> View(e, arrays).data,
            meta |-> View(e, arrays).meta] = last
    BY DEF View, old, last, ViewRecord, Snapshot
  <2> QED BY <2>1 DEF Versions!Filed, h
<1>15. /\ View(n, FiledArrays(e)).version = View(e, arrays).version + 1
       /\ View(n, FiledArrays(e)).trashed = "no"
  BY DEF View, Succeeded
<1> QED BY <1>12, <1>13, <1>14, <1>15
(* Filing the state of one entry shows in no other entry's array. *)
LEMMA FiledOthers ==
  ASSUME HistoryInv, Apart, ArrayLeft, NEW p \in Path, secrets[p] # None,
         NEW q \in Path \ {p}, secrets[q] # None, secrets[q].arr \in Array
  PROVE  FiledArrays(secrets[p])[secrets[q].arr] = arrays[secrets[q].arr]
<1> DEFINE e == secrets[p]
           a == secrets[q].arr
<1>1. arrays \in [Array -> Seq(Record)]
  BY DEF HistoryInv, Sound
<1>2. a # FreshArray
  BY FreshArrayUnused DEF UsedArrays
<1>3. a # None /\ a # e.arr
  BY DEF Apart
<1>4. /\ e.len < Capacity(e, arrays)
         => FiledArrays(e) = [arrays EXCEPT ![e.arr][e.off + e.len + 1] = Snapshot(e)]
      /\ ~(e.len < Capacity(e, arrays))
         => \E c : FiledArrays(e) = [arrays EXCEPT ![FreshArray] = c]
  BY DEF FiledArrays
<1> HIDE DEF e, a
<1>5. FiledArrays(e)[a] = arrays[a]
  BY <1>1, <1>2, <1>3, <1>4, a \in Array DEF a
<1> QED BY <1>5 DEF e, a

(* Where nobody copies, an entry gets the array of an entry it replaces or *)
(* one nobody uses.                                                        *)
LEMMA FiledArr ==
  ASSUME NEW e, NEW d, NEW x
  PROVE  Succeeded(e, d, x).arr \in {e.arr, FreshArray}
BY DEF Succeeded, FiledSlice

LEMMA ReplaceApart ==
  ASSUME HistoryInv, Apart, NEW p \in Path, NEW n,
         \/ n.arr = None
         \/ secrets[p] # None /\ n.arr = secrets[p].arr
         \/ n.arr \notin UsedArrays(secrets),
         secrets' = [secrets EXCEPT ![p] = n]
  PROVE  Apart'
<1>1. secrets \in [Path -> Entry \cup {None}]
  BY DEF HistoryInv, Sound
<1>2. ASSUME NEW q \in Path, NEW r \in Path, q # r,
             secrets'[q] # None, secrets'[r] # None
      PROVE  secrets'[q].arr = None \/ secrets'[q].arr # secrets'[r].arr
  <2>1. CASE q # p /\ r # p
    BY <1>1, <1>2, <2>1 DEF Apart
  <2>2. CASE q = p
    BY <1>1, <1>2, <2>2 DEF Apart, UsedArrays
  <2>3. CASE r = p
    BY <1>1, <1>2, <2>3 DEF Apart, UsedArrays
  <2> QED BY <2>1, <2>2, <2>3
<1> QED BY <1>2 DEF Apart

LEMMA NextKeepsApart ==
  ASSUME HistoryInv, Apart, ~MayCopy, [HistoryNext]_historyVars
  PROVE  Apart'
<1>1. secrets \in [Path -> Entry \cup {None}]
  BY DEF HistoryInv, Sound
<1>2. ASSUME NEW p \in Path, NEW d, NEW x, NEW v,
             secrets' = [secrets EXCEPT ![p] = Plain(v, d, x)]
      PROVE  Apart'
  <2>1. Plain(v, d, x).arr = None
    BY DEF Plain
  <2> QED BY <1>2, <2>1, ReplaceApart
<1>3. ASSUME NEW p \in Path, NEW d, NEW x, ArrayLeft, NEW e, e.arr = secrets[p].arr,
             secrets[p] # None, secrets' = [secrets EXCEPT ![p] = Succeeded(e, d, x)]
      PROVE  Apart'
  <2> DEFINE n == Succeeded(e, d, x)
  <2>1. n.arr \in {secrets[p].arr, FreshArray}
    BY <1>3, FiledArr
  <2>2. FreshArray \notin UsedArrays(secrets)
    BY <1>3, FreshArrayUnused
  <2> HIDE DEF n
  <2>3. secrets' = [secrets EXCEPT ![p] = n]
    BY <1>3 DEF n
  <2> QED BY <1>3, <2>1, <2>2, <2>3, ReplaceApart
<1>4. ASSUME NEW p \in Path, secrets[p] # None, NEW n, n.arr = secrets[p].arr,
             secrets' = [secrets EXCEPT ![p] = n]
      PROVE  Apart'
  BY <1>4, ReplaceApart
<1>5. ASSUME NEW p \in Path, NEW d \in Data, NEW m, Create(p, d, m)
      PROVE  Apart'
  BY <1>2, <1>5 DEF Create, Store
<1>6. ASSUME NEW p \in Path, NEW d \in Data, NEW m, Set(p, d, m)
      PROVE  Apart'
  BY <1>1, <1>3, <1>6 DEF Set, Store, Stored
<1>7. ASSUME NEW p \in Path, NEW d \in Data, NEW m \in Meta, Relabel(p, d, m)
      PROVE  Apart'
  <2> DEFINE x == IF secrets[p].map = None THEN FreshMap ELSE secrets[p].map
             n == [[secrets[p] EXCEPT !.data = d] EXCEPT !.map = x]
  <2>1. secrets[p] # None /\ secrets[p] \in Entry
    BY <1>7, StoredFields DEF Relabel
  <2>2. n.arr = secrets[p].arr
    BY <2>1 DEF Entry
  <2>3. secrets' = [secrets EXCEPT ![p] = n]
    BY <1>1, <1>7 DEF Relabel, Store
  <2> QED BY <1>4, <2>1, <2>2, <2>3
<1>8. ASSUME NEW p \in Path, NEW i \in 1 .. Limit, Rollback(p, i)
      PROVE  Apart'
  <2> DEFINE e == [secrets[p] EXCEPT !.version = IF @ = 0 THEN 1 ELSE @]
             found == History(e, arrays)[i]
  <2>1. secrets[p] # None /\ secrets[p] \in Entry
    BY <1>8, StoredFields DEF Rollback
  <2>2. e.arr = secrets[p].arr
    BY <2>1 DEF Entry
  <2>3. secrets' = [secrets EXCEPT ![p] = Succeeded(e, found.data, found.map)]
    BY <1>8 DEF Rollback, Store
  <2> HIDE DEF e, found
  <2> QED BY <1>3, <1>8, <2>1, <2>2, <2>3 DEF Rollback
<1>9. ASSUME NEW p \in Path, Delete(p) \/ RestoreDeleted(p)
      PROVE  Apart'
  <2>1. secrets[p] # None /\ secrets[p] \in Entry
    BY <1>9, StoredFields DEF Delete, RestoreDeleted
  <2>2. PICK t \in {"yes", "no"} :
          secrets' = [secrets EXCEPT ![p] = [secrets[p] EXCEPT !.trashed = t]]
    BY <1>1, <1>9 DEF Delete, RestoreDeleted, Store
  <2>3. [secrets[p] EXCEPT !.trashed = t].arr = secrets[p].arr
    BY <2>1 DEF Entry
  <2> QED BY <1>4, <2>1, <2>2, <2>3
<1>10. ASSUME NEW p \in Path, Purge(p)
       PROVE  Apart'
  BY <1>1, <1>10 DEF Purge, Store, Apart
<1>11. ASSUME NEW p \in Path, NEW d \in Data, NEW v \in {0, 1}, Restore(p, d, v)
       PROVE  Apart'
  BY <1>2, <1>11 DEF Restore, Store
<1>12. ASSUME NEW p \in Path, NEW q \in Path, Rename(p, q)
       PROVE  Apart'
  BY <1>1, <1>12 DEF Rename, Store, Apart, Stored
<1>13. CASE UNCHANGED historyVars
  BY <1>13 DEF historyVars, Apart
<1> QED
  BY <1>5, <1>6, <1>7, <1>8, <1>9, <1>10, <1>11, <1>12, <1>13 DEF HistoryNext, Copy
LEMMA SeenIsViewNext ==
  (HistoryInv /\ MapsTyped /\ Meta = {NilMeta} =>
     \A p \in Path :
       Seen(p) = IF secrets[p] = None THEN None ELSE View(secrets[p], arrays))'
BY SeenIsView, PTL

\* What a client sees after one operation.
LEMMA SeenAfter ==
  ASSUME HistoryInv, MapsTyped', Meta = {NilMeta},
         NEW s, NEW as, NEW ms, Sound(s, as), Store(s, as, ms)
  PROVE  /\ secrets' = s
         /\ \A q \in Path : Seen(q)' = IF s[q] = None THEN None ELSE View(s[q], as)
<1>1. HistoryInv'
  BY StoreSound
<1>2. \A q \in Path :
        Seen(q)' = IF secrets'[q] = None THEN None ELSE View(secrets'[q], arrays')
  BY <1>1, SeenIsViewNext
<1> QED BY <1>2, StoreView

(* An operation on one path that does to its entry what SecretVersions     *)
(* allows is one of its steps.                                             *)
LEMMA ChangeRefines ==
  ASSUME HistoryInv, MapsTyped, MapsTyped', Meta = {NilMeta}, NEW p \in Path, NEW n,
         NEW as, NEW ms, Sound([secrets EXCEPT ![p] = n], as),
         Store([secrets EXCEPT ![p] = n], as, ms),
         \A q \in Path \ {p} : secrets[q] # None /\ secrets[q].arr \in Array
           => as[secrets[q].arr] = arrays[secrets[q].arr],
         NEW old, old = IF secrets[p] = None THEN None ELSE View(secrets[p], arrays),
         NEW new, new = IF n = None THEN None ELSE View(n, as),
         \/ Versions!Created(old, new) \/ Versions!Replaced(old, new)
         \/ Versions!Adjusted(old, new) \/ Versions!Purged(old, new)
  PROVE  Versions!Next
<1> DEFINE s == [secrets EXCEPT ![p] = n]
<1>1. /\ secrets \in [Path -> Entry \cup {None}]
      /\ arrays \in [Array -> Seq(Record)]
      /\ \A q \in Path : secrets[q] # None => SoundEntry(secrets[q], arrays)
  BY DEF HistoryInv, Sound
<1>2. s[p] = n /\ \A q \in Path \ {p} : s[q] = secrets[q]
  BY <1>1
<1> HIDE DEF s
<1>3. \A q \in Path : Seen(q)' = IF s[q] = None THEN None ELSE View(s[q], as)
  BY SeenAfter DEF s
<1>4. \A q \in Path :
        Seen(q) = IF secrets[q] = None THEN None ELSE View(secrets[q], arrays)
  BY SeenIsView
<1>5. ASSUME NEW q \in Path \ {p}
      PROVE  Seen(q)' = Seen(q)
  <2>1. CASE secrets[q] = None
    BY <1>2, <1>3, <1>4, <2>1
  <2>2. CASE secrets[q] # None
    <3>1. View(secrets[q], as) = View(secrets[q], arrays)
      BY <1>1, <2>2, ViewAlike
    <3> QED BY <1>2, <1>3, <1>4, <2>2, <3>1
  <2> QED BY <2>1, <2>2
<1>6. Seen(p) = old /\ Seen(p)' = new
  BY <1>2, <1>3, <1>4
<1>7. Versions!Only({p})
  BY <1>5 DEF Versions!Only
<1>8. Versions!Change(p)
  BY <1>6 DEF Versions!Change
<1> QED BY <1>7, <1>8 DEF Versions!Next

(* A write and a rollback: the old state is filed, whoever else's array    *)
(* the entry lay next to.                                                  *)
LEMMA FilingRefines ==
  ASSUME HistoryInv, Apart, MapsTyped, MapsTyped', Meta = {NilMeta},
         NEW p \in Path, secrets[p] # None, ArrayLeft,
         NEW d \in Data, NEW x \in Map \cup {None}, NEW ms,
         Store([secrets EXCEPT ![p] = Succeeded(secrets[p], d, x)],
               FiledArrays(secrets[p]), ms)
  PROVE  Versions!Next
<1> DEFINE e == secrets[p]
           n == Succeeded(e, d, x)
           as == FiledArrays(e)
<1>1. Sound([secrets EXCEPT ![p] = n], as)
  BY FiledSound
<1>2. \A q \in Path \ {p} : secrets[q] # None /\ secrets[q].arr \in Array
        => as[secrets[q].arr] = arrays[secrets[q].arr]
  BY FiledOthers
<1>3. /\ View(n, as).version = View(e, arrays).version + 1
      /\ View(n, as).history = Versions!Filed(View(e, arrays))
      /\ View(n, as).trashed = "no"
  BY FiledView
<1>4. n # None
  <2>1. e \in Entry /\ e.len \in Nat /\ e.off \in Nat /\ e.version \in Nat
        /\ e.arr \in Array \cup {None}
    BY DEF HistoryInv, Sound, Entry
  <2>2. FiledSlice(e).arr \in Array \cup {None} /\ FiledSlice(e).off \in Nat
        /\ FiledSlice(e).len \in Nat
    BY <2>1, FreshArrayUnused DEF FiledSlice
  <2>3. n \in Entry
    <3> HIDE DEF e
    <3> QED BY <2>1, <2>2 DEF Succeeded, Entry
  <2> QED BY <2>3
<1>5. View(n, as) # None /\ View(e, arrays) # None
  <2>1. [secrets EXCEPT ![p] = n][p] = n /\ SoundEntry(e, arrays)
        /\ as \in [Array -> Seq(Record)] /\ arrays \in [Array -> Seq(Record)]
    BY <1>1 DEF HistoryInv, Sound
  <2>2. SoundEntry(n, as)
    BY <1>1, <1>4, <2>1 DEF Sound
  <2> HIDE DEF n, e, as
  <2> QED BY <2>1, <2>2, ViewType
<1> QED
  BY <1>1, <1>2, <1>3, <1>4, <1>5, ChangeRefines DEF Versions!Replaced

(* An operation that leaves the arrays alone. *)
LEMMA PlainRefines ==
  ASSUME HistoryInv, MapsTyped, MapsTyped', Meta = {NilMeta}, NEW p \in Path,
         NEW v \in {0, 1}, NEW d \in Data, NEW x \in Map \cup {None}, NEW ms,
         Store([secrets EXCEPT ![p] = Plain(v, d, x)], arrays, ms)
  PROVE  Versions!Next
<1> DEFINE n == Plain(v, d, x)
           new == View(n, arrays)
<1>1. SoundEntry(n, arrays) /\ n.arr = None /\ n \in Entry
  <2>1. v \in Nat
    OBVIOUS
  <2>2. SoundEntry(n, arrays) /\ n.arr = None
    BY <2>1, PlainSound
  <2> HIDE DEF n
  <2> QED BY <2>2 DEF SoundEntry
<1>2. new.version = v /\ new.history = << >>
  <2>1. n.version = v /\ n.len = 0
    BY DEF Plain
  <2> HIDE DEF n
  <2>2. 1 .. n.len = {}
    BY <2>1
  <2>3. new.version = n.version
        /\ new.history = [i \in 1 .. n.len |-> ViewRecord(arrays[n.arr][n.off + i])]
    BY DEF View
  <2> HIDE DEF new
  <2> QED BY <2>1, <2>2, <2>3
<1> HIDE DEF n
<1>3. Sound([secrets EXCEPT ![p] = n], arrays)
  BY <1>1, ReplaceSound DEF InStep, HistoryInv
<1>4. new # None
  BY <1>1, ViewType DEF HistoryInv, Sound
<1>5. n # None
  BY <1>1
<1> HIDE DEF new
<1>6. \A old : Versions!Created(old, new)
  BY <1>2, <1>4 DEF Versions!Created
<1>7. Store([secrets EXCEPT ![p] = n], arrays, ms)
  BY DEF n
<1> QED
  BY <1>3, <1>5, <1>6, <1>7, ChangeRefines DEF new

LEMMA FieldsRefine ==
  ASSUME HistoryInv, MapsTyped, MapsTyped', Meta = {NilMeta}, NEW p \in Path,
         secrets[p] # None, NEW n \in Entry,
         n.version = secrets[p].version, n.arr = secrets[p].arr,
         n.off = secrets[p].off, n.len = secrets[p].len, NEW ms,
         Store([secrets EXCEPT ![p] = n], arrays, ms)
  PROVE  Versions!Next
<1> DEFINE old == View(secrets[p], arrays)
           new == View(n, arrays)
<1>1. Sound([secrets EXCEPT ![p] = n], arrays)
  BY FieldsSound DEF HistoryInv
<1>2. n # None /\ arrays \in [Array -> Seq(Record)] /\ SoundEntry(secrets[p], arrays)
  BY DEF HistoryInv, Sound
<1>3. SoundEntry(n, arrays)
  BY <1>2 DEF SoundEntry
<1>4. old # None /\ new # None
  BY <1>2, <1>3, ViewType
<1>5. new.version = old.version /\ new.history = old.history
  BY DEF View
<1>6. Versions!Adjusted(old, new)
  BY <1>4, <1>5 DEF Versions!Adjusted
<1> HIDE DEF old, new
<1> QED
  BY <1>1, <1>2, <1>6, ChangeRefines DEF old, new

(* A rename carries the entry over whole. *)
LEMMA RenameRefines ==
  ASSUME HistoryInv, MapsTyped, MapsTyped', Meta = {NilMeta},
         NEW p \in Path, NEW q \in Path, Rename(p, q)
  PROVE  Versions!Next \/ UNCHANGED Versions!vars
<1> DEFINE s == [[secrets EXCEPT ![p] = None] EXCEPT ![q] = secrets[p]]
<1>1. /\ secrets \in [Path -> Entry \cup {None}] /\ secrets[p] # None
      /\ arrays \in [Array -> Seq(Record)]
      /\ SoundEntry(secrets[p], arrays)
  BY DEF HistoryInv, Sound, Rename, Stored
<1>2. Sound(s, arrays)
  <2> DEFINE t == [secrets EXCEPT ![p] = None]
  <2>1. Sound(t, arrays)
    BY DropSound DEF HistoryInv
  <2>2. \A r \in Path \ {q} : t[r] # None => InStep(secrets[p], t[r])
    BY <1>1 DEF HistoryInv, Sound
  <2> HIDE DEF t
  <2> QED BY <1>1, <2>1, <2>2, ReplaceSound DEF t
<1>3. Store(s, arrays, maps)
  BY DEF Rename
<1>4. /\ s[q] = secrets[p]
      /\ p # q => s[p] = None
      /\ \A r \in Path \ {p, q} : s[r] = secrets[r]
  BY <1>1
<1> HIDE DEF s
<1>5. \A r \in Path : Seen(r)' = IF s[r] = None THEN None ELSE View(s[r], arrays)
  BY <1>2, <1>3, SeenAfter
<1>6. \A r \in Path :
        Seen(r) = IF secrets[r] = None THEN None ELSE View(secrets[r], arrays)
  BY SeenIsView
<1>7. Seen(q)' = Seen(p) /\ Seen(p) # None
  BY <1>1, <1>4, <1>5, <1>6, ViewType
<1>8. \A r \in Path \ {p, q} : Seen(r)' = Seen(r)
  BY <1>4, <1>5, <1>6
<1>9. CASE p = q
  <2>1. \A r \in Path : Seen(r)' = Seen(r)
    BY <1>7, <1>8, <1>9
  <2> QED BY <2>1 DEF Versions!vars
<1>10. CASE p # q
  <2>1. Seen(p)' = None
    BY <1>4, <1>5, <1>10
  <2>2. Versions!Only({p, q}) /\ Versions!Move(p, q)
    BY <1>7, <1>8, <2>1 DEF Versions!Only, Versions!Move
  <2> QED BY <1>10, <2>2 DEF Versions!Next
<1> QED BY <1>9, <1>10

LEMMA NextRefines ==
  ASSUME HistoryInv, Apart, MapsTyped, MapsTyped', ~MayCopy, Meta = {NilMeta}, HistoryNext
  PROVE  Versions!Next \/ UNCHANGED Versions!vars
<1>1. ASSUME NEW p \in Path, NEW d \in Data,
             NEW m \in (Meta \ {NilMeta}) \cup {None}, Create(p, d, m)
      PROVE  Versions!Next
  <2>1. NewMap(m) \in Map \cup {None}
    BY <1>1, NewMapType DEF Create
  <2> QED BY <1>1, <2>1, PlainRefines DEF Create
<1>2. ASSUME NEW p \in Path, NEW d \in Data,
             NEW m \in (Meta \ {NilMeta}) \cup {None}, Set(p, d, m)
      PROVE  Versions!Next
  <2>1. NewMap(m) \in Map \cup {None}
    BY <1>2, NewMapType DEF Set
  <2>2. secrets[p] # None /\ ArrayLeft
    BY <1>2, StoredFields DEF Set
  <2>3. Store([secrets EXCEPT ![p] = Succeeded(secrets[p], d, NewMap(m))],
              FiledArrays(secrets[p]), NewMaps(m))
    BY <1>2 DEF Set
  <2> QED BY <2>1, <2>2, <2>3, FilingRefines
<1>3. ASSUME NEW p \in Path, NEW d \in Data, NEW m \in Meta, Relabel(p, d, m)
      PROVE  Versions!Next
  <2> DEFINE x == IF secrets[p].map = None THEN FreshMap ELSE secrets[p].map
             n == [[secrets[p] EXCEPT !.data = d] EXCEPT !.map = x]
             ms == [maps EXCEPT ![x] = m]
  <2>1. secrets[p] # None /\ secrets[p] \in Entry
    BY <1>3, StoredFields DEF Relabel
  <2>2. x \in Map \cup {None}
    BY <1>3, <2>1 DEF Relabel, MapLeft, FreshMap, Entry
  <2>3. /\ n \in Entry /\ n.version = secrets[p].version
        /\ n.arr = secrets[p].arr /\ n.off = secrets[p].off
        /\ n.len = secrets[p].len
    BY <2>1, <2>2 DEF Entry
  <2>4. [secrets EXCEPT ![p].data = d, ![p].map = x] = [secrets EXCEPT ![p] = n]
    BY DEF HistoryInv, Sound
  <2>5. Store([secrets EXCEPT ![p].data = d, ![p].map = x], arrays, ms)
    BY <1>3 DEF Relabel
  <2> HIDE DEF x, n, ms
  <2> QED BY <2>1, <2>3, <2>4, <2>5, FieldsRefine
<1>4. ASSUME NEW p \in Path, NEW i \in 1 .. Limit, Rollback(p, i)
      PROVE  Versions!Next
  <2> DEFINE e == secrets[p]
             found == History(e, arrays)[i]
  <2>1. e # None /\ e \in Entry /\ i \in 1 .. e.len
    BY <1>4, StoredFields DEF Rollback
  <2>2. found.data \in Data /\ found.map \in Map \cup {None}
    BY <1>4, FoundVersion
  <2>3. [e EXCEPT !.version = IF @ = 0 THEN 1 ELSE @] = e
    BY <1>4, FoundVersion
  <2>4. ArrayLeft /\ Store([secrets EXCEPT ![p] = Succeeded(e, found.data, found.map)],
                           FiledArrays(e), maps)
    BY <1>4, <2>3 DEF Rollback
  <2> HIDE DEF found
  <2> QED BY <2>1, <2>2, <2>4, FilingRefines
<1>5. ASSUME NEW p \in Path, Delete(p) \/ RestoreDeleted(p)
      PROVE  Versions!Next
  <2>1. secrets[p] # None /\ secrets[p] \in Entry
    BY <1>5, StoredFields DEF Delete, RestoreDeleted
  <2>2. PICK t \in {"yes", "no"} :
          Store([secrets EXCEPT ![p] = [secrets[p] EXCEPT !.trashed = t]], arrays, maps)
    BY <1>5 DEF Delete, RestoreDeleted
  <2> DEFINE n == [secrets[p] EXCEPT !.trashed = t]
  <2>3. /\ n \in Entry /\ n.version = secrets[p].version
        /\ n.arr = secrets[p].arr /\ n.off = secrets[p].off
        /\ n.len = secrets[p].len
    BY <2>1 DEF Entry
  <2>4. Store([secrets EXCEPT ![p] = n], arrays, maps)
    BY <2>2
  <2> HIDE DEF n
  <2> QED BY <2>1, <2>3, <2>4, FieldsRefine
<1>6. ASSUME NEW p \in Path, Purge(p)
      PROVE  Versions!Next
  <2>1. Sound([secrets EXCEPT ![p] = None], arrays)
    BY DropSound DEF HistoryInv
  <2>2. \A old : Versions!Purged(old, None)
    BY DEF Versions!Purged
  <2> QED BY <1>6, <2>1, <2>2, ChangeRefines DEF Purge
<1>7. ASSUME NEW p \in Path, NEW d \in Data, NEW v \in {0, 1}, Restore(p, d, v)
      PROVE  Versions!Next
  <2>1. None \in Map \cup {None}
    OBVIOUS
  <2> QED BY <1>7, <2>1, PlainRefines DEF Restore
<1>8. ASSUME NEW p \in Path, NEW q \in Path, Rename(p, q)
      PROVE  Versions!Next \/ UNCHANGED Versions!vars
  BY <1>8, RenameRefines
<1> HIDE DEF Versions!Next
<1> QED
  BY <1>1, <1>2, <1>3, <1>4, <1>5, <1>6, <1>7, <1>8 DEF HistoryNext, Copy

(* Where nobody copies and metadata is all alike, whatever arrays appends  *)
(* move to, fill and cut, a client sees a history that gains just the      *)
(* version replaced and loses just the oldest, and nothing that is done to *)
(* one path shows on another.                                              *)
THEOREM VersionsImplemented ==
  ASSUME ~MayCopy, Meta = {NilMeta}
  PROVE  HistorySpec => VersionsKept
<1>1. HistoryInit => HistoryInv /\ MapsTyped /\ Apart
  <2>1. << >> \in Seq(Record)
    OBVIOUS
  <2> QED BY <2>1 DEF HistoryInit, HistoryInv, Sound, MapsTyped, Apart
<1>2. HistoryInv /\ MapsTyped /\ Apart /\ [HistoryNext]_historyVars => (HistoryInv /\ MapsTyped /\ Apart)'
  BY NextKeepsIInv, NextKeepsMaps, NextKeepsApart
<1>3. HistoryInit => Versions!Init
  BY DEF HistoryInit, Versions!Init, Seen
<1>4. HistoryInv /\ MapsTyped /\ MapsTyped' /\ Apart /\ [HistoryNext]_historyVars
        => [Versions!Next]_(Versions!vars)
  <2>1. ASSUME UNCHANGED historyVars
        PROVE  UNCHANGED Versions!vars
    BY <2>1 DEF historyVars, Seen, MetaOf, History, Versions!vars
  <2> QED BY <2>1, NextRefines
<1> QED
  BY <1>1, <1>2, <1>3, <1>4, PTL DEF HistorySpec, VersionsKept, Versions!Spec
=============================================================================
