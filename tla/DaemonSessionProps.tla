------------------------- MODULE DaemonSessionProps -------------------------
(***************************************************************************)
(* The properties of a vault session: DaemonSession implements             *)
(* SessionPromise, and what ties the fields of Daemon together.            *)
(***************************************************************************)
EXTENDS DaemonSession

(* The last instant isExpired accepts: within the TTL of the start, or     *)
(* within the grace window of the last use.                                *)
Later(s, t) == IF s > t THEN s ELSE t
Deadline ==
  IF sessionStart = 0 THEN 0
  ELSE Later(sessionStart + sessionTTL, lastUsed + graceTTL)

Outcome ==
  CASE reply.kind = "opened"                            -> "opened"
    [] reply.kind = "extended"                         -> "extended"
    [] reply.kind = "served"                           -> "served"
    [] reply.kind \in {"failed", "locked", "denied"}   -> "refused"
    [] reply.kind \in {"cleared", "hijacked"}          -> "revoked"
    [] OTHER                                           -> "none"

Promise == INSTANCE SessionPromise WITH
  authorised <- masterKey # NoKey,
  deadline   <- Deadline,
  grace      <- graceTTL,
  outcome    <- Outcome

(* Whatever the interleaving of connections, ticker, signals and restarts, *)
(* a request is answered from the vault only during a session that was     *)
(* opened and has neither been revoked nor passed its deadline, and        *)
(* refusals never end a live session (processRequest, isExpired,           *)
(* wipeMemory).                                                            *)
PromiseKept == Promise!Spec

(* The fields that make up a session come and go together: a locked daemon *)
(* holds no key, store, token, timestamp or production confirmation, an    *)
(* unlocked one has all it needs to answer (wipeMemory against `open`).    *)
SessionWhole ==
  IF masterKey = NoKey
    THEN /\ secretsStore = "nil"
         /\ sessionStart = 0
         /\ lastUsed = 0
         /\ sessionToken = 0
         /\ prodConfirmed = "no"
    ELSE /\ secretsStore = "loaded"
         /\ sessionToken # 0
         /\ 0 < sessionStart
         /\ sessionStart <= lastUsed
         /\ lastUsed <= now

(* A token handed out for one session is never accepted in a later one:    *)
(* whoever is answered with a token presents the token of the session that *)
(* is open, which is newer than every token whose session was wiped.       *)
StaleTokenRefused ==
  /\ sessionToken # 0 => sessionToken > revoked
  /\ (reply.kind \in {"served", "extended", "cleared"} /\ reply.tok # 0)
       => IF reply.kind = "cleared" THEN reply.tok = revoked
                                    ELSE reply.tok = sessionToken

(* A production confirmation belongs to the session it was given in: no    *)
(* wipe, expiry, re-open or restart carries it to another (confirm_prod,   *)
(* prodConfirmed in wipeMemory).                                           *)
ConfirmationNotInherited == prodConfirmed = "yes" => confirmedFor = sessionToken

(* The key in memory is the key of the vault on disk, so that no save      *)
(* re-encrypts a vault under a key its owner does not have.                *)
KeyMatchesVault ==
  (masterKey # NoKey /\ vaultKey # NoKey) => masterKey = vaultKey
VaultKeyStable == [][vaultKey # NoKey => vaultKey' = vaultKey]_vars

(* The inductive invariant behind the safety properties. *)
IInv ==
  /\ TypeOK
  /\ SessionWhole
  /\ KeyMatchesVault
  /\ ConfirmationNotInherited
  /\ sessionToken <= issued
  /\ revoked <= issued
  /\ StaleTokenRefused
  /\ reply.kind = "opened" => masterKey # NoKey

(* An expired session does not stay in memory: even if nobody calls, the   *)
(* ticker sweeps its key (expiryTicker).                                   *)
ExpiredSwept == (masterKey # NoKey /\ Expired) ~> (masterKey = NoKey \/ ~Expired)

(* A daemon whose socket was taken or removed does not linger: it wipes    *)
(* its memory and ends, whatever its last connections do meanwhile         *)
(* (shouldAutoTerminateLocked, Stop).                                      *)
DisplacedEnds == (socket = "lost" /\ proc = "serving") ~> (proc = "exited")

(* daemon.go:380 "before an expired/locked daemon terminates": the idle    *)
(* timeout never ends a daemon that holds a live session.                  *)
IdleStopOnlyLocked ==
  [][(ticker = "idle" /\ ticker' = "done")
       => (masterKey = NoKey \/ Expired)]_vars
=============================================================================
