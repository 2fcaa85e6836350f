--------------------------- MODULE DaemonSession ---------------------------
(***************************************************************************)
(* The session of one profile's daemon (internal/daemon): `open`, the      *)
(* token and expiry gate of processRequest, the operations behind it, the  *)
(* hijack check of handleConnection, the expiry ticker, Stop, and the exit *)
(* and restart of the process.                                             *)
(*                                                                         *)
(* processRequest holds d.mu from its first line to its return, so a       *)
(* request is one action; the hijack check and the decoding run before the *)
(* lock is taken, so a connection is first admitted and later handled, and *)
(* other connections, the ticker and signals run in between.  The ticker   *)
(* gives the lock up between deciding to terminate and calling Stop, so    *)
(* these are two actions.                                                  *)
(*                                                                         *)
(* Time is a natural number and 0 is Go's zero time.  What a secret        *)
(* operation does to the vault's entries is the subject of SecretHistory;  *)
(* here an operation is its class: does it slide the grace window, does it *)
(* write the vault file.  Hot reload (`reexec`) is the subject of          *)
(* HotReload.                                                              *)
(***************************************************************************)
EXTENDS Integers, FiniteSets

CONSTANTS
  Client,        \* concurrent connections
  Key,           \* 32-byte master keys
  NoKey,         \* a nil masterKey; no vault file
  TTL,           \* session durations a request may ask for
  Grace,         \* grace durations a request may ask for
  Unset,         \* a duration the request leaves empty
  DefaultTTL,    \* 8h, NewDaemon's argument in runDaemon
  DefaultGrace,  \* 30m
  Op,            \* the secret operations clients call
  IdleLimit,     \* 1h: idleTimeout's default
  MaxTime,       \* bound on the clock
  MaxToken       \* bound on the number of sessions

ASSUME KeyAssumption == NoKey \notin Key
ASSUME DurationAssumption ==
  /\ TTL \subseteq Int
  /\ Grace \subseteq Int
  /\ Unset \notin Int
  /\ DefaultTTL \in Nat \ {0}
  /\ DefaultGrace \in Nat
  /\ IdleLimit \in Nat
ASSUME BoundAssumption == MaxTime \in Nat /\ MaxToken \in Nat

(* Operations that set lastUsed on success, and those that do not. *)
SlidingOps == {"get", "set", "relabel", "delete", "restore_deleted", "backup",
               "restore", "list", "get_group", "rename", "copy", "history",
               "rollback", "status"}
PlainOps   == {"audit", "lease"}
(* Operations that end in store.SaveStore. *)
WritingOps == {"set", "relabel", "delete", "restore_deleted", "restore",
               "rename", "copy", "rollback"}
(* Operations that may save too, and succeed even if the save fails. *)
BestEffortOps == {"get", "lease"}

ASSUME OpAssumption == Op \subseteq SlidingOps \cup PlainOps

VARIABLES
  \* the environment
  now,            \* the clock
  vaultKey,       \* the key the vault file is encrypted under
  socket,         \* is the socket on disk the one this daemon bound
  \* the process
  proc,           \* "serving", "stopped" (Stop ran), "exited"
  admitted,       \* connections past the hijack check, waiting for d.mu
  ticker,         \* "waiting", the reason it is about to call Stop, "done"
  \* fields of Daemon
  masterKey, secretsStore, sessionStart, sessionTTL, lastUsed, graceTTL,
  sessionToken,   \* 0 is the empty token
  prodConfirmed, lastActivity,
  \* history
  issued,         \* tokens drawn so far
  revoked,        \* the last token whose session was wiped
  confirmedFor,   \* the token of the session `confirm_prod` was sent to
  reply           \* the answer this step sent and the token it was asked with

envVars     == <<now, vaultKey, socket>>
procVars    == <<proc, admitted, ticker>>
wipedVars   == <<masterKey, secretsStore, sessionStart, lastUsed,
                 sessionToken, prodConfirmed, revoked>>
limitVars   == <<sessionTTL, graceTTL>>
tokenVars   == <<issued, confirmedFor>>
vars == <<now, vaultKey, socket, proc, admitted, ticker, masterKey,
          secretsStore, sessionStart, sessionTTL, lastUsed, graceTTL,
          sessionToken, prodConfirmed, lastActivity, issued, revoked,
          confirmedFor, reply>>

ReplyKinds == {"none", "opened", "extended", "served",
               "failed", "locked", "denied", "cleared", "hijacked"}
Token == 0 .. MaxToken

TypeOK ==
  /\ now \in 1 .. MaxTime + 1
  /\ vaultKey \in Key \cup {NoKey}
  /\ socket \in {"ours", "lost"}
  /\ proc \in {"serving", "stopped", "exited"}
  /\ admitted \in SUBSET Client
  /\ ticker \in {"waiting", "displaced", "idle", "done"}
  /\ masterKey \in Key \cup {NoKey}
  /\ secretsStore \in {"nil", "loaded"}
  /\ sessionStart \in Nat
  /\ sessionTTL \in Int
  /\ lastUsed \in Nat
  /\ graceTTL \in Int
  /\ sessionToken \in Nat
  /\ prodConfirmed \in {"no", "yes"}
  /\ lastActivity \in Nat
  /\ issued \in Nat
  /\ revoked \in Nat
  /\ confirmedFor \in Nat
  /\ reply \in [kind : ReplyKinds, tok : Nat]
-----------------------------------------------------------------------------
(* A broken Expired: the deadline itself is already too late. *)
ExpiredTooEarly ==
  /\ sessionStart # 0
  /\ now - sessionStart >= sessionTTL
  /\ (lastUsed # 0) => now - lastUsed >= graceTTL

(* Daemon.isExpired: neither the TTL nor the grace window covers now. *)
Expired ==
  /\ sessionStart # 0
  /\ now - sessionStart > sessionTTL
  /\ (lastUsed # 0) => now - lastUsed > graceTTL

(* Broken wipes: one leaves the last use behind, one the confirmation. *)
WipeKeepsLastUsed ==
  /\ masterKey' = NoKey
  /\ secretsStore' = "nil"
  /\ sessionStart' = 0
  /\ lastUsed' = lastUsed
  /\ sessionToken' = 0
  /\ prodConfirmed' = "no"
  /\ revoked' = IF sessionToken # 0 THEN sessionToken ELSE revoked
WipeKeepsConfirmation ==
  /\ masterKey' = NoKey
  /\ secretsStore' = "nil"
  /\ sessionStart' = 0
  /\ lastUsed' = 0
  /\ sessionToken' = 0
  /\ prodConfirmed' = prodConfirmed
  /\ revoked' = IF sessionToken # 0 THEN sessionToken ELSE revoked

(* Daemon.wipeMemory.  The durations and lastActivity survive it. *)
WipeMemory ==
  /\ masterKey' = NoKey
  /\ secretsStore' = "nil"
  /\ sessionStart' = 0
  /\ lastUsed' = 0
  /\ sessionToken' = 0
  /\ prodConfirmed' = "no"
  /\ revoked' = IF sessionToken # 0 THEN sessionToken ELSE revoked

(* A broken gate that only asks that there be a session. *)
AnyTokenAccepted(tok) == tok \in Nat

(* The gate of processRequest for every action but open and ping, after   *)
(* the wipe of an expired session.                                         *)
Locked == Expired \/ sessionToken = 0 \/ masterKey = NoKey
TokenAccepted(tok) == tok = 0 \/ tok = sessionToken

NoReply == [kind |-> "none", tok |-> 0]

(* A request of connection c reaches processRequest and is answered. *)
Answer(c, kind, tok) ==
  /\ c \in admitted
  /\ admitted' = admitted \ {c}
  /\ lastActivity' = now
  /\ reply' = [kind |-> kind, tok |-> tok]
  /\ UNCHANGED <<now, socket, proc, ticker>>
-----------------------------------------------------------------------------
(* handleConnection: a connection whose peer passes isHijacked. *)
Admit(c) ==
  /\ proc = "serving"
  /\ socket = "ours"
  /\ c \notin admitted
  /\ admitted' = admitted \cup {c}
  /\ reply' = NoReply
  /\ UNCHANGED <<envVars, proc, ticker, wipedVars, limitVars, lastActivity,
                 tokenVars>>

(* handleConnection: a peer under remote control gets the session wiped. *)
Hijacked(c) ==
  /\ proc = "serving"
  /\ socket = "ours"
  /\ c \notin admitted
  /\ WipeMemory
  /\ reply' = [kind |-> "hijacked", tok |-> 0]
  /\ UNCHANGED <<envVars, procVars, limitVars, lastActivity, issued,
                 confirmedFor>>

(* A broken `open` that believes the caller's key. *)
OpenUnverified(c, k, ttl, grace) ==
  /\ sessionToken = 0
  /\ issued < MaxToken
  /\ Answer(c, "opened", 0)
  /\ masterKey' = k
  /\ secretsStore' = "loaded"
  /\ sessionStart' = now
  /\ lastUsed' = now
  /\ sessionTTL' = IF ttl = Unset THEN sessionTTL ELSE ttl
  /\ graceTTL' = IF grace = Unset THEN DefaultGrace ELSE grace
  /\ issued' = issued + 1
  /\ sessionToken' = issued + 1
  /\ UNCHANGED <<vaultKey, prodConfirmed, revoked, confirmedFor>>

(* `open`: the key must decrypt the vault, and any key opens a vault that  *)
(* has no file yet.  A session that is already open keeps its token and    *)
(* its production confirmation; a TTL the request leaves out leaves        *)
(* sessionTTL alone.                                                       *)
Open(c, k, ttl, grace) ==
  LET keep == sessionToken # 0 /\ ~Expired IN
  /\ vaultKey \in {NoKey, k}
  /\ keep \/ issued < MaxToken
  /\ Answer(c, "opened", 0)
  /\ masterKey' = k
  /\ secretsStore' = "loaded"
  /\ sessionStart' = now
  /\ lastUsed' = now
  /\ sessionTTL' = IF ttl = Unset THEN sessionTTL ELSE ttl
  /\ graceTTL' = IF grace = Unset THEN DefaultGrace ELSE grace
  /\ IF keep
       THEN UNCHANGED <<sessionToken, prodConfirmed, issued, revoked>>
       ELSE /\ issued' = issued + 1
            /\ sessionToken' = issued + 1
            /\ prodConfirmed' = IF Expired THEN "no" ELSE prodConfirmed
            /\ revoked' = IF Expired /\ sessionToken # 0 THEN sessionToken
                                                         ELSE revoked
  /\ UNCHANGED <<vaultKey, confirmedFor>>

(* `open` with a malformed key, a key that does not decrypt the vault      *)
(* file, or a file that cannot be read.                                    *)
OpenFails(c) ==
  /\ Answer(c, "failed", 0)
  /\ IF Expired THEN WipeMemory ELSE UNCHANGED wipedVars
  /\ UNCHANGED <<vaultKey, limitVars, issued, confirmedFor>>

(* `ping` answers whatever the state of the session. *)
Ping(c) ==
  /\ Answer(c, "none", 0)
  /\ IF Expired THEN WipeMemory ELSE UNCHANGED wipedVars
  /\ UNCHANGED <<vaultKey, limitVars, issued, confirmedFor>>

(* Any other action on a locked or expired session. *)
RefuseLocked(c, tok) ==
  /\ Locked
  /\ Answer(c, "locked", tok)
  /\ IF Expired THEN WipeMemory ELSE UNCHANGED wipedVars
  /\ UNCHANGED <<vaultKey, limitVars, issued, confirmedFor>>

(* Any other action with a token that is not the session's. *)
DenyToken(c, tok) ==
  /\ ~Locked
  /\ ~TokenAccepted(tok)
  /\ Answer(c, "denied", tok)
  /\ UNCHANGED <<vaultKey, wipedVars, limitVars, issued, confirmedFor>>

(* An operation on secrets that succeeds. *)
Use(c, op, tok) ==
  /\ ~Locked
  /\ TokenAccepted(tok)
  /\ Answer(c, "served", tok)
  /\ lastUsed' = IF op \in SlidingOps THEN now ELSE lastUsed
  /\ vaultKey' \in IF op \in WritingOps THEN {masterKey}
                   ELSE IF op \in BestEffortOps THEN {vaultKey, masterKey}
                   ELSE {vaultKey}
  /\ UNCHANGED <<masterKey, secretsStore, sessionStart, sessionToken,
                 prodConfirmed, revoked, limitVars, issued, confirmedFor>>

(* An operation that is turned down: no such secret, expired secret, bad   *)
(* argument, or a vault file that could not be written.                    *)
UseFails(c, tok) ==
  /\ ~Locked
  /\ TokenAccepted(tok)
  /\ Answer(c, "failed", tok)
  /\ UNCHANGED <<vaultKey, wipedVars, limitVars, issued, confirmedFor>>

ConfirmProd(c, tok) ==
  /\ ~Locked
  /\ TokenAccepted(tok)
  /\ Answer(c, "served", tok)
  /\ prodConfirmed' = "yes"
  /\ lastUsed' = now
  /\ confirmedFor' = sessionToken
  /\ UNCHANGED <<vaultKey, masterKey, secretsStore, sessionStart,
                 sessionToken, revoked, limitVars, issued>>

Clear(c, tok) ==
  /\ ~Locked
  /\ TokenAccepted(tok)
  /\ Answer(c, "cleared", tok)
  /\ WipeMemory
  /\ UNCHANGED <<vaultKey, limitVars, issued, confirmedFor>>

(* A broken `extend` that stores the TTL the request leaves out. *)
ExtendStoresUnset(c, tok, ttl, grace) ==
  /\ ~Locked
  /\ tok # 0
  /\ tok = sessionToken
  /\ Answer(c, "extended", tok)
  /\ sessionStart' = now
  /\ lastUsed' = now
  /\ sessionTTL' = ttl
  /\ UNCHANGED <<vaultKey, masterKey, secretsStore, sessionToken,
                 prodConfirmed, revoked, issued, confirmedFor, graceTTL>>

(* `extend` wants the session's token itself, and positive durations: a    *)
(* grace that is not positive is ignored.                                  *)
Extend(c, tok, ttl, grace) ==
  /\ ~Locked
  /\ tok # 0
  /\ tok = sessionToken
  /\ ttl # Unset => ttl > 0
  /\ Answer(c, "extended", tok)
  /\ sessionStart' = now
  /\ lastUsed' = now
  /\ sessionTTL' = IF ttl = Unset THEN DefaultTTL ELSE ttl
  /\ graceTTL' = IF grace = Unset THEN graceTTL
                 ELSE IF grace > 0 THEN grace ELSE graceTTL
  /\ UNCHANGED <<vaultKey, masterKey, secretsStore, sessionToken,
                 prodConfirmed, revoked, issued, confirmedFor>>

(* `extend` with no token, or with a TTL that is not positive. *)
ExtendFails(c, tok, ttl) ==
  /\ ~Locked
  /\ TokenAccepted(tok)
  /\ tok # 0 => ~(ttl # Unset => ttl > 0)
  /\ Answer(c, "denied", tok)
  /\ UNCHANGED <<vaultKey, wipedVars, limitVars, issued, confirmedFor>>
-----------------------------------------------------------------------------
(* expiryTicker, under d.mu: sweep an expired session, then decide whether *)
(* to terminate (shouldAutoTerminateLocked).                               *)
IdleTooLong ==
  /\ sessionStart = 0 \/ Expired
  /\ lastActivity # 0
  /\ now - lastActivity > IdleLimit

(* Broken tickers: one never sweeps, one never looks at its socket. *)
TickerNeverSweeps ==
  /\ proc # "exited"
  /\ ticker = "waiting"
  /\ ticker' = IF socket = "lost" THEN "displaced" ELSE "waiting"
  /\ reply' = NoReply
  /\ UNCHANGED <<envVars, proc, admitted, wipedVars, limitVars, lastActivity,
                 tokenVars>>
TickerIgnoresSocket ==
  /\ proc # "exited"
  /\ ticker = "waiting"
  /\ ticker' = IF IdleTooLong THEN "idle" ELSE "waiting"
  /\ IF Expired THEN WipeMemory ELSE UNCHANGED wipedVars
  /\ reply' = NoReply
  /\ UNCHANGED <<envVars, proc, admitted, limitVars, lastActivity,
                 tokenVars>>

TickerWake ==
  /\ proc # "exited"
  /\ ticker = "waiting"
  /\ ticker' = IF socket = "lost" THEN "displaced"
               ELSE IF IdleTooLong THEN "idle" ELSE "waiting"
  /\ IF Expired THEN WipeMemory ELSE UNCHANGED wipedVars
  /\ reply' = NoReply
  /\ UNCHANGED <<envVars, proc, admitted, limitVars, lastActivity,
                 tokenVars>>

(* Daemon.Stop: memory wiped, listener closed, socket path removed. *)
Stop ==
  /\ WipeMemory
  /\ socket' = "lost"
  /\ proc' = "stopped"
  /\ reply' = NoReply
  /\ UNCHANGED <<now, vaultKey, admitted, limitVars, lastActivity,
                 tokenVars>>

TickerStop ==
  /\ proc # "exited"
  /\ ticker \in {"displaced", "idle"}
  /\ ticker' = "done"
  /\ Stop

(* SIGTERM or SIGINT: runDaemon's signal goroutine calls Stop, even if the *)
(* ticker already has.                                                     *)
SignalStop ==
  /\ proc = "serving" \/ ticker = "done"
  /\ UNCHANGED ticker
  /\ Stop

(* The process ends: after Stop, or killed at any time.  Its memory and    *)
(* the connections it had admitted go with it.                             *)
Exit ==
  /\ proc # "exited"
  /\ proc' = "exited"
  /\ admitted' = {}
  /\ ticker' = "waiting"
  /\ WipeMemory
  /\ reply' = NoReply
  /\ UNCHANGED <<envVars, limitVars, lastActivity, tokenVars>>

(* A new process: NewDaemon and Start on a fresh Daemon. *)
Start ==
  /\ proc = "exited"
  /\ proc' = "serving"
  /\ socket' = "ours"
  /\ sessionTTL' = DefaultTTL
  /\ graceTTL' = 0
  /\ lastActivity' = now
  /\ WipeMemory
  /\ reply' = NoReply
  /\ UNCHANGED <<now, vaultKey, admitted, ticker, tokenVars>>

(* Another process removes or rebinds the socket path. *)
LoseSocket ==
  /\ socket = "ours"
  /\ socket' = "lost"
  /\ reply' = NoReply
  /\ UNCHANGED <<now, vaultKey, procVars, wipedVars, limitVars,
                 lastActivity, tokenVars>>

Tick ==
  /\ now <= MaxTime
  /\ now' = now + 1
  /\ reply' = NoReply
  /\ UNCHANGED <<vaultKey, socket, procVars, wipedVars, limitVars,
                 lastActivity, tokenVars>>
-----------------------------------------------------------------------------
Init ==
  /\ now = 1
  /\ vaultKey \in Key \cup {NoKey}
  /\ socket = "ours"
  /\ proc = "serving"
  /\ admitted = {}
  /\ ticker = "waiting"
  /\ masterKey = NoKey
  /\ secretsStore = "nil"
  /\ sessionStart = 0
  /\ sessionTTL = DefaultTTL
  /\ lastUsed = 0
  /\ graceTTL = 0
  /\ sessionToken = 0
  /\ prodConfirmed = "no"
  /\ lastActivity = now
  /\ issued = 0
  /\ revoked = 0
  /\ confirmedFor = 0
  /\ reply = NoReply

Request(c) ==
  \/ \E k \in Key, ttl \in TTL \cup {Unset}, grace \in Grace \cup {Unset} :
       Open(c, k, ttl, grace)
  \/ OpenFails(c)
  \/ Ping(c)
  \/ \E tok \in Token :
       \/ RefuseLocked(c, tok)
       \/ DenyToken(c, tok)
       \/ \E op \in Op : Use(c, op, tok)
       \/ UseFails(c, tok)
       \/ ConfirmProd(c, tok)
       \/ Clear(c, tok)
       \/ \E ttl \in TTL \cup {Unset} :
            \/ \E grace \in Grace \cup {Unset} : Extend(c, tok, ttl, grace)
            \/ ExtendFails(c, tok, ttl)

Next ==
  \/ \E c \in Client : Admit(c) \/ Hijacked(c) \/ Request(c)
  \/ TickerWake
  \/ TickerStop
  \/ SignalStop
  \/ Exit
  \/ Start
  \/ LoseSocket
  \/ Tick

Spec == Init /\ [][Next]_vars

(* expiryTicker is a goroutine woken every 30s for as long as the process  *)
(* runs; once Stop has closed the listener, Start's accept loop returns    *)
(* and the process ends.                                                   *)
Fairness ==
  /\ WF_vars(TickerWake)
  /\ WF_vars(TickerStop)
  /\ WF_vars(proc = "stopped" /\ Exit)

FairSpec == Spec /\ Fairness
=============================================================================
