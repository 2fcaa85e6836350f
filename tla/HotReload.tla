----------------------------- MODULE HotReload -----------------------------
(***************************************************************************)
(* `sec restart --hot-reload`: the daemon writes its session into a pipe,  *)
(* answers, gives up its socket and its lock, and starts a child process   *)
(* that restores the session from the pipe, takes the lock and binds the   *)
(* socket (internal/daemon/daemon.go: the `reexec` case of processRequest, *)
(* checkAndRestoreReexecState, Start).                                     *)
(*                                                                         *)
(* The handler holds d.mu from the encoding of the payload to the start of *)
(* the child; connections admitted before that wait for it.  Two other     *)
(* threads of the parent do not: closing the listener makes the accept     *)
(* loop of Start return, so the main goroutine removes the PID file and    *)
(* ends the process; and a rival daemon, auto-started by a client whose    *)
(* ping was not answered, may take the lock while nobody holds it.         *)
(***************************************************************************)
EXTENDS Integers, FiniteSets

CONSTANTS
  Path,         \* paths of secrets
  Value,        \* values of secrets
  None,         \* no entry; nobody
  PipeBuffer,   \* entries the kernel buffers for a pipe nobody reads
  MaxWaiting    \* bound on connections waiting for the parent's d.mu

ASSUME NoneAssumption == None \notin Value \cup {"parent", "child", "rival"}
ASSUME PipeAssumption == PipeBuffer \in Nat /\ MaxWaiting \in Nat

Entries == [Path -> Value \cup {None}]
Size(es) == Cardinality({p \in Path : es[p] # None})

(* What a connection asks for; "stop" is the SIGTERM handler's call of     *)
(* Stop, which waits for the same mutex.                                   *)
SetRequest == [kind : {"set", "set_unsaved"}, path : Path, value : Value]
Request    == SetRequest \cup [kind : {"clear", "reexec", "stop"}]

VARIABLES
  handler,  \* the parent's holder of d.mu: "none", "encoding", "replied",
            \* "closed", "unlocked"; then "done" if the child was started,
            \* "failed" if not
  main,     \* the parent's main goroutine: "accepting", "returning", "ended"
  child,    \* "none", "started", "restored", "locked", "serving", "ended"
  waiting,  \* requests admitted by the parent
  secrets,  \* [parent, child]: entries in memory
  session,  \* [parent, child]: "open" or "locked"
  pipe,     \* the payload written, or None
  disk,     \* entries in the vault file
  lock,     \* who holds the advisory lock: "parent", "child", "rival", None
  socket,   \* whose socket the path names
  pidFile,  \* who wrote the PID file
  wanted,   \* history: for each path the value last acknowledged, and those
            \* asked for since whose save failed
  promised  \* history: "reloaded" once reexec was answered with success,
            \* "cleared" once a clear was

vars == <<handler, main, child, waiting, secrets, session, pipe, disk, lock,
          socket, pidFile, wanted, promised>>
processVars == <<handler, main, child>>
pathVars    == <<lock, socket, pidFile>>
dataVars    == <<secrets, session, pipe, disk, wanted, promised>>

Owner == {"parent", "child", "rival", None}

TypeOK ==
  /\ handler \in {"none", "encoding", "replied", "closed", "unlocked",
                 "done", "failed"}
  /\ main \in {"accepting", "returning", "ended"}
  /\ child \in {"none", "started", "restored", "locked", "serving", "ended"}
  /\ waiting \subseteq Request
  /\ secrets \in [{"parent", "child"} -> Entries]
  /\ session \in [{"parent", "child"} -> {"open", "locked"}]
  /\ pipe \in Entries \cup {None}
  /\ disk \in Entries
  /\ lock \in Owner /\ socket \in Owner /\ pidFile \in Owner
  /\ wanted \in [Path -> SUBSET (Value \cup {None})]
  /\ promised \in {"nothing", "reloaded", "cleared"}
-----------------------------------------------------------------------------
ParentAlive == main # "ended"
MutexFree   == ParentAlive /\ handler \in {"none", "done", "failed"}

(* The parent's accept loop and hijack check let a connection in; one      *)
(* reload at a time.                                                       *)
Admit(r) ==
  /\ main = "accepting"
  /\ socket = "parent"
  /\ Cardinality(waiting) < MaxWaiting
  /\ r.kind = "reexec" => handler = "none"
  /\ waiting' = waiting \cup {r}
  /\ UNCHANGED <<processVars, pathVars, dataVars>>

(* What a mutating request does in process who: the map in memory changes  *)
(* and the whole of it is saved; a save that fails leaves memory changed,  *)
(* the file as it was, and the client with an error.                       *)
Store(who, r) ==
  /\ session[who] = "open"
  /\ secrets' = [secrets EXCEPT ![who][r.path] = r.value]
  /\ IF r.kind = "set"
       THEN /\ disk' = secrets'[who]
            /\ wanted' = [wanted EXCEPT ![r.path] = {r.value}]
       ELSE /\ wanted' = [wanted EXCEPT ![r.path] = @ \cup {r.value}]
            /\ UNCHANGED disk
  /\ UNCHANGED <<session, pipe, promised>>

(* A request on a locked session is refused. *)
Refuse(who, r) ==
  /\ r.kind \in {"set", "set_unsaved", "clear"}
  /\ session[who] = "locked"
  /\ UNCHANGED dataVars

Wipe(who) ==
  /\ secrets' = [secrets EXCEPT ![who] = [p \in Path |-> None]]
  /\ session' = [session EXCEPT ![who] = "locked"]

Clear(who) ==
  /\ session[who] = "open"
  /\ Wipe(who)
  /\ promised' = "cleared"
  /\ UNCHANGED <<pipe, disk, wanted>>

(* A waiting request that is not a reload gets the mutex. *)
ParentHandles(r) ==
  /\ MutexFree
  /\ r \in waiting
  /\ waiting' = waiting \ {r}
  /\ \/ r.kind \in {"set", "set_unsaved"} /\ Store("parent", r)
     \/ r.kind = "clear" /\ Clear("parent")
     \/ Refuse("parent", r)
  /\ UNCHANGED <<processVars, pathVars>>

(* Stop: wipe, close the listener, remove whatever the socket and PID      *)
(* paths name by now, unlock; runDaemon's handler then exits.  That it     *)
(* also removes the path of the lock file matters to the next start only.  *)
ParentStops(r) ==
  /\ MutexFree
  /\ r \in waiting /\ r.kind = "stop"
  /\ Wipe("parent")
  /\ main' = "ended"
  /\ waiting' = {}
  /\ socket' = None
  /\ pidFile' = None
  /\ lock' = IF lock = "parent" THEN None ELSE lock
  /\ UNCHANGED <<handler, child, pipe, disk, wanted, promised>>

(* reexec takes the mutex and encodes the session into the pipe. *)
Reexec(r) ==
  /\ MutexFree
  /\ r \in waiting /\ r.kind = "reexec"
  /\ waiting' = waiting \ {r}
  /\ IF session["parent"] = "open" /\ handler = "none"
       THEN handler' = "encoding" ELSE UNCHANGED handler
  /\ UNCHANGED <<main, child, pathVars, dataVars>>

(* Encode returns only if the whole payload fits: nobody reads yet. *)
EncodeAndReply ==
  /\ ParentAlive /\ handler = "encoding"
  /\ Size(secrets["parent"]) <= PipeBuffer
  /\ handler' = "replied"
  /\ pipe' = secrets["parent"]
  /\ promised' = "reloaded"
  /\ UNCHANGED <<main, child, waiting, pathVars, secrets, session, disk, wanted>>

(* listener.Close also unlinks the socket path. *)
CloseListener ==
  /\ ParentAlive /\ handler = "replied"
  /\ handler' = "closed"
  /\ socket' = IF socket = "parent" THEN None ELSE socket
  /\ UNCHANGED <<main, child, waiting, lock, pidFile, dataVars>>

Unlock ==
  /\ ParentAlive /\ handler = "closed"
  /\ handler' = "unlocked"
  /\ lock' = None
  /\ UNCHANGED <<main, child, waiting, socket, pidFile, dataVars>>

StartChild ==
  /\ ParentAlive /\ handler = "unlocked"
  /\ handler' = "done"
  /\ child' = "started"
  /\ UNCHANGED <<main, waiting, pathVars, dataVars>>

(* The executable is gone or cannot be run. *)
StartFails ==
  /\ ParentAlive /\ handler = "unlocked"
  /\ handler' = "failed"
  /\ UNCHANGED <<main, child, waiting, pathVars, dataVars>>

(* Accept fails on the closed listener; Start's deferred                   *)
(* removePIDLockfile runs, and runDaemon and the process end.              *)
MainReturns ==
  /\ main = "accepting"
  /\ handler \in {"closed", "unlocked",
                 "done", "failed"}
  /\ main' = "returning"
  /\ pidFile' = None
  /\ UNCHANGED <<handler, child, waiting, lock, socket, dataVars>>

(* A broken exit that waits until the child serves. *)
ParentExitsAfterChild ==
  /\ main # "ended" /\ child = "serving"
  /\ main' = "ended"
  /\ waiting' = {}
  /\ Wipe("parent")
  /\ lock' = IF lock = "parent" THEN None ELSE lock
  /\ UNCHANGED <<handler, child, socket, pidFile, pipe, disk, wanted, promised>>

(* The process ends: main returned, or 50ms after the child was started.   *)
ParentExits ==
  /\ main = "returning" \/ (ParentAlive /\ handler = "done")
  /\ main' = "ended"
  /\ waiting' = {}
  /\ Wipe("parent")
  /\ lock' = IF lock = "parent" THEN None ELSE lock
  /\ UNCHANGED <<handler, child, socket, pidFile, pipe, disk, wanted, promised>>
-----------------------------------------------------------------------------
(* Broken restores: one forgets to open the session, one leaves the type.  *)
RestoreLocked ==
  /\ child = "started"
  /\ child' = "restored"
  /\ secrets' = [secrets EXCEPT !["child"] =
       [p \in Path |-> IF pipe[p] # None THEN pipe[p] ELSE disk[p]]]
  /\ UNCHANGED <<session, handler, main, waiting, pathVars, pipe, disk, wanted,
                 promised>>
RestoreUnread ==
  /\ child = "started"
  /\ child' = "restored"
  /\ secrets' = [secrets EXCEPT !["child"] = None]
  /\ session' = [session EXCEPT !["child"] = "open"]
  /\ UNCHANGED <<handler, main, waiting, pathVars, pipe, disk, wanted, promised>>

(* checkAndRestoreReexecState: the vault as it is on disk now, overlaid    *)
(* with the entries of the payload.                                        *)
Restore ==
  /\ child = "started"
  /\ child' = "restored"
  /\ secrets' = [secrets EXCEPT !["child"] =
       [p \in Path |-> IF pipe[p] # None THEN pipe[p] ELSE disk[p]]]
  /\ session' = [session EXCEPT !["child"] = "open"]
  /\ UNCHANGED <<handler, main, waiting, pathVars, pipe, disk, wanted, promised>>

(* A broken Start that goes on without the lock. *)
TakeLockRegardless ==
  /\ child = "restored"
  /\ child' = "locked"
  /\ lock' = IF lock = None THEN "child" ELSE lock
  /\ UNCHANGED <<handler, main, waiting, dataVars, socket, pidFile>>

(* One attempt at the lock: SEC_REEXEC_FD is unset by now.  Without it the *)
(* child ends.                                                             *)
TakeLock ==
  /\ child = "restored"
  /\ IF lock = None
       THEN /\ child' = "locked"
            /\ lock' = "child"
            /\ UNCHANGED <<secrets, session>>
       ELSE /\ child' = "ended"
            /\ Wipe("child")
            /\ UNCHANGED lock
  /\ UNCHANGED <<handler, main, waiting, socket, pidFile, pipe, disk, wanted,
                 promised>>

(* The old socket path is removed, the child's bound, its PID file written. *)
Bind ==
  /\ child = "locked"
  /\ child' = "serving"
  /\ socket' = "child"
  /\ pidFile' = "child"
  /\ UNCHANGED <<handler, main, waiting, lock, dataVars>>

ChildHandles(r) ==
  /\ child = "serving" /\ socket = "child"
  /\ \/ r.kind \in {"set", "set_unsaved"} /\ Store("child", r)
     \/ r.kind = "clear" /\ Clear("child")
  /\ UNCHANGED <<processVars, waiting, pathVars>>

(* ensureDaemonRunning of a client whose ping found no daemon. *)
RivalStarts ==
  /\ socket = None
  /\ lock = None
  /\ lock' = "rival"
  /\ socket' = "rival"
  /\ pidFile' = "rival"
  /\ UNCHANGED <<processVars, waiting, dataVars>>
-----------------------------------------------------------------------------
Init ==
  /\ handler = "none" /\ main = "accepting" /\ child = "none"
  /\ waiting = {}
  /\ disk \in Entries
  /\ secrets = [w \in {"parent", "child"} |->
                  IF w = "parent" THEN disk ELSE [p \in Path |-> None]]
  /\ session = [w \in {"parent", "child"} |->
                  IF w = "parent" THEN "open" ELSE "locked"]
  /\ pipe = None
  /\ lock = "parent" /\ socket = "parent" /\ pidFile = "parent"
  /\ wanted = [p \in Path |-> {disk[p]}]
  /\ promised = "nothing"

Handler == EncodeAndReply \/ CloseListener \/ Unlock \/ StartChild \/ StartFails
Child   == Restore \/ TakeLock \/ Bind

Next ==
  \/ \E r \in Request :
       Admit(r) \/ ParentHandles(r) \/ ParentStops(r) \/ Reexec(r)
         \/ ChildHandles(r)
  \/ Handler
  \/ Child
  \/ MainReturns
  \/ ParentExits
  \/ RivalStarts

Spec == Init /\ [][Next]_vars

(* Goroutines and processes keep running. *)
FairSpec ==
  /\ Spec
  /\ WF_vars(Handler) /\ WF_vars(Child)
  /\ WF_vars(MainReturns) /\ WF_vars(ParentExits)
-----------------------------------------------------------------------------
(* Only the holder of the advisory lock listens: the parent until it has   *)
(* closed its listener, the child and a rival from the moment they bind    *)
(* (order of Close, flock, Listen in `reexec` and Start).                  *)
Listening(who) ==
  CASE who = "parent" -> /\ main = "accepting"
                         /\ handler \in {"none", "encoding", "replied"}
    [] who = "child"  -> child = "serving"
    [] OTHER          -> socket = who
ListenerHoldsLock ==
  \A who \in {"parent", "child", "rival"} : Listening(who) => lock = who

(* A child that serves restored the session first: no client ever finds    *)
(* the reloaded daemon locked, unless a client locked it                   *)
(* (checkAndRestoreReexecState runs before Listen).                        *)
ServesRestored ==
  child \in {"locked", "serving"}
    => session["child"] = "open" \/ promised = "cleared"

(* Two daemons do not linger: once the reload has been answered the parent *)
(* ends, whatever becomes of the child.                                    *)
ParentEnds == (handler = "replied") ~> (main = "ended")

(* The inductive invariant behind the two safety properties. *)
HandoffInv ==
  /\ TypeOK
  /\ child # "none" => handler = "done"
  /\ handler \in {"replied", "closed", "unlocked", "done"} => pipe \in Entries
  /\ (main # "ended" /\ handler \in {"none", "encoding", "replied", "closed"})
       => lock = "parent"
  /\ child \in {"locked", "serving"} => lock = "child"
  /\ socket = "rival" => lock = "rival"
  /\ child \in {"restored", "locked", "serving"}
       => session["child"] = "open" \/ promised = "cleared"

(* README.md:651 "Upgrade binary images in memory via kernel pipe state    *)
(* handoffs (...) without clearing active session state": after a reload   *)
(* was answered with success, parent or child still carries the session.   *)
ReloadKeepsSession ==
  promised = "reloaded" => main # "ended" \/ child \notin {"none", "ended"}

(* README.md:651, the same sentence: a reload that has begun is answered   *)
(* and the daemon goes on; it does not hang with the mutex held.           *)
ReloadAnswered == (handler = "encoding") ~> (handler # "encoding")

(* docs/operations_and_parameter_guide.md:20 "Immediately purges all       *)
(* decrypted session keys from background daemon RAM": after `sec lock` no *)
(* process holds the session.                                              *)
ClearSticks ==
  promised = "cleared" => session = [w \in {"parent", "child"} |-> "locked"]

(* README.md:109 "Fully resistant to race conditions under high-throughput *)
(* parallel execution": what is on disk for a path is what was last        *)
(* acknowledged, or asked for since.                                       *)
AckedWriteKept == \A p \in Path : disk[p] \in wanted[p]
=============================================================================
