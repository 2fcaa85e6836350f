-------------------------- MODULE DaemonLifecycle --------------------------
(***************************************************************************)
(* The processes of one profile: daemons that start, serve and stop, and   *)
(* the clients that look for one (ensureDaemonRunning), evict what they    *)
(* find (evictStaleDaemon), start their own, or restart.  They share three *)
(* paths: the socket, the PID file and the lock file.  A path names the    *)
(* file of the daemon that created it; a daemon that lost a path keeps its *)
(* file open.                                                              *)
(*                                                                         *)
(* A daemon has two threads here: the main goroutine (Start), and Stop,    *)
(* called by the ticker or by the handler of SIGTERM.  Process ids are not *)
(* reused, and `ps` shows every daemon.                                    *)
(***************************************************************************)
EXTENDS Naturals, FiniteSets

CONSTANTS
  Client,      \* terminals
  Daemon,      \* processes to be started as daemons, in any order
  Build,       \* Build[c]: the program client c runs, and starts as a daemon
  MaxPolls,    \* how often a client looks for the socket (20)
  None

ASSUME LifecycleAssumption ==
  /\ None \notin Daemon
  /\ MaxPolls \in Nat \ {0}
  /\ DOMAIN Build = Client

VARIABLES
  main,        \* where each daemon's main goroutine is
  stop,        \* where its Stop is
  build,       \* the program it runs
  listening,   \* daemons whose listener is open
  signal,      \* whether each was sent a SIGTERM, and its handler has it
  fd,          \* the lock file each daemon has open
  flock,       \* who holds the advisory lock of each lock file
  info,        \* socketFileInfo: the socket each daemon takes for its own
  sock, pid, lock,     \* what the three paths name
  at,          \* the next step of each client
  seen,        \* the daemons a client found, and must evict
  active,      \* the daemon of the PID file the client read
  polls,       \* how often it looked for the socket
  evicted,     \* history: whom a daemon's starter had evicted
  unnamed      \* history: a lock file lost its path while a daemon had it open

daemons == <<main, stop, build, listening, signal, fd, flock, info>>
paths   == <<sock, pid, lock>>
clients == <<at, seen, active, polls>>
history == <<evicted, unnamed>>
vars    == <<daemons, paths, clients, history>>

MainSteps == {"none", "started", "opened", "locked", "cleared", "bound",
              "recorded", "serving", "ended"}
StopSteps == {"no", "asked", "closed", "nosock", "nopid", "gone"}
ClientSteps == {"idle", "ping", "check", "sweep", "list", "kill", "rmpid",
                "rmsock", "rmlock", "spawn", "wait", "failed"}

TypeOK ==
  /\ main \in [Daemon -> MainSteps] /\ stop \in [Daemon -> StopSteps]
  /\ build \in [Daemon -> {Build[c] : c \in Client} \cup {None}]
  /\ listening \subseteq Daemon
  /\ signal \in [Daemon -> {"no", "sent", "caught"}]
  /\ fd \in [Daemon -> Daemon \cup {None}]
  /\ flock \in [Daemon -> Daemon \cup {None}]
  /\ info \in [Daemon -> Daemon \cup {None}]
  /\ {sock, lock} \subseteq Daemon \cup {None}
  /\ pid \in [daemon : Daemon, executable : {Build[c] : c \in Client}] \cup {None}
  /\ at \in [Client -> ClientSteps]
  /\ seen \in [Client -> SUBSET Daemon]
  /\ active \in [Client -> Daemon \cup {None}]
  /\ polls \in [Client -> 0..MaxPolls]
  /\ evicted \in [Daemon -> SUBSET Daemon] /\ unnamed \in {"no", "yes"}

Init ==
  /\ main = [d \in Daemon |-> "none"] /\ stop = [d \in Daemon |-> "no"]
  /\ build = [d \in Daemon |-> None]
  /\ listening = {} /\ signal = [d \in Daemon |-> "no"]
  /\ fd = [d \in Daemon |-> None] /\ flock = [d \in Daemon |-> None]
  /\ info = [d \in Daemon |-> None]
  /\ sock = None /\ pid = None /\ lock = None
  /\ at = [c \in Client |-> "idle"] /\ seen = [c \in Client |-> {}]
  /\ active = [c \in Client |-> None] /\ polls = [c \in Client |-> 0]
  /\ evicted = [d \in Daemon |-> {}] /\ unnamed = "no"
-----------------------------------------------------------------------------
Alive(d) == main[d] \notin {"none", "ended"}
Fresh    == {d \in Daemon : main[d] = "none"}
Idle(c)  == at[c] \in {"idle", "failed"}

(* Processes end: the kernel closes their files, all they knew is gone. *)
Without(f, D, x) == [d \in Daemon |-> IF d \in D THEN x ELSE f[d]]
Die(D) ==
  /\ main' = Without(main, D, "ended")
  /\ stop' = Without(stop, D, "no")
  /\ fd' = Without(fd, D, None)
  /\ info' = Without(info, D, None)
  /\ evicted' = Without(evicted, D, {})
  /\ flock' = [f \in Daemon |-> IF flock[f] \in D THEN None ELSE flock[f]]
  /\ listening' = listening \ D
  /\ signal' = Without(signal, D, "no")

(* The lock path is removed. *)
RemoveLock ==
  /\ lock' = None
  /\ unnamed' = IF lock # None /\ \E d \in Daemon : fd[d] = lock
                  THEN "yes" ELSE unnamed
-----------------------------------------------------------------------------
(* Start: the lock file is opened, or created; ... *)
OpenLock(d) ==
  /\ main[d] = "started"
  /\ lock' = IF lock = None THEN d ELSE lock
  /\ fd' = [fd EXCEPT ![d] = lock']
  /\ main' = [main EXCEPT ![d] = "opened"]
  /\ UNCHANGED <<stop, build, listening, signal, flock, info, sock, pid,
                 clients, history>>

(* A broken Start that goes on without the lock. *)
TakeLockRegardless(d) ==
  /\ main[d] = "opened" /\ fd[d] # None
  /\ main' = [main EXCEPT ![d] = "locked"]
  /\ flock' = [flock EXCEPT ![fd[d]] = d]
  /\ UNCHANGED <<stop, build, listening, signal, fd, info, paths, clients,
                 history>>

(* ... locked, or the process ends; ... *)
TakeLock(d) ==
  /\ main[d] = "opened"
  /\ \/ /\ fd[d] # None /\ flock[fd[d]] = None
        /\ flock' = [flock EXCEPT ![fd[d]] = d]
        /\ main' = [main EXCEPT ![d] = "locked"]
        /\ UNCHANGED <<stop, listening, signal, fd, info, evicted>>
     \/ /\ fd[d] # None => flock[fd[d]] # None
        /\ Die({d})
  /\ UNCHANGED <<build, paths, clients, unnamed>>

(* ... whatever socket is there is removed, ... *)
ClearSocket(d) ==
  /\ main[d] = "locked"
  /\ sock' = None
  /\ main' = [main EXCEPT ![d] = "cleared"]
  /\ UNCHANGED <<stop, build, listening, signal, fd, flock, info, pid, lock,
                 clients, history>>

(* ... its own is bound, unless another daemon was faster, ... *)
Bind(d) ==
  /\ main[d] = "cleared"
  /\ IF sock = None
       THEN /\ sock' = d
            /\ listening' = listening \cup {d}
            /\ main' = [main EXCEPT ![d] = "bound"]
            /\ UNCHANGED <<stop, signal, fd, flock, info, evicted>>
       ELSE Die({d}) /\ UNCHANGED sock
  /\ UNCHANGED <<build, pid, lock, clients, unnamed>>

(* ... the file at the path is taken for its own (under d.mu), or Chmod    *)
(* fails as there is none, ...                                             *)
Record(d) ==
  /\ main[d] = "bound" /\ stop[d] \in {"no", "gone"}
  /\ \/ /\ info' = [info EXCEPT ![d] = sock]
        /\ main' = [main EXCEPT ![d] = "recorded"]
        /\ UNCHANGED <<stop, listening, signal, fd, flock, evicted>>
     \/ sock = None /\ Die({d})
  /\ UNCHANGED <<build, paths, clients, unnamed>>

(* ... and the PID file written; the ticker and the accept loop start.     *)
WritePIDLockfile(d) ==
  /\ main[d] = "recorded"
  /\ pid' = [daemon |-> d, executable |-> build[d]]
  /\ main' = [main EXCEPT ![d] = "serving"]
  /\ UNCHANGED <<stop, build, listening, signal, fd, flock, info, sock, lock,
                 clients, history>>

(* The accept loop fails on the closed listener: Start removes the PID     *)
(* file, and the process ends, whether Stop is through or not.             *)
MainReturns(d) ==
  /\ main[d] = "serving" /\ d \notin listening
  /\ pid' = None
  /\ Die({d})
  /\ UNCHANGED <<build, sock, lock, clients, unnamed>>
-----------------------------------------------------------------------------
(* shouldAutoTerminateLocked, the socket's part: it is gone or another's.  *)
Displaced(d) == sock = None \/ (info[d] # None /\ sock # info[d])

(* The ticker finds its daemon displaced, or idle for an hour as the path  *)
(* names another socket and no request can reach it.                       *)
Ticker(d) ==
  /\ main[d] = "serving" /\ stop[d] = "no"
  /\ Displaced(d) \/ sock # d
  /\ stop' = [stop EXCEPT ![d] = "asked"]
  /\ UNCHANGED <<main, build, listening, signal, fd, flock, info, paths,
                 clients, history>>

(* One that can be reached may be idle for an hour, or never.              *)
IdleTimeout(d) ==
  /\ main[d] = "serving" /\ stop[d] = "no"
  /\ stop' = [stop EXCEPT ![d] = "asked"]
  /\ UNCHANGED <<main, build, listening, signal, fd, flock, info, paths,
                 clients, history>>

(* The handler of SIGTERM calls Stop, again if the ticker did before. *)
Handler(d) ==
  /\ Alive(d) /\ signal[d] = "sent" /\ stop[d] \in {"no", "gone"}
  /\ stop' = [stop EXCEPT ![d] = "asked"]
  /\ signal' = [signal EXCEPT ![d] = "caught"]
  /\ UNCHANGED <<main, build, listening, fd, flock, info, paths, clients,
                 history>>

(* A broken Stop that leaves the listener open. *)
KeepListener(d) ==
  /\ Alive(d) /\ stop[d] = "asked"
  /\ stop' = [stop EXCEPT ![d] = "closed"]
  /\ UNCHANGED <<main, build, listening, signal, fd, flock, info, paths,
                 clients, history>>

(* Stop: the listener is closed, which removes the path it was bound to;   *)
CloseListener(d) ==
  /\ Alive(d) /\ stop[d] = "asked"
  /\ sock' = IF d \in listening THEN None ELSE sock
  /\ listening' = listening \ {d}
  /\ stop' = [stop EXCEPT ![d] = "closed"]
  /\ UNCHANGED <<main, build, signal, fd, flock, info, pid, lock, clients,
                 history>>

(* the socket path is removed (again), whoever's it is; *)
RemoveSocket(d) ==
  /\ Alive(d) /\ stop[d] = "closed"
  /\ sock' = None
  /\ stop' = [stop EXCEPT ![d] = "nosock"]
  /\ UNCHANGED <<main, build, listening, signal, fd, flock, info, pid, lock,
                 clients, history>>

(* the PID file is removed and the lock given up; *)
Unlock(d) ==
  /\ Alive(d) /\ stop[d] = "nosock"
  /\ pid' = None
  /\ fd' = [fd EXCEPT ![d] = None]
  /\ flock' = [f \in Daemon |-> IF flock[f] = d THEN None ELSE flock[f]]
  /\ stop' = [stop EXCEPT ![d] = "nopid"]
  /\ UNCHANGED <<main, build, listening, signal, info, sock, lock, clients,
                 history>>

(* and the lock path is removed, although someone else may have it locked. *)
StopRemovesLock(d) ==
  /\ Alive(d) /\ stop[d] = "nopid"
  /\ RemoveLock
  /\ stop' = [stop EXCEPT ![d] = "gone"]
  /\ UNCHANGED <<main, build, listening, signal, fd, flock, info, sock, pid,
                 clients, evicted>>

(* The handler ends the process. *)
Exit(d) ==
  /\ Alive(d) /\ stop[d] = "gone" /\ signal[d] = "caught"
  /\ Die({d})
  /\ UNCHANGED <<build, paths, clients, unnamed>>
-----------------------------------------------------------------------------
ClientGoes(c, s) == at' = [at EXCEPT ![c] = s]

(* A command looks for a daemon; `restart` removes the socket path first.  *)
(* It may start one daemon, so one must be left for it.                    *)
Begin(c) ==
  /\ Idle(c)
  /\ Cardinality(Fresh) > Cardinality({x \in Client :
       at[x] \in ClientSteps \ {"idle", "failed", "sweep", "wait"}})
  /\ sock' \in {sock, None}
  /\ ClientGoes(c, "ping")
  /\ UNCHANGED <<daemons, pid, lock, seen, active, polls, history>>

(* A connection to a bound socket waits for the accept loop. *)
Ping(c) ==
  /\ at[c] = "ping"
  /\ IF sock # None /\ sock \in listening
       THEN /\ main[sock] = "serving" /\ stop[sock] # "asked"
            /\ ClientGoes(c, IF build[sock] = Build[c] THEN "check" ELSE "list")
       ELSE ClientGoes(c, "list")
  /\ UNCHANGED <<daemons, paths, seen, active, polls, history>>

(* The daemon answered; its program must be the one of the PID file. *)
ReadPIDFile(c) ==
  /\ at[c] = "check"
  /\ active' = [active EXCEPT ![c] = IF pid = None THEN None ELSE pid.daemon]
  /\ ClientGoes(c, IF pid # None /\ pid.executable # Build[c] THEN "list"
                                                            ELSE "sweep")
  /\ UNCHANGED <<daemons, paths, seen, polls, history>>

SendTerm(D) ==
  signal' = [d \in Daemon |-> IF d \in D /\ signal[d] = "no" THEN "sent"
                                                            ELSE signal[d]]

(* Daemons other than the one of the PID file are duplicates. *)
Sweep(c) ==
  /\ at[c] = "sweep"
  /\ LET live == {d \in Daemon : Alive(d)} IN
     SendTerm(IF Cardinality(live) > 1 THEN live \ {active[c]} ELSE {})
  /\ active' = [active EXCEPT ![c] = None]
  /\ ClientGoes(c, "idle")
  /\ UNCHANGED <<main, stop, build, listening, fd, flock, info, paths, seen,
                 polls, history>>

(* evictStaleDaemon: who is alive is sent a SIGTERM; ... *)
List(c) ==
  /\ at[c] = "list"
  /\ seen' = [seen EXCEPT ![c] = {d \in Daemon : Alive(d)}]
  /\ SendTerm(seen'[c])
  /\ active' = [active EXCEPT ![c] = None]
  /\ ClientGoes(c, "kill")
  /\ UNCHANGED <<main, stop, build, listening, fd, flock, info, paths, polls,
                 history>>

(* A broken eviction that leaves who does not end in time. *)
SpareSurvivors(c) ==
  /\ at[c] = "kill"
  /\ ClientGoes(c, "rmpid")
  /\ UNCHANGED <<daemons, paths, seen, active, polls, history>>

(* ... who has not ended 100 ms later is killed; ... *)
KillSurvivors(c) ==
  /\ at[c] = "kill"
  /\ Die({d \in seen[c] : Alive(d)})
  /\ ClientGoes(c, "rmpid")
  /\ UNCHANGED <<build, paths, seen, active, polls, unnamed>>

(* ... and the three paths are removed, whoever's they are by now. *)
RemovePath(c) ==
  /\ \/ /\ at[c] = "rmpid" /\ ClientGoes(c, "rmsock")
        /\ pid' = None /\ UNCHANGED <<sock, lock, unnamed>>
     \/ /\ at[c] = "rmsock" /\ ClientGoes(c, "rmlock")
        /\ sock' = None /\ UNCHANGED <<pid, lock, unnamed>>
     \/ /\ at[c] = "rmlock" /\ ClientGoes(c, "spawn")
        /\ RemoveLock /\ UNCHANGED <<pid, sock>>
  /\ UNCHANGED <<daemons, seen, active, polls, evicted>>

(* The client starts a daemon of its own program, ... *)
Spawn(c) ==
  /\ at[c] = "spawn"
  /\ LET d == CHOOSE x \in Fresh : TRUE IN
     /\ Fresh # {}
     /\ main' = [main EXCEPT ![d] = "started"]
     /\ build' = [build EXCEPT ![d] = Build[c]]
     /\ evicted' = [evicted EXCEPT ![d] = seen[c]]
  /\ seen' = [seen EXCEPT ![c] = {}]
  /\ ClientGoes(c, "wait")
  /\ UNCHANGED <<stop, listening, signal, fd, flock, info, paths, active,
                 polls, unnamed>>

(* A broken wait that forgets when to give up. *)
WaitOn(c) ==
  /\ at[c] = "wait"
  /\ polls' = [polls EXCEPT ![c] = IF sock = None THEN @ + 1 ELSE @]
  /\ ClientGoes(c, IF sock # None THEN "idle" ELSE "wait")
  /\ UNCHANGED <<daemons, paths, seen, active, history>>

(* A broken wait that does not count how often it looked. *)
WaitForever(c) ==
  /\ at[c] = "wait"
  /\ ClientGoes(c, IF sock # None THEN "idle" ELSE "wait")
  /\ UNCHANGED <<daemons, paths, seen, active, polls, history>>

(* ... and waits for a socket to appear: anybody's will do. *)
Wait(c) ==
  /\ at[c] = "wait"
  /\ \/ /\ sock # None
        /\ ClientGoes(c, "idle") /\ polls' = [polls EXCEPT ![c] = 0]
     \/ /\ sock = None /\ polls[c] < MaxPolls
        /\ polls' = [polls EXCEPT ![c] = @ + 1] /\ UNCHANGED at
     \/ /\ sock = None /\ polls[c] = MaxPolls
        /\ ClientGoes(c, "failed") /\ polls' = [polls EXCEPT ![c] = 0]
  /\ UNCHANGED <<daemons, paths, seen, active, history>>
-----------------------------------------------------------------------------
MainStep(d) ==
  \/ OpenLock(d) \/ TakeLock(d) \/ ClearSocket(d) \/ Bind(d) \/ Record(d)
  \/ WritePIDLockfile(d) \/ MainReturns(d)
StopStep(d) ==
  \/ Handler(d) \/ CloseListener(d) \/ RemoveSocket(d) \/ Unlock(d)
  \/ StopRemovesLock(d) \/ Exit(d)
ClientStep(c) ==
  \/ Ping(c) \/ ReadPIDFile(c) \/ Sweep(c) \/ List(c) \/ KillSurvivors(c)
  \/ RemovePath(c) \/ Spawn(c) \/ Wait(c)

Next ==
  \/ \E c \in Client : Begin(c) \/ ClientStep(c)
  \/ \E d \in Daemon : MainStep(d) \/ StopStep(d) \/ Ticker(d) \/ IdleTimeout(d)

(* Processes run; the ticker ticks; a command that has begun goes on.      *)
(* Nobody has to begin a command, and a daemon that can be reached may be  *)
(* busy for ever.                                                          *)
Fairness ==
  /\ \A c \in Client : WF_vars(ClientStep(c))
  /\ \A d \in Daemon : WF_vars(MainStep(d)) /\ WF_vars(StopStep(d))
                       /\ WF_vars(Ticker(d))
Spec == Init /\ [][Next]_vars /\ Fairness
-----------------------------------------------------------------------------
(* Two daemons work on one profile only after somebody - Stop, or an       *)
(* eviction - removed the path of a lock file a daemon had open: the lock is*)
(* on the file, not on the path (Start, Stop, evictStaleDaemon).           *)
Holders == {d \in Daemon : fd[d] # None /\ main[d] \in
             {"locked", "cleared", "bound", "recorded", "serving"}}
OneUnlessUnnamed == unnamed = "no" => \A d, e \in Holders : d = e

(* Who was evicted before a daemon was started does not live to see it: it *)
(* can remove neither its socket nor its lock file (evictStaleDaemon,      *)
(* ensureDaemonRunning).                                                   *)
EvictedAreGone ==
  \A d \in Daemon : \A e \in evicted[d] : ~Alive(e)

(* The release notes on the lock: it prevents "multiple concurrent daemon  *)
(* processes for the same profile".  What it prevents is two holders of    *)
(* one lock file.                                                          *)
OneServing ==
  \A d, e \in Daemon :
    (main[d] = "serving" /\ main[e] = "serving"
       /\ stop[d] = "no" /\ stop[e] = "no") => d = e

(* Whatever races there were, in the end at most one daemon is left: the   *)
(* tickers end the displaced and the unreachable (expiryTicker).           *)
Converges == <>[](Cardinality({d \in Daemon : Alive(d)}) <= 1)

(* A command finds a daemon, or starts one, or gives up                    *)
(* (ensureDaemonRunning).                                                  *)
ClientFinishes == \A c \in Client : at[c] = "ping" ~> Idle(c)
=============================================================================
