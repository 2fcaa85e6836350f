----------------------- MODULE DaemonLifecycleProofs -----------------------
(***************************************************************************)
(* What DaemonLifecycle keeps for any number of clients, daemons, programs *)
(* and polls.  The lock is on a file, and a path names at most one file:   *)
(* as long as nobody has removed the path of a lock file somebody has open,*)
(* whoever has one has the same one, and it has one holder.                *)
(***************************************************************************)
EXTENDS DaemonLifecycle, TLAPS

\* A daemon that runs runs the program of some client.
Built == \A d \in Daemon : Alive(d) => build[d] \in {Build[c] : c \in Client}
Typed == TypeOK /\ Built

\* Whoever has a lock file open has the one the path names.
SameFile == unnamed = "no" => \A d \in Daemon : fd[d] # None => fd[d] = lock

\* Whoever is past the lock holds the one of its file.
LockHeld == \A d \in Holders : flock[fd[d]] = d

\* An eviction goes on when the daemons it saw have ended; they stay so.
Swept ==
  /\ \A c \in Client : at[c] = "kill" => \A e \in seen[c] : main[e] # "none"
  /\ \A c \in Client : at[c] \in {"rmpid", "rmsock", "rmlock", "spawn"} =>
       \A e \in seen[c] : main[e] = "ended"
  /\ \A d \in Daemon : \A e \in evicted[d] : main[e] = "ended"

IInv == Typed /\ SameFile /\ LockHeld /\ Swept

LEMMA InitHolds == Init => IInv
BY LifecycleAssumption
   DEF LifecycleAssumption, Init, IInv, Typed, TypeOK, Built, Alive, SameFile, LockHeld, Swept, Holders,
       MainSteps, StopSteps, ClientSteps

-----------------------------------------------------------------------------
(* Types.                                                                  *)

\* The end of processes keeps the types of what it changes.
LEMMA DieTyped ==
  ASSUME TypeOK, NEW D, Die(D)
  PROVE  /\ main' \in [Daemon -> MainSteps] /\ stop' \in [Daemon -> StopSteps]
         /\ fd' \in [Daemon -> Daemon \cup {None}]
         /\ info' \in [Daemon -> Daemon \cup {None}]
         /\ flock' \in [Daemon -> Daemon \cup {None}]
         /\ evicted' \in [Daemon -> SUBSET Daemon]
         /\ listening' \subseteq Daemon
         /\ signal' \in [Daemon -> {"no", "sent", "caught"}]
BY DEF TypeOK, Die, Without, MainSteps, StopSteps

LEMMA DieBuilt ==
  ASSUME Typed, NEW D, Die(D), UNCHANGED build
  PROVE  Built'
BY DEF Typed, TypeOK, Built, Alive, Die, Without

\* A client that starts a daemon has one to start.
LEMMA Spawned ==
  ASSUME NEW c \in Client, Spawn(c)
  PROVE  \E d \in Daemon :
           /\ main[d] = "none"
           /\ main' = [main EXCEPT ![d] = "started"]
           /\ build' = [build EXCEPT ![d] = Build[c]]
           /\ evicted' = [evicted EXCEPT ![d] = seen[c]]
<1> DEFINE d == CHOOSE x \in Fresh : TRUE
<1>1. Fresh # {} BY DEF Spawn
<1>2. d \in Fresh BY <1>1
<1>3. d \in Daemon /\ main[d] = "none" BY <1>2 DEF Fresh
<1>4. /\ main' = [main EXCEPT ![d] = "started"]
      /\ build' = [build EXCEPT ![d] = Build[c]]
      /\ evicted' = [evicted EXCEPT ![d] = seen[c]]
  BY DEF Spawn
<1> HIDE DEF d
<1> QED BY <1>3, <1>4

LEMMA MainTyped ==
  ASSUME Typed, NEW d \in Daemon, MainStep(d)
  PROVE  Typed'
<1> USE DEF Typed
<1>1. CASE OpenLock(d)
  BY <1>1 DEF OpenLock, TypeOK, Built, Alive, MainSteps, clients, history
<1>2. CASE TakeLock(d)
  <2>1. CASE fd[d] # None /\ main' = [main EXCEPT ![d] = "locked"]
             /\ flock' = [flock EXCEPT ![fd[d]] = d]
             /\ UNCHANGED <<stop, listening, signal, fd, info, evicted>>
    BY <1>2, <2>1 DEF TakeLock, TypeOK, Built, Alive, MainSteps, clients, paths
  <2>2. CASE Die({d})
    BY <1>2, <2>2, DieTyped, DieBuilt DEF TakeLock, TypeOK, clients, paths
  <2> QED BY <1>2, <2>1, <2>2 DEF TakeLock
<1>3. CASE ClearSocket(d)
  BY <1>3 DEF ClearSocket, TypeOK, Built, Alive, MainSteps, clients, history
<1>4. CASE Bind(d)
  <2>1. CASE sock = None
    BY <1>4, <2>1 DEF Bind, TypeOK, Built, Alive, MainSteps, clients
  <2>2. CASE sock # None
    <3>1. Die({d}) /\ UNCHANGED sock BY <1>4, <2>2 DEF Bind
    <3> QED BY <1>4, <3>1, DieTyped, DieBuilt DEF Bind, TypeOK, clients
  <2> QED BY <2>1, <2>2
<1>5. CASE Record(d)
  <2>1. CASE /\ info' = [info EXCEPT ![d] = sock]
             /\ main' = [main EXCEPT ![d] = "recorded"]
             /\ UNCHANGED <<stop, listening, signal, fd, flock, evicted>>
    BY <1>5, <2>1 DEF Record, TypeOK, Built, Alive, MainSteps, clients, paths
  <2>2. CASE Die({d})
    BY <1>5, <2>2, DieTyped, DieBuilt DEF Record, TypeOK, clients, paths
  <2> QED BY <1>5, <2>1, <2>2 DEF Record
<1>6. CASE WritePIDLockfile(d)
  <2>1. build[d] \in {Build[c] : c \in Client}
    BY <1>6 DEF WritePIDLockfile, Built, Alive
  <2>2. pid' \in [daemon : Daemon, executable : {Build[c] : c \in Client}]
    BY <1>6, <2>1 DEF WritePIDLockfile
  <2> QED
    BY <1>6, <2>2 DEF WritePIDLockfile, TypeOK, Built, Alive, MainSteps, clients, history
<1>7. CASE MainReturns(d)
  BY <1>7, DieTyped, DieBuilt DEF MainReturns, TypeOK, clients
<1> QED BY <1>1, <1>2, <1>3, <1>4, <1>5, <1>6, <1>7 DEF MainStep

LEMMA StopTyped ==
  ASSUME Typed, NEW d \in Daemon, StopStep(d) \/ Ticker(d) \/ IdleTimeout(d)
  PROVE  Typed'
<1> USE DEF Typed
<1>1. CASE Handler(d)
  BY <1>1 DEF Handler, TypeOK, Built, Alive, StopSteps, clients, paths, history
<1>2. CASE CloseListener(d)
  BY <1>2 DEF CloseListener, TypeOK, Built, Alive, StopSteps, clients, history
<1>3. CASE RemoveSocket(d)
  BY <1>3 DEF RemoveSocket, TypeOK, Built, Alive, StopSteps, clients, history
<1>4. CASE Unlock(d)
  BY <1>4 DEF Unlock, TypeOK, Built, Alive, StopSteps, clients, history
<1>5. CASE StopRemovesLock(d)
  BY <1>5 DEF StopRemovesLock, RemoveLock, TypeOK, Built, Alive, StopSteps, clients
<1>6. CASE Exit(d)
  BY <1>6, DieTyped, DieBuilt DEF Exit, TypeOK, clients, paths
<1>7. CASE Ticker(d)
  BY <1>7 DEF Ticker, TypeOK, Built, Alive, StopSteps, clients, paths, history
<1>8. CASE IdleTimeout(d)
  BY <1>8 DEF IdleTimeout, TypeOK, Built, Alive, StopSteps, clients, paths, history
<1> QED BY <1>1, <1>2, <1>3, <1>4, <1>5, <1>6, <1>7, <1>8 DEF StopStep

LEMMA ClientTyped ==
  ASSUME Typed, NEW c \in Client, Begin(c) \/ ClientStep(c)
  PROVE  Typed'
<1> USE DEF Typed, ClientGoes, ClientSteps
<1>1. CASE Begin(c)
  BY <1>1 DEF Begin, TypeOK, Built, Alive, daemons, history
<1>2. CASE Ping(c)
  BY <1>2 DEF Ping, TypeOK, Built, Alive, daemons, paths, history
<1>3. CASE ReadPIDFile(c)
  <2>1. (IF pid = None THEN None ELSE pid.daemon) \in Daemon \cup {None}
    BY DEF TypeOK
  <2> QED
    BY <1>3, <2>1 DEF ReadPIDFile, TypeOK, Built, Alive, daemons, paths, history
<1>4. CASE Sweep(c)
  BY <1>4 DEF Sweep, SendTerm, TypeOK, Built, Alive, paths, history
<1>5. CASE List(c)
  BY <1>5 DEF List, SendTerm, TypeOK, Built, Alive, paths, history
<1>6. CASE KillSurvivors(c)
  BY <1>6, DieTyped, DieBuilt DEF KillSurvivors, TypeOK, paths
<1>7. CASE RemovePath(c)
  BY <1>7 DEF RemovePath, RemoveLock, TypeOK, Built, Alive, daemons
<1>8. CASE Spawn(c)
  <2>1. PICK d \in Daemon : /\ main[d] = "none"
                            /\ main' = [main EXCEPT ![d] = "started"]
                            /\ build' = [build EXCEPT ![d] = Build[c]]
                            /\ evicted' = [evicted EXCEPT ![d] = seen[c]]
    BY <1>8, Spawned
  <2>2. /\ seen' = [seen EXCEPT ![c] = {}] /\ ClientGoes(c, "wait")
        /\ UNCHANGED <<stop, listening, signal, fd, flock, info, paths, active,
                       polls, unnamed>>
    BY <1>8 DEF Spawn
  <2> QED BY <2>1, <2>2 DEF TypeOK, Built, Alive, MainSteps, paths
<1>9. CASE Wait(c)
  <2>1. polls' \in [Client -> 0..MaxPolls]
    BY <1>9, LifecycleAssumption DEF Wait, TypeOK, LifecycleAssumption
  <2> QED BY <1>9, <2>1 DEF Wait, TypeOK, Built, Alive, daemons, paths, history
<1> QED BY <1>1, <1>2, <1>3, <1>4, <1>5, <1>6, <1>7, <1>8, <1>9 DEF ClientStep

LEMMA StaysTyped == Typed /\ [Next]_vars => Typed'
<1> SUFFICES ASSUME Typed, [Next]_vars PROVE Typed'
  OBVIOUS
<1>1. CASE UNCHANGED vars
  BY <1>1 DEF Typed, TypeOK, Built, Alive, vars, daemons, paths, clients, history
<1> QED BY <1>1, MainTyped, StopTyped, ClientTyped DEF Next

-----------------------------------------------------------------------------
(* The lock.                                                               *)

Locks == SameFile /\ LockHeld

\* Who ends takes no lock from those who go on.
LEMMA DieLocks ==
  ASSUME Typed, Locks, NEW D, Die(D), UNCHANGED <<lock, unnamed>>
  PROVE  Locks'
BY DEF Typed, TypeOK, Locks, SameFile, LockHeld, Holders, Die, Without

\* A lock path that is removed had no file anybody has open, or unnamed says so.
LEMMA RemoveLocks ==
  ASSUME Typed, Locks, RemoveLock, UNCHANGED <<main, fd, flock>>
  PROVE  Locks'
BY DEF Typed, TypeOK, Locks, SameFile, LockHeld, Holders, RemoveLock

\* A step that opens no file, takes no lock and lets nobody past it.
LEMMA KeepLocks ==
  ASSUME Locks, UNCHANGED <<fd, flock, lock, unnamed>>,
         Holders' \subseteq Holders
  PROVE  Locks'
BY DEF Locks, SameFile, LockHeld

LEMMA MainLocks ==
  ASSUME Typed, Locks, NEW d \in Daemon, MainStep(d)
  PROVE  Locks'
<1> USE DEF Typed, TypeOK
<1>1. CASE OpenLock(d)
  BY <1>1, LifecycleAssumption
     DEF OpenLock, Locks, SameFile, LockHeld, Holders, history, LifecycleAssumption
<1>2. CASE TakeLock(d)
  <2>1. CASE fd[d] # None /\ flock[fd[d]] = None
             /\ main' = [main EXCEPT ![d] = "locked"]
             /\ flock' = [flock EXCEPT ![fd[d]] = d]
             /\ UNCHANGED <<stop, listening, signal, fd, info, evicted>>
    <3>1. SameFile'
      BY <1>2, <2>1 DEF TakeLock, Locks, SameFile, paths
    <3>2. \A e \in Holders : fd[e] # fd[d]
      BY <1>2, <2>1, LifecycleAssumption
         DEF Locks, LockHeld, Holders, LifecycleAssumption
    <3>3. LockHeld'
      BY <2>1, <3>2 DEF Locks, LockHeld, Holders
    <3> QED BY <3>1, <3>3 DEF Locks
  <2>2. CASE Die({d})
    BY <1>2, <2>2, DieLocks DEF TakeLock, paths
  <2> QED BY <1>2, <2>1, <2>2 DEF TakeLock
<1>3. CASE ClearSocket(d)
  BY <1>3, KeepLocks DEF ClearSocket, Holders, history
<1>4. CASE Bind(d)
  <2>1. CASE sock = None
    BY <1>4, <2>1, KeepLocks DEF Bind, Holders
  <2>2. CASE sock # None
    BY <1>4, <2>2, DieLocks DEF Bind
  <2> QED BY <2>1, <2>2
<1>5. CASE Record(d)
  <2>1. CASE /\ info' = [info EXCEPT ![d] = sock]
             /\ main' = [main EXCEPT ![d] = "recorded"]
             /\ UNCHANGED <<stop, listening, signal, fd, flock, evicted>>
    BY <1>5, <2>1, KeepLocks DEF Record, Holders, paths
  <2>2. CASE Die({d})
    BY <1>5, <2>2, DieLocks DEF Record, paths
  <2> QED BY <1>5, <2>1, <2>2 DEF Record
<1>6. CASE WritePIDLockfile(d)
  BY <1>6, KeepLocks DEF WritePIDLockfile, Holders, history
<1>7. CASE MainReturns(d)
  BY <1>7, DieLocks DEF MainReturns
<1> QED BY <1>1, <1>2, <1>3, <1>4, <1>5, <1>6, <1>7 DEF MainStep

LEMMA StopLocks ==
  ASSUME Typed, Locks, NEW d \in Daemon, StopStep(d) \/ Ticker(d) \/ IdleTimeout(d)
  PROVE  Locks'
<1>1. CASE Handler(d)
  BY <1>1, KeepLocks DEF Handler, Holders, paths, history
<1>2. CASE CloseListener(d)
  BY <1>2, KeepLocks DEF CloseListener, Holders, history
<1>3. CASE RemoveSocket(d)
  BY <1>3, KeepLocks DEF RemoveSocket, Holders, history
<1>4. CASE Unlock(d)
  BY <1>4 DEF Unlock, Typed, TypeOK, Locks, SameFile, LockHeld, Holders, history
<1>5. CASE StopRemovesLock(d)
  BY <1>5, RemoveLocks DEF StopRemovesLock
<1>6. CASE Exit(d)
  BY <1>6, DieLocks DEF Exit, paths
<1>7. CASE Ticker(d)
  BY <1>7, KeepLocks DEF Ticker, Holders, paths, history
<1>8. CASE IdleTimeout(d)
  BY <1>8, KeepLocks DEF IdleTimeout, Holders, paths, history
<1> QED BY <1>1, <1>2, <1>3, <1>4, <1>5, <1>6, <1>7, <1>8 DEF StopStep

LEMMA ClientLocks ==
  ASSUME Typed, Locks, NEW c \in Client, Begin(c) \/ ClientStep(c)
  PROVE  Locks'
<1>1. CASE Begin(c) \/ Ping(c) \/ ReadPIDFile(c) \/ Sweep(c) \/ List(c) \/ Wait(c)
  <2>1. UNCHANGED <<main, fd, flock, lock, unnamed>>
    BY <1>1 DEF Begin, Ping, ReadPIDFile, Sweep, List, Wait, daemons, paths, history
  <2> QED BY <2>1, KeepLocks DEF Holders
<1>2. CASE KillSurvivors(c)
  BY <1>2, DieLocks DEF KillSurvivors, paths
<1>3. CASE RemovePath(c)
  <2>1. UNCHANGED <<main, fd, flock>>
    BY <1>3 DEF RemovePath, daemons
  <2>2. RemoveLock \/ UNCHANGED <<lock, unnamed>>
    BY <1>3 DEF RemovePath
  <2> QED BY <2>1, <2>2, RemoveLocks, KeepLocks DEF Holders
<1>4. CASE Spawn(c)
  <2>1. PICK d \in Daemon : main[d] = "none" /\ main' = [main EXCEPT ![d] = "started"]
    BY <1>4, Spawned
  <2>2. UNCHANGED <<fd, flock, lock, unnamed>>
    BY <1>4 DEF Spawn, paths
  <2> QED BY <2>1, <2>2, KeepLocks DEF Holders, Typed, TypeOK
<1> QED BY <1>1, <1>2, <1>3, <1>4 DEF ClientStep

LEMMA StaysLocked == Typed /\ Locks /\ [Next]_vars => Locks'
<1> SUFFICES ASSUME Typed, Locks, [Next]_vars PROVE Locks'
  OBVIOUS
<1>1. CASE UNCHANGED vars
  BY <1>1, KeepLocks DEF Holders, vars, daemons, paths, history
<1> QED BY <1>1, MainLocks, StopLocks, ClientLocks DEF Next

-----------------------------------------------------------------------------
(* The evicted.                                                            *)

\* No daemon is started again.
Grows ==
  \A d \in Daemon : /\ main[d] # "none" => main'[d] # "none"
                    /\ main[d] = "ended" => main'[d] = "ended"

\* A step of a daemon, or of a client that does not evict.
LEMMA KeepSwept ==
  ASSUME Typed, Swept, Grows, UNCHANGED seen,
         \A c \in Client : at'[c] = at[c] \/ at'[c] \notin
           {"kill", "rmpid", "rmsock", "rmlock", "spawn"},
         \A d \in Daemon : evicted'[d] \subseteq evicted[d]
  PROVE  Swept'
BY DEF Typed, TypeOK, Swept, Grows

LEMMA DieGrows ==
  ASSUME Typed, NEW D, Die(D)
  PROVE  Grows /\ \A d \in Daemon : evicted'[d] \subseteq evicted[d]
BY DEF Typed, TypeOK, Grows, Die, Without

LEMMA MainSwept ==
  ASSUME Typed, Swept, NEW d \in Daemon, MainStep(d)
  PROVE  Swept'
<1>1. UNCHANGED <<seen, at>>
  BY DEF MainStep, OpenLock, TakeLock, ClearSocket, Bind, Record, WritePIDLockfile,
         MainReturns, clients
<1>2. \/ Die({d})
      \/ /\ main[d] \notin {"none", "ended"} /\ UNCHANGED evicted
         /\ \E s \in MainSteps \ {"none"} : main' = [main EXCEPT ![d] = s]
  BY DEF MainStep, OpenLock, TakeLock, ClearSocket, Bind, Record, WritePIDLockfile,
         MainReturns, history, MainSteps
<1>3. Grows /\ \A e \in Daemon : evicted'[e] \subseteq evicted[e]
  <2>1. CASE Die({d})
    BY <2>1, DieGrows
  <2>2. CASE /\ main[d] \notin {"none", "ended"} /\ UNCHANGED evicted
             /\ \E s \in MainSteps \ {"none"} : main' = [main EXCEPT ![d] = s]
    BY <2>2 DEF Grows, Typed, TypeOK
  <2> QED BY <1>2, <2>1, <2>2
<1> QED BY <1>1, <1>3, KeepSwept

LEMMA StopSwept ==
  ASSUME Typed, Swept, NEW d \in Daemon, StopStep(d) \/ Ticker(d) \/ IdleTimeout(d)
  PROVE  Swept'
<1>1. UNCHANGED <<seen, at>>
  BY DEF StopStep, Handler, CloseListener, RemoveSocket, Unlock, StopRemovesLock, Exit,
         Ticker, IdleTimeout, clients
<1>2. Die({d}) \/ UNCHANGED <<main, evicted>>
  BY DEF StopStep, Handler, CloseListener, RemoveSocket, Unlock, StopRemovesLock, Exit,
         Ticker, IdleTimeout, history
<1>3. Grows /\ \A e \in Daemon : evicted'[e] \subseteq evicted[e]
  BY <1>2, DieGrows DEF Grows
<1> QED BY <1>1, <1>3, KeepSwept

LEMMA ClientSwept ==
  ASSUME Typed, Swept, NEW c \in Client, Begin(c) \/ ClientStep(c)
  PROVE  Swept'
<1> USE DEF ClientGoes
<1>1. CASE Begin(c) \/ Ping(c) \/ ReadPIDFile(c) \/ Sweep(c) \/ Wait(c)
  <2>1. UNCHANGED <<main, seen, evicted>>
    BY <1>1 DEF Begin, Ping, ReadPIDFile, Sweep, Wait, daemons, history
  <2>2. \A x \in Client : at'[x] = at[x] \/ at'[x] \notin
          {"kill", "rmpid", "rmsock", "rmlock", "spawn"}
    BY <1>1 DEF Begin, Ping, ReadPIDFile, Sweep, Wait, Typed, TypeOK
  <2> QED BY <2>1, <2>2, KeepSwept DEF Grows
<1>2. CASE List(c)
  BY <1>2 DEF List, Swept, Typed, TypeOK, Alive, history
<1>3. CASE KillSurvivors(c)
  BY <1>3 DEF KillSurvivors, Die, Without, Swept, Typed, TypeOK, Alive
<1>4. CASE RemovePath(c)
  BY <1>4 DEF RemovePath, Swept, Typed, TypeOK, daemons
<1>5. CASE Spawn(c)
  <2>1. PICK d \in Daemon : /\ main[d] = "none"
                            /\ main' = [main EXCEPT ![d] = "started"]
                            /\ evicted' = [evicted EXCEPT ![d] = seen[c]]
    BY <1>5, Spawned
  <2>2. at[c] = "spawn" /\ at' = [at EXCEPT ![c] = "wait"] /\ seen' = [seen EXCEPT ![c] = {}]
    BY <1>5 DEF Spawn
  <2>3. \A e \in seen[c] : main[e] = "ended"
    BY <2>2 DEF Swept
  <2> QED BY <2>1, <2>2, <2>3 DEF Swept, Typed, TypeOK
<1> QED BY <1>1, <1>2, <1>3, <1>4, <1>5 DEF ClientStep

LEMMA StaysSwept == Typed /\ Swept /\ [Next]_vars => Swept'
<1> SUFFICES ASSUME Typed, Swept, [Next]_vars PROVE Swept'
  OBVIOUS
<1>1. CASE UNCHANGED vars
  BY <1>1 DEF Swept, vars, daemons, clients, history
<1> QED BY <1>1, MainSwept, StopSwept, ClientSwept DEF Next

-----------------------------------------------------------------------------

\* The parts of IInv hold together: Swept and the lock need the types.
THEOREM LifecycleInvariant == Spec => []IInv
<1>1. IInv /\ [Next]_vars => IInv'
  BY StaysTyped, StaysLocked, StaysSwept DEF IInv, Locks
<1> QED BY <1>1, InitHolds, PTL DEF Spec

\* Every reachable state is well typed, for any number of clients and daemons.
THEOREM LifecycleTyped == Spec => []TypeOK
<1>1. IInv => TypeOK BY DEF IInv, Typed
<1> QED BY <1>1, LifecycleInvariant, PTL

\* Two daemons are past the lock of one profile only after somebody removed
\* the path of a lock file while a daemon had it open.
THEOREM OneDaemonUnlessUnnamed == Spec => []OneUnlessUnnamed
<1>1. IInv => OneUnlessUnnamed
  BY DEF IInv, SameFile, LockHeld, OneUnlessUnnamed, Holders
<1> QED BY <1>1, LifecycleInvariant, PTL

\* A daemon is started when those its client evicted have ended.
THEOREM TheEvictedAreGone == Spec => []EvictedAreGone
<1>1. IInv => EvictedAreGone
  BY DEF IInv, Swept, EvictedAreGone, Alive
<1> QED BY <1>1, LifecycleInvariant, PTL
=============================================================================
