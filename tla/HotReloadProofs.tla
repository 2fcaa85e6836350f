-------------------------- MODULE HotReloadProofs --------------------------
(***************************************************************************)
(* Proofs, for every set of paths and values and every pipe, that a hot    *)
(* reload never has a listener without the lock and never a child that     *)
(* serves before it has restored the session.                              *)
(***************************************************************************)
EXTENDS HotReload, TLAPS

USE NoneAssumption, PipeAssumption DEF NoneAssumption, PipeAssumption

LEMMA HandoffInit == Init => HandoffInv
BY DEF Init, HandoffInv, TypeOK, Entries, Owner

(* What a mutating request changes keeps the types and touches neither     *)
(* the processes nor the paths.                                            *)
LEMMA StoreType ==
  ASSUME TypeOK, NEW who \in {"parent", "child"}, NEW r \in SetRequest,
         Store(who, r)
  PROVE  /\ secrets' \in [{"parent", "child"} -> Entries]
         /\ disk' \in Entries
         /\ wanted' \in [Path -> SUBSET (Value \cup {None})]
         /\ UNCHANGED <<session, pipe, promised>>
<1> USE DEF TypeOK, Store, SetRequest, Entries
<1>1. secrets' \in [{"parent", "child"} -> Entries]
  OBVIOUS
<1>2. disk' \in Entries
  BY <1>1
<1>3. wanted' \in [Path -> SUBSET (Value \cup {None})]
  OBVIOUS
<1> QED
  BY <1>1, <1>2, <1>3

LEMMA WipeType ==
  ASSUME TypeOK, NEW who \in {"parent", "child"}, Wipe(who)
  PROVE  /\ secrets' \in [{"parent", "child"} -> Entries]
         /\ session' = [session EXCEPT ![who] = "locked"]
         /\ session' \in [{"parent", "child"} -> {"open", "locked"}]
BY DEF TypeOK, Wipe, Entries

(* A request of either process, once the mutex is its. *)
LEMMA RequestStep ==
  ASSUME HandoffInv, NEW who \in {"parent", "child"}, NEW r \in Request,
         \/ r.kind \in {"set", "set_unsaved"} /\ Store(who, r)
         \/ r.kind = "clear" /\ Clear(who)
         \/ Refuse(who, r),
         UNCHANGED <<processVars, pathVars>>,
         waiting' \subseteq Request
  PROVE  HandoffInv'
<1> USE DEF HandoffInv, processVars, pathVars
<1>1. CASE r.kind \in {"set", "set_unsaved"} /\ Store(who, r)
  <2>1. r \in SetRequest
    BY <1>1 DEF Request, SetRequest
  <2>2. TypeOK'
    BY <1>1, <2>1, StoreType DEF TypeOK
  <2> QED
    BY <2>1, <2>2, <1>1, StoreType
<1>2. CASE r.kind = "clear" /\ Clear(who)
  <2>1. TypeOK'
    BY <1>2, WipeType DEF TypeOK, Clear
  <2> QED
    BY <2>1, <1>2 DEF Clear
<1>3. CASE Refuse(who, r)
  BY <1>3 DEF Refuse, dataVars, TypeOK
<1> QED
  BY <1>1, <1>2, <1>3

LEMMA HandoffStep == HandoffInv /\ [Next]_vars => HandoffInv'
<1> SUFFICES ASSUME HandoffInv, [Next]_vars PROVE HandoffInv'
  OBVIOUS
<1> USE DEF HandoffInv, processVars, pathVars, dataVars, Owner, MutexFree,
            ParentAlive
<1>1. ASSUME NEW r \in Request, Admit(r) PROVE HandoffInv'
  BY <1>1 DEF Admit, TypeOK
<1>2. ASSUME NEW r \in Request, ParentHandles(r) PROVE HandoffInv'
  <2>1. waiting' \subseteq Request
    BY <1>2 DEF ParentHandles, TypeOK
  <2> QED
    BY <1>2, <2>1, RequestStep DEF ParentHandles
<1>3. ASSUME NEW r \in Request, ParentStops(r) PROVE HandoffInv'
  <2>1. TypeOK'
    BY <1>3, WipeType DEF ParentStops, TypeOK
  <2>2. session'["child"] = session["child"]
    BY <1>3, WipeType DEF ParentStops, TypeOK
  <2> QED
    BY <2>1, <2>2, <1>3 DEF ParentStops
<1>4. ASSUME NEW r \in Request, Reexec(r) PROVE HandoffInv'
  BY <1>4 DEF Reexec, TypeOK
<1>5. ASSUME NEW r \in Request, ChildHandles(r) PROVE HandoffInv'
  <2>1. waiting' \subseteq Request
    BY <1>5 DEF ChildHandles, TypeOK
  <2> QED
    BY <1>5, <2>1, RequestStep DEF ChildHandles
<1>6. CASE EncodeAndReply
  BY <1>6 DEF EncodeAndReply, TypeOK
<1>7. CASE CloseListener
  BY <1>7 DEF CloseListener, TypeOK
<1>8. CASE Unlock
  BY <1>8 DEF Unlock, TypeOK
<1>9. CASE StartChild
  BY <1>9 DEF StartChild, TypeOK
<1>10. CASE Restore
  <2>1. TypeOK'
    BY <1>10 DEF Restore, TypeOK, Entries
  <2>2. session'["child"] = "open"
    BY <1>10 DEF Restore, TypeOK
  <2> QED
    BY <2>1, <2>2, <1>10 DEF Restore
<1>11. CASE TakeLock
  <2>1. TypeOK'
    BY <1>11, WipeType DEF TakeLock, TypeOK
  <2> QED
    BY <2>1, <1>11 DEF TakeLock
<1>12. CASE Bind
  BY <1>12 DEF Bind, TypeOK
<1>13. CASE MainReturns
  BY <1>13 DEF MainReturns, TypeOK
<1>14. CASE ParentExits
  <2>1. TypeOK'
    BY <1>14, WipeType DEF ParentExits, TypeOK
  <2>2. session'["child"] = session["child"]
    BY <1>14, WipeType DEF ParentExits, TypeOK
  <2> QED
    BY <2>1, <2>2, <1>14 DEF ParentExits
<1>15. CASE RivalStarts
  BY <1>15 DEF RivalStarts, TypeOK
<1>17. CASE StartFails
  BY <1>17 DEF StartFails, TypeOK
<1>16. CASE UNCHANGED vars
  BY <1>16 DEF vars, TypeOK
<1> QED
  BY <1>1, <1>2, <1>3, <1>4, <1>5, <1>6, <1>7, <1>8, <1>9, <1>10, <1>11,
     <1>12, <1>13, <1>14, <1>15, <1>16, <1>17 DEF Next, Handler, Child

(* Type correctness. *)
THEOREM HandoffTypeCorrect == Spec => []TypeOK
<1>1. HandoffInv => TypeOK
  BY DEF HandoffInv
<1> QED
  BY <1>1, HandoffInit, HandoffStep, PTL DEF Spec

(* Whatever the order of the handler, the main goroutine, the child, a     *)
(* rival and a signal, only the holder of the lock listens.                *)
THEOREM OnlyLockHolderListens == Spec => []ListenerHoldsLock
<1>1. HandoffInv => ListenerHoldsLock
  BY DEF HandoffInv, ListenerHoldsLock, Listening
<1> QED
  BY <1>1, HandoffInit, HandoffStep, PTL DEF Spec

(* A child never serves a session it has not restored. *)
THEOREM ChildServesRestored == Spec => []ServesRestored
<1>1. HandoffInv => ServesRestored
  BY DEF HandoffInv, ServesRestored
<1> QED
  BY <1>1, HandoffInit, HandoffStep, PTL DEF Spec
=============================================================================
