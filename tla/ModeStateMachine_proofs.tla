------------------------ MODULE ModeStateMachine_proofs ------------------------
(***************************************************************************)
(* Proofs about ModeStateMachine for any set of threads, targets and       *)
(* codes: the fields and registers keep their types; with one supervisor   *)
(* and threads that only request SafeStop a latched fault holds the mode   *)
(* in SafeStop; and a single thread sees an object that implements         *)
(* ModeProtocol.                                                           *)
(***************************************************************************)
EXTENDS ModeStateMachine, TLAPS

\* The fields, pcs and registers of ModeStateMachine keep their types,
\* whatever calls the threads interleave.
THEOREM TypeCorrect == Spec => []TypeOK
<1>1. Init => TypeOK
  BY DEF Init, TypeOK, Modes, PCs
<1>2. TypeOK /\ [Next]_vars => TypeOK'
  <2> SUFFICES ASSUME TypeOK, [Next]_vars PROVE TypeOK'
    OBVIOUS
  <2> USE DEF TypeOK, shared, Goto, Return, Reload, PCs, TransitionPCs, LatchPCs, ClearPCs
  <2>1. ASSUME NEW t \in Threads, NEW m \in Modes, CheckLatch(t, m) PROVE TypeOK'
    BY <2>1 DEF CheckLatch
  <2>2. ASSUME NEW t \in Threads,
               \/ StoreLatch(t) \/ CheckLatched(t) \/ StoreCode(t)
               \/ StoreUnlatch(t) \/ ZeroCode(t)
        PROVE TypeOK'
    BY <2>2 DEF StoreLatch, CheckLatched, StoreCode, StoreUnlatch, ZeroCode
  <2>3. ASSUME NEW t \in Threads, CheckAllowed(t) \/ Recheck(t) PROVE TypeOK'
    BY <2>3 DEF CheckAllowed, Recheck, Modes
  <2>4. ASSUME NEW t \in Threads,
               \/ LoadMode(t) \/ CasFails(t) \/ ClearLoad(t)
               \/ ClearCasFails(t) \/ RecoverLoad(t)
        PROVE TypeOK'
    BY <2>4 DEF LoadMode, CasFails, ClearLoad, ClearCasFails, RecoverLoad
  <2>5. ASSUME NEW t \in Threads,
               \/ CasSucceeds(t) \/ StoreMode(t) \/ ClearCasSucceeds(t)
        PROVE TypeOK'
    BY <2>5 DEF CasSucceeds, StoreMode, ClearCasSucceeds, Modes
  <2>6. ASSUME NEW t \in Threads,
               \/ NotifyTransition(t) \/ NotifyFault(t) \/ ClearNotify(t)
        PROVE TypeOK'
    BY <2>6 DEF NotifyTransition, NotifyFault, ClearNotify, Tell, Modes
  <2>7. ASSUME NEW t \in Threads, RecoverCasSucceeds(t) \/ RecoverCasFails(t)
        PROVE TypeOK'
    BY <2>7 DEF RecoverCasSucceeds, RecoverCasFails, Modes
  <2>8. CASE UNCHANGED vars
    BY <2>8 DEF vars
  <2>9. QED
    BY <2>1, <2>2, <2>3, <2>4, <2>5, <2>6, <2>7, <2>8 DEF Next, Call, Step
<1>3. QED
  BY <1>1, <1>2, PTL DEF Spec

-------------------------------------------------------------------------------
(* A latched fault holds SafeStop under a single supervisor                *)

\* What makes StopHolds inductive.  A thread past the latch test with another
\* target than SafeStop is the supervisor, and nobody else can set the latch
\* meanwhile; the same goes for the windows in which clear_fault and
\* recover_localization are about to move the mode.
InFlight ==
  \A t \in Threads :
    /\ pc[t] \in TransitionPCs /\ target[t] /= "SafeStop" => t \in Supervisors /\ ~latched
    /\ pc[t] \in LatchPCs \cup ClearPCs \cup {"recoverCas"} => t \in Supervisors
    /\ pc[t] \in (ClearPCs \ {"unlatch"}) \cup {"recoverCas"} => ~latched

IInv == TypeOK /\ StopHolds /\ InFlight

\* Under a single supervisor every step preserves the invariant.
LEMMA StopHoldsStep ==
  ASSUME SingleSupervisor, IInv, TypeOK', [Next]_vars
  PROVE  IInv'
<1> USE ThreadsAssumption DEF IInv, InFlight, StopHolds, Latching, TypeOK,
            shared, Goto, Return, Reload,
            TransitionPCs, LatchPCs, ClearPCs
<1>1. ASSUME NEW t \in Threads, NEW m \in Modes, CheckLatch(t, m) PROVE IInv'
  BY <1>1 DEF CheckLatch, SingleSupervisor
<1>2. ASSUME NEW t \in Threads, StoreLatch(t) \/ StoreCode(t) PROVE IInv'
  BY <1>2 DEF StoreLatch, StoreCode, SingleSupervisor
<1>3. ASSUME NEW t \in Threads, CheckLatched(t) \/ StoreUnlatch(t) \/ ZeroCode(t)
      PROVE IInv'
  BY <1>3 DEF CheckLatched, StoreUnlatch, ZeroCode, SingleSupervisor
<1>4. ASSUME NEW t \in Threads, CheckAllowed(t) \/ Recheck(t) PROVE IInv'
  BY <1>4 DEF CheckAllowed, Recheck, Modes
<1>5. ASSUME NEW t \in Threads, LoadMode(t) \/ CasFails(t) \/ ClearLoad(t) \/ ClearCasFails(t)
      PROVE IInv'
  BY <1>5 DEF LoadMode, CasFails, ClearLoad, ClearCasFails
<1>6. ASSUME NEW t \in Threads, CasSucceeds(t) PROVE IInv'
  BY <1>6 DEF CasSucceeds
<1>7. ASSUME NEW t \in Threads, StoreMode(t) \/ ClearCasSucceeds(t) PROVE IInv'
  BY <1>7 DEF StoreMode, ClearCasSucceeds, SingleSupervisor
<1>8. ASSUME NEW t \in Threads, NotifyTransition(t) \/ NotifyFault(t) \/ ClearNotify(t)
      PROVE IInv'
  BY <1>8 DEF NotifyTransition, NotifyFault, ClearNotify, Tell, Modes
<1>9. ASSUME NEW t \in Threads, RecoverLoad(t) PROVE IInv'
  BY <1>9 DEF RecoverLoad, SingleSupervisor
<1>10. ASSUME NEW t \in Threads, RecoverCasSucceeds(t) \/ RecoverCasFails(t) PROVE IInv'
  BY <1>10 DEF RecoverCasSucceeds, RecoverCasFails, Modes
<1>11. CASE UNCHANGED vars
  BY <1>11 DEF vars
<1>12. QED
  BY <1>1, <1>2, <1>3, <1>4, <1>5, <1>6, <1>7, <1>8, <1>9, <1>10, <1>11 DEF Next, Call, Step

\* With one supervisor, and other threads that only request SafeStop, mode() is
\* SafeStop whenever fault_latched() is true and latch_fault is past its
\* stores, in every interleaving and for any number of threads.
THEOREM StopHoldsCorrect ==
  ASSUME SingleSupervisor
  PROVE  Spec => []StopHolds
<1>1. Init => IInv
  BY DEF Init, IInv, TypeOK, StopHolds, InFlight, PCs, Modes, TransitionPCs, LatchPCs, ClearPCs
<1>2. IInv /\ TypeOK' /\ [Next]_vars => IInv'
  BY StopHoldsStep
<1>3. IInv => StopHolds
  BY DEF IInv
<1>4. QED
  BY <1>1, <1>2, <1>3, TypeCorrect, PTL DEF Spec

-------------------------------------------------------------------------------
(* A single thread sees the indivisible operations of ModeProtocol         *)

\* What one thread knows between its loads: nobody else moves the mode.
SoloRegisters ==
  \A t \in Threads :
    /\ pc[t] \in {"load", "cas", "recheck"} => Allowed(mode, target[t])
    /\ pc[t] \in {"cas", "recheck"} => expected[t] = mode
    /\ pc[t] \in {"allowed", "load", "cas", "recheck"} /\ target[t] /= "SafeStop" => ~latched
    /\ pc[t] \in {"storeCode", "storeMode"} => latched
    /\ pc[t] = "unlatch" => latched
    /\ pc[t] \in {"zeroCode", "clearLoad", "clearCas"} => mode = "SafeStop" /\ ~latched
    /\ pc[t] = "clearNotify" => ~latched
    /\ pc[t] = "recoverCas" => mode = "LocalizationLost" /\ expected[t] = mode /\ ~latched

SoloInv == TypeOK /\ StopHolds /\ SoloRegisters

\* SafeStop has no edge to another mode.
LEMMA SafeStopIsFinal == \A m \in Modes : Allowed("SafeStop", m) => m = "SafeStop"
  BY DEF Allowed, Edges, Modes

\* LocalizationLost has the edge recover_localization takes unchecked.
LEMMA RecoverEdge == <<"LocalizationLost", "Degraded">> \in Edges
  BY DEF Edges

\* The instance carries its own copy of ModeRules.
LEMMA SameRules == Protocol!Edges = Edges /\ Protocol!Modes = Modes
  BY DEF Edges, Modes, Protocol!Edges, Protocol!Modes

LEMMA SoloStep ==
  ASSUME SingleThread, SoloInv, TypeOK', [Next]_vars
  PROVE  SoloInv'
<1> USE SafeStopIsFinal DEF SingleThread, SoloInv, SoloRegisters, StopHolds, Latching, TypeOK,
                            shared, Goto, Return, Reload
<1>1. ASSUME NEW t \in Threads, NEW m \in Modes, CheckLatch(t, m) PROVE SoloInv'
  BY <1>1 DEF CheckLatch
<1>2. ASSUME NEW t \in Threads, CheckAllowed(t) \/ Recheck(t) PROVE SoloInv'
  BY <1>2 DEF CheckAllowed, Recheck
<1>3. ASSUME NEW t \in Threads,
             \/ LoadMode(t) \/ CasFails(t) \/ ClearLoad(t) \/ ClearCasFails(t) \/ RecoverLoad(t)
      PROVE SoloInv'
  BY <1>3 DEF LoadMode, CasFails, ClearLoad, ClearCasFails, RecoverLoad
<1>4. ASSUME NEW t \in Threads, CasSucceeds(t) \/ StoreMode(t) \/ ClearCasSucceeds(t)
      PROVE SoloInv'
  BY <1>4 DEF CasSucceeds, StoreMode, ClearCasSucceeds
<1>5. ASSUME NEW t \in Threads,
             \/ StoreLatch(t) \/ StoreCode(t) \/ CheckLatched(t) \/ StoreUnlatch(t) \/ ZeroCode(t)
      PROVE SoloInv'
  BY <1>5 DEF StoreLatch, StoreCode, CheckLatched, StoreUnlatch, ZeroCode
<1>6. ASSUME NEW t \in Threads,
             \/ NotifyTransition(t) \/ NotifyFault(t) \/ ClearNotify(t)
             \/ RecoverCasSucceeds(t) \/ RecoverCasFails(t)
      PROVE SoloInv'
  BY <1>6 DEF NotifyTransition, NotifyFault, ClearNotify, RecoverCasSucceeds, RecoverCasFails
<1>7. CASE UNCHANGED vars
  BY <1>7 DEF vars, Allowed
<1>8. QED
  BY <1>1, <1>2, <1>3, <1>4, <1>5, <1>6, <1>7 DEF Next, Call, Step

\* Every access of a lone thread is a step of ModeProtocol or a stutter.
LEMMA SoloSimulates ==
  ASSUME SingleThread, SoloInv, SoloInv', [Next]_vars
  PROVE  [Protocol!Next]_Protocol!vars
<1> USE SafeStopIsFinal, SameRules DEF SingleThread, SoloInv, SoloRegisters, StopHolds,
        Latching, TypeOK, shared, Goto, Return, Reload, Clearing,
        Protocol!Next, Protocol!vars, Protocol!Change, Protocol!LatchFault, Protocol!ClearFault
<1>1. ASSUME NEW t \in Threads, NEW m \in Modes, CheckLatch(t, m)
      PROVE  UNCHANGED Protocol!vars
  BY <1>1 DEF CheckLatch
<1>2. ASSUME NEW t \in Threads,
             \/ CheckAllowed(t) \/ LoadMode(t) \/ CasFails(t) \/ Recheck(t)
             \/ NotifyTransition(t) \/ NotifyFault(t) \/ ClearNotify(t)
      PROVE  UNCHANGED Protocol!vars
  BY <1>2 DEF CheckAllowed, LoadMode, CasFails, Recheck, NotifyTransition, NotifyFault, ClearNotify
<1>3. ASSUME NEW t \in Threads, CasSucceeds(t)
      PROVE  Protocol!Next \/ UNCHANGED Protocol!vars
  BY <1>3 DEF CasSucceeds, Allowed
<1>4. ASSUME NEW t \in Threads, StoreLatch(t) \/ StoreMode(t)
      PROVE  Protocol!Next \/ UNCHANGED Protocol!vars
  BY <1>4 DEF StoreLatch, StoreMode
<1>5. ASSUME NEW t \in Threads,
             \/ StoreCode(t) \/ CheckLatched(t) \/ StoreUnlatch(t) \/ ZeroCode(t)
             \/ ClearLoad(t) \/ ClearCasFails(t) \/ RecoverLoad(t) \/ RecoverCasFails(t)
      PROVE  UNCHANGED Protocol!vars
  BY <1>5 DEF StoreCode, CheckLatched, StoreUnlatch, ZeroCode, ClearLoad, ClearCasFails,
              RecoverLoad, RecoverCasFails
<1>6. ASSUME NEW t \in Threads, ClearCasSucceeds(t) PROVE Protocol!ClearFault
  BY <1>6 DEF ClearCasSucceeds
<1>7. ASSUME NEW t \in Threads, RecoverCasSucceeds(t) PROVE Protocol!Change("Degraded")
  BY <1>7, RecoverEdge DEF RecoverCasSucceeds
<1>8. CASE UNCHANGED vars
  BY <1>8 DEF vars
<1>9. "Degraded" \in Modes
  BY DEF Modes
<1>10. QED
  BY <1>1, <1>2, <1>3, <1>4, <1>5, <1>6, <1>7, <1>8, <1>9 DEF Next, Call, Step

\* Used by one thread, the object implements ModeProtocol: edges, latch and
\* clear behave as if each call were indivisible, spurious compare-exchange
\* failures included.
THEOREM ProtocolImplemented ==
  ASSUME SingleThread
  PROVE  Spec => ImplementsProtocol
<1>1. Init => SoloInv /\ Protocol!Init
  BY DEF Init, SoloInv, TypeOK, StopHolds, SoloRegisters, PCs, Modes, Protocol!Init
<1>2. SoloInv /\ TypeOK' /\ [Next]_vars => SoloInv'
  BY SoloStep
<1>3. SoloInv /\ SoloInv' /\ [Next]_vars => [Protocol!Next]_Protocol!vars
  BY SoloSimulates
<1>4. QED
  BY <1>1, <1>2, <1>3, TypeCorrect, PTL DEF Spec, ImplementsProtocol, Protocol!Spec
-------------------------------------------------------------------------------
(* What a single thread has told the health monitor                        *)

\* The monitor is up to date about mode m: the exception is the one step
\* recover_localization takes in silence.
Told(m) == told = m \/ (told = "LocalizationLost" /\ m = "Degraded")

\* Until a call moves the mode the monitor knows it; from there to the
\* notification it knows the mode the call came from, its expected value.
ToldRegisters ==
  \A t \in Threads :
    /\ pc[t] \in {"out", "allowed", "load", "cas", "recheck", "unlatch", "zeroCode",
                  "clearLoad", "clearCas", "recoverCas"} => Told(mode)
    /\ pc[t] = "clearCas" => expected[t] = mode
    /\ pc[t] = "notify" => mode = target[t] /\ Told(expected[t])
    /\ pc[t] = "clearNotify" => mode = "Idle" /\ Told(expected[t])
    /\ pc[t] = "notifyFault" => mode = "SafeStop"

ToldInv == ToldRegisters /\ MonitorSeesMode

\* Every access of a lone thread keeps the monitor's view.
LEMMA ToldStep ==
  ASSUME SingleThread, SoloInv, ToldInv, TypeOK', [Next]_vars
  PROVE  ToldInv'
<1> USE DEF SingleThread, SoloInv, SoloRegisters, ToldInv, ToldRegisters, MonitorSeesMode, Told,
            TypeOK, shared, Goto, Return, Reload, Tell
<1>1. ASSUME NEW t \in Threads, NEW m \in Modes, CheckLatch(t, m) PROVE ToldInv'
  BY <1>1 DEF CheckLatch
<1>2. ASSUME NEW t \in Threads, CheckAllowed(t) \/ Recheck(t) PROVE ToldInv'
  BY <1>2 DEF CheckAllowed, Recheck
<1>3. ASSUME NEW t \in Threads,
             \/ LoadMode(t) \/ CasFails(t) \/ ClearLoad(t) \/ ClearCasFails(t) \/ RecoverLoad(t)
      PROVE ToldInv'
  BY <1>3 DEF LoadMode, CasFails, ClearLoad, ClearCasFails, RecoverLoad
<1>4. ASSUME NEW t \in Threads, CasSucceeds(t) \/ StoreMode(t) \/ ClearCasSucceeds(t)
      PROVE ToldInv'
  BY <1>4 DEF CasSucceeds, StoreMode, ClearCasSucceeds
<1>5. ASSUME NEW t \in Threads,
             \/ StoreLatch(t) \/ StoreCode(t) \/ CheckLatched(t) \/ StoreUnlatch(t) \/ ZeroCode(t)
      PROVE ToldInv'
  BY <1>5 DEF StoreLatch, StoreCode, CheckLatched, StoreUnlatch, ZeroCode
<1>6. ASSUME NEW t \in Threads, NotifyTransition(t) \/ NotifyFault(t) \/ ClearNotify(t)
      PROVE ToldInv'
  BY <1>6 DEF NotifyTransition, NotifyFault, ClearNotify
<1>7. ASSUME NEW t \in Threads, RecoverCasSucceeds(t) \/ RecoverCasFails(t)
      PROVE ToldInv'
  BY <1>7 DEF RecoverCasSucceeds, RecoverCasFails
<1>8. CASE UNCHANGED vars
  BY <1>8 DEF vars
<1>9. QED
  BY <1>1, <1>2, <1>3, <1>4, <1>5, <1>6, <1>7, <1>8 DEF Next, Call, Step

\* Outside its calls a lone thread can trust the health monitor's view of the
\* mode, up to the recovery that notifies nobody.
THEOREM MonitorSeesModeCorrect ==
  ASSUME SingleThread
  PROVE  Spec => []MonitorSeesMode
<1>1. Init => SoloInv /\ ToldInv
  BY DEF Init, SoloInv, TypeOK, StopHolds, SoloRegisters, PCs, Modes,
         ToldInv, ToldRegisters, MonitorSeesMode, Told
<1>2. SoloInv /\ ToldInv /\ TypeOK' /\ [Next]_vars => SoloInv' /\ ToldInv'
  BY SoloStep, ToldStep
<1>3. ToldInv => MonitorSeesMode
  BY DEF ToldInv
<1>4. QED
  BY <1>1, <1>2, <1>3, TypeCorrect, PTL DEF Spec
================================================================================
