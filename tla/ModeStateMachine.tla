--------------------------- MODULE ModeStateMachine ---------------------------
(***************************************************************************)
(* ModeStateMachine (src/state_machine/state_machine.cpp) used by several  *)
(* threads.  mode_ and latched_fault_ are atomics and the object takes no  *)
(* lock, so a call is a sequence of steps, each one access to one field,   *)
(* and the calls of different threads interleave between any two of them.  *)
(* A thread's registers are its pc, the target of its transition_to and    *)
(* the expected value of its compare-exchange.                             *)
(*                                                                         *)
(* Atomics are read and written in one total order (no store buffering):   *)
(* every behaviour below is one of the program on any hardware.            *)
(***************************************************************************)
EXTENDS ModeRules, Naturals

CONSTANTS
  Threads,      \* callers of the object
  Supervisors,  \* the ones that latch, clear and recover
  Targets,      \* Targets[t]: the modes thread t passes to transition_to
  Codes,        \* fault codes passed to latch_fault
  NoCode        \* fault_code_ = 0

ASSUME ThreadsAssumption ==
  /\ Supervisors \subseteq Threads
  /\ Targets \in [Threads -> SUBSET Modes]
  /\ NoCode \notin Codes

VARIABLES
  mode,       \* mode_
  latched,    \* latched_fault_
  faultCode,  \* fault_code_, a plain field nothing reads
  told,       \* the mode the health monitor was last told of
  pc,         \* where each thread is
  target,     \* argument of its transition_to
  expected    \* `prev`, the expected value of its compare-exchange

shared == <<mode, latched, faultCode, told>>
vars   == <<mode, latched, faultCode, told, pc, target, expected>>

\* "out" is outside every call; the others name the access that is next.
TransitionPCs == {"allowed", "load", "cas", "recheck", "notify"}
LatchPCs      == {"storeCode", "storeMode", "notifyFault"}
ClearPCs      == {"unlatch", "zeroCode", "clearLoad", "clearCas", "clearNotify"}
PCs           == {"out", "recoverCas"} \cup TransitionPCs \cup LatchPCs \cup ClearPCs

TypeOK ==
  /\ mode \in Modes
  /\ latched \in BOOLEAN
  /\ faultCode \in Codes \cup {NoCode}
  /\ told \in Modes
  /\ pc \in [Threads -> PCs]
  /\ target \in [Threads -> Modes]
  /\ \A t \in Threads : target[t] \in Targets[t] \cup {"Init"}
  /\ expected \in [Threads -> Modes]

Init ==
  /\ mode = "Init"
  /\ latched = FALSE
  /\ faultCode = NoCode
  /\ told = "Init"
  /\ pc = [t \in Threads |-> "out"]
  /\ target = [t \in Threads |-> "Init"]
  /\ expected = [t \in Threads |-> "Init"]

Goto(t, label) == pc' = [pc EXCEPT ![t] = label]

\* A call ends, and its registers with it.
Return(t) ==
  /\ Goto(t, "out")
  /\ target' = [target EXCEPT ![t] = "Init"]
  /\ expected' = [expected EXCEPT ![t] = "Init"]

\* The expected value is (re)loaded from mode_.
Reload(t) == expected' = [expected EXCEPT ![t] = mode] /\ UNCHANGED target

\* notify_transition is silent when the mode did not change.
Tell(t, m) == told' = IF expected[t] = m THEN told ELSE m

-------------------------------------------------------------------------------
(* transition_to(m), which request_obstacle_hold and                       *)
(* report_localization_lost call with a fixed mode.  A call that is        *)
(* refused at its first load changes nothing and is left out here and below *)

\* Load latched_fault_.
CheckLatch(t, m) ==
  /\ pc[t] = "out" /\ m \in Targets[t]
  /\ latched => m = "SafeStop"
  /\ target' = [target EXCEPT ![t] = m]
  /\ Goto(t, "allowed")
  /\ UNCHANGED <<shared, expected>>

\* allowed(): one load of mode_.
CheckAllowed(t) ==
  /\ pc[t] = "allowed"
  /\ IF Allowed(mode, target[t])
       THEN Goto(t, "load") /\ UNCHANGED <<target, expected>>
       ELSE Return(t)
  /\ UNCHANGED shared

\* A second load of mode_ gives the compare-exchange its expected value.
LoadMode(t) ==
  /\ pc[t] = "load"
  /\ Reload(t)
  /\ Goto(t, "cas")
  /\ UNCHANGED shared

\* Seeded bug: a plain exchange, whose old value goes into the target.
CasExchanges(t) ==
  /\ pc[t] = "cas"
  /\ mode' = target[t]
  /\ target' = [target EXCEPT ![t] = mode]
  /\ Goto(t, "notify")
  /\ UNCHANGED <<latched, faultCode, told, expected>>

CasSucceeds(t) ==
  /\ pc[t] = "cas" /\ mode = expected[t]
  /\ mode' = target[t]
  /\ Goto(t, "notify")
  /\ UNCHANGED <<latched, faultCode, told, target, expected>>

\* Seeded bug: a failed compare-exchange that leaves `prev` alone.
CasFailsBlindly(t) ==
  /\ pc[t] = "cas"
  /\ Goto(t, "recheck")
  /\ UNCHANGED <<shared, target, expected>>

\* compare_exchange_weak may also fail when the values are equal.
CasFails(t) ==
  /\ pc[t] = "cas"
  /\ Reload(t)
  /\ Goto(t, "recheck")
  /\ UNCHANGED shared

\* allowed() again, on one more load of mode_; the call also ends, with Ok,
\* when the reloaded value is already the target.
Recheck(t) ==
  /\ pc[t] = "recheck"
  /\ IF Allowed(mode, target[t]) /\ expected[t] /= target[t]
       THEN Goto(t, "cas") /\ UNCHANGED <<target, expected>>
       ELSE Return(t)
  /\ UNCHANGED shared

NotifyTransition(t) ==
  /\ pc[t] = "notify"
  /\ Tell(t, target[t])
  /\ Return(t)
  /\ UNCHANGED <<mode, latched, faultCode>>

-------------------------------------------------------------------------------
(* latch_fault(code): three stores and the notification                    *)

StoreLatch(t) ==
  /\ pc[t] = "out" /\ t \in Supervisors
  /\ latched' = TRUE
  /\ Goto(t, "storeCode")
  /\ UNCHANGED <<mode, faultCode, told, target, expected>>

StoreCode(t) ==
  /\ pc[t] = "storeCode"
  /\ faultCode' \in Codes
  /\ Goto(t, "storeMode")
  /\ UNCHANGED <<mode, latched, told, target, expected>>

StoreMode(t) ==
  /\ pc[t] = "storeMode"
  /\ mode' = "SafeStop"
  /\ Goto(t, "notifyFault")
  /\ UNCHANGED <<latched, faultCode, told, target, expected>>

NotifyFault(t) ==
  /\ pc[t] = "notifyFault"
  /\ told' = "SafeStop"
  /\ Return(t)
  /\ UNCHANGED <<mode, latched, faultCode>>

-------------------------------------------------------------------------------
(* clear_fault()                                                           *)

\* Seeded bug: clear_fault goes ahead without a latched fault.
ClearUnasked(t) ==
  /\ pc[t] = "out" /\ t \in Supervisors
  /\ Goto(t, "unlatch")
  /\ UNCHANGED <<shared, target, expected>>

CheckLatched(t) ==
  /\ pc[t] = "out" /\ t \in Supervisors
  /\ latched
  /\ Goto(t, "unlatch")
  /\ UNCHANGED <<shared, target, expected>>

\* Seeded bug: the latch is not reset.
KeepLatch(t) ==
  /\ pc[t] = "unlatch"
  /\ Goto(t, "zeroCode")
  /\ UNCHANGED <<shared, target, expected>>

StoreUnlatch(t) ==
  /\ pc[t] = "unlatch"
  /\ latched' = FALSE
  /\ Goto(t, "zeroCode")
  /\ UNCHANGED <<mode, faultCode, told, target, expected>>

ZeroCode(t) ==
  /\ pc[t] = "zeroCode"
  /\ faultCode' = NoCode
  /\ Goto(t, "clearLoad")
  /\ UNCHANGED <<mode, latched, told, target, expected>>

ClearLoad(t) ==
  /\ pc[t] = "clearLoad"
  /\ Reload(t)
  /\ Goto(t, "clearCas")
  /\ UNCHANGED shared

ClearCasSucceeds(t) ==
  /\ pc[t] = "clearCas" /\ mode = expected[t]
  /\ mode' = "Idle"
  /\ Goto(t, "clearNotify")
  /\ UNCHANGED <<latched, faultCode, told, target, expected>>

\* The loop has an empty body: whatever the mode became, it ends in Idle.
ClearCasFails(t) ==
  /\ pc[t] = "clearCas"
  /\ Reload(t)
  /\ UNCHANGED <<shared, pc>>

\* Seeded bug: clear_fault notifies nobody.
ClearSilently(t) ==
  /\ pc[t] = "clearNotify"
  /\ Return(t)
  /\ UNCHANGED shared

ClearNotify(t) ==
  /\ pc[t] = "clearNotify"
  /\ Tell(t, "Idle")
  /\ Return(t)
  /\ UNCHANGED <<mode, latched, faultCode>>

-------------------------------------------------------------------------------
(* recover_localization(): it reads neither the latch nor allowed(), and   *)
(* it notifies nobody                                                      *)

RecoverLoad(t) ==
  /\ pc[t] = "out" /\ t \in Supervisors
  /\ mode = "LocalizationLost"
  /\ Reload(t)
  /\ Goto(t, "recoverCas")
  /\ UNCHANGED shared

RecoverCasSucceeds(t) ==
  /\ pc[t] = "recoverCas" /\ mode = expected[t]
  /\ mode' = "Degraded"
  /\ Return(t)
  /\ UNCHANGED <<latched, faultCode, told>>

\* Tried again as long as the mode is still LocalizationLost.
RecoverCasFails(t) ==
  /\ pc[t] = "recoverCas"
  /\ mode /= "LocalizationLost"
  /\ Return(t)
  /\ UNCHANGED shared

-------------------------------------------------------------------------------
\* The calls that begin.
Call(t) ==
  \/ \E m \in Modes : CheckLatch(t, m)
  \/ StoreLatch(t) \/ CheckLatched(t) \/ RecoverLoad(t)

\* The next access of a call under way.
Step(t) ==
  \/ CheckAllowed(t) \/ LoadMode(t) \/ CasSucceeds(t) \/ CasFails(t)
  \/ Recheck(t) \/ NotifyTransition(t)
  \/ StoreCode(t) \/ StoreMode(t) \/ NotifyFault(t)
  \/ StoreUnlatch(t) \/ ZeroCode(t) \/ ClearLoad(t)
  \/ ClearCasSucceeds(t) \/ ClearCasFails(t) \/ ClearNotify(t)
  \/ RecoverCasSucceeds(t) \/ RecoverCasFails(t)

Next == \E t \in Threads : Call(t) \/ Step(t)

Spec == Init /\ [][Next]_vars

\* A thread inside a call keeps running, and a compare-exchange that is tried
\* again and again on a mode that matches does succeed in the end.
Fairness ==
  \A t \in Threads :
    /\ WF_vars(Step(t))
    /\ SF_vars(CasSucceeds(t))
    /\ SF_vars(ClearCasSucceeds(t))

FairSpec == Spec /\ Fairness

-------------------------------------------------------------------------------
(* Properties                                                              *)

\* One thread issues every call but requests to stop: the way the supervisor
\* node uses the object, and what the promises below need.
SingleSupervisor ==
  /\ \A s, t \in Supervisors : s = t
  /\ \A t \in Threads \ Supervisors : Targets[t] \subseteq {"SafeStop"}

\* One thread makes every call.
SingleThread == \A s, t \in Threads : s = t

\* Between the stores of a latch_fault.
Latching == \E t \in Threads : pc[t] \in {"storeCode", "storeMode"}

\* Between the stores of a clear_fault.
Clearing == \E t \in Threads : pc[t] \in {"zeroCode", "clearLoad", "clearCas"}

\* Whenever fault_latched() is true and latch_fault has made its stores, mode()
\* is SafeStop: what state_machine_tests.cpp asserts of one thread, asked of
\* every interleaving of transition_to with latch_fault and clear_fault.
StopHolds == latched /\ ~Latching => mode = "SafeStop"

\* Outside its calls a supervisor can trust the health monitor's view of the
\* mode, except after recover_localization, which notifies nobody, and after
\* a stop that another thread is still to report.
MonitorSeesMode ==
  (\A t \in Threads : pc[t] = "out")
    => \/ told = mode
       \/ told = "LocalizationLost" /\ mode = "Degraded"

\* The object implements ModeProtocol, where the operations are indivisible:
\* a fault counts as latched from the step that makes both the flag and
\* SafeStop visible to the one that publishes Idle.
Protocol ==
  INSTANCE ModeProtocol WITH latched <- mode = "SafeStop" /\ (latched \/ Clearing)

ImplementsProtocol == Protocol!Spec

\* The compare-exchange loops are lock-free: as long as some thread is inside
\* a call, calls keep returning, spurious failures included.  (One thread may
\* starve: two callers can keep undoing each other.)
LockFree ==
  \/ <>[](\A t \in Threads : pc[t] = "out")
  \/ []<><<\E t \in Threads : pc[t] /= "out" /\ pc'[t] = "out">>_pc
===============================================================================
