-------------------------- MODULE ReconcilerProofs --------------------------
(* Proofs about Reconciler, for any devices, threads, limits and bounds.   *)
EXTENDS Reconciler, TLAPS

-----------------------------------------------------------------------------
(* Where a thread can be, and what its locals then are.                    *)

Kinds == {"none", "request", "cycle", "transfer"}

LocalTyped ==
  /\ pc \in [Threads -> Labels]
  /\ kind \in [Threads -> Kinds]
  /\ run \in [Threads -> Modes]
  /\ todo \in [Threads -> SUBSET Devices]
  /\ drifted \in [Threads -> SUBSET Devices]
  /\ dev \in [Threads -> Devices \cup {None}]
  /\ plan \in [Threads -> Versions]
  /\ failed \in [Threads -> BOOLEAN]
  /\ spared \in [Threads -> BOOLEAN]

OthersKeep(t) ==
  \A u \in Threads \ {t} :
    /\ pc'[u] = pc[u] /\ kind'[u] = kind[u] /\ run'[u] = run[u]
    /\ todo'[u] = todo[u] /\ dev'[u] = dev[u] /\ failed'[u] = failed[u]

\* The calls of a cycle, those of a request, and those that both make.
Shared == {"takeLane", "prove", "device", "write", "verify"}
OfCycle == {"settings", "gate", "observe", "record"}
OfRequest == {"settle", "finish", "requeue", "abort"}
OfTransfer == {"waitLane", "transfer"}
Outside == {"idle", "boot", "top", "next", "try", "sleep", "dead"}

\* What the call l of thread t says of its operation k, the mode m of its cycle,
\* the devices td it has to do and the device d it is at.
ThreadOK(t, l, k, m, td, d) ==
  /\ l \in OfCycle => k = "cycle"
  /\ l \in OfRequest => k = "request"
  /\ l \in OfTransfer => k = "transfer"
  /\ l \in Shared => k \in {"cycle", "request"}
  /\ l \in Outside => k = "none"
  /\ k = "request" => t = Loop
  /\ l \in Shared /\ k = "cycle" => m = "enforce"
  /\ l \in {"write", "verify"} => d \in td
  /\ l \in {"settle", "finish"} => td = {}

LEMMA LabelFacts ==
  /\ Labels = InCycle \cup Outside
  /\ InCycle = OfCycle \cup OfRequest \cup OfTransfer \cup Shared
  /\ Loop \in Threads /\ Ui \subseteq Threads /\ Loop \notin Ui
  /\ None \notin Threads /\ None \notin Devices
  /\ Modes = {"off", "observe", "enforce"} /\ 0 \in Versions /\ Mixed \in Versions
BY ThreadsAssumption, DevicesAssumption, BoundsAssumption
   DEF Labels, InCycle, Outside, OfCycle, OfRequest, OfTransfer, Shared, Threads,
       Modes, Versions, Mixed

LEMMA ReturnEffect ==
  ASSUME LocalTyped, NEW t \in Threads, Return(t)
  PROVE  /\ LocalTyped' /\ OthersKeep(t)
         /\ pc'[t] \in {"sleep", "idle"} /\ kind'[t] = "none" /\ run'[t] = "off"
         /\ todo'[t] = {} /\ dev'[t] = None /\ failed'[t] = FALSE
<1>1. LocalTyped'
  BY LabelFacts DEF Return, Clear, Goto, LocalTyped, Kinds, Outside
<1> QED BY <1>1 DEF Return, Clear, Goto, LocalTyped, OthersKeep

LEMMA NextDeviceEffect ==
  ASSUME LocalTyped, NEW t \in Threads, NextDevice(t), UNCHANGED <<kind, run, drifted, spared>>,
         NEW b \in BOOLEAN, failed' = [failed EXCEPT ![t] = b]
  PROVE  /\ LocalTyped' /\ OthersKeep(t)
         /\ pc'[t] = "device" /\ kind'[t] = kind[t] /\ run'[t] = run[t]
         /\ todo'[t] = todo[t] \ {dev[t]} /\ dev'[t] = None /\ failed'[t] = b
<1>1. LocalTyped'
  BY LabelFacts DEF NextDevice, Goto, LocalTyped, Shared
<1> QED BY <1>1 DEF NextDevice, Goto, LocalTyped, OthersKeep

LEMMA ServedEffect ==
  ASSUME LocalTyped, NEW n, Served(n)
  PROVE  /\ LocalTyped' /\ OthersKeep(Loop)
         /\ pc'[Loop] = "next" /\ kind'[Loop] = "none" /\ run'[Loop] = run[Loop]
         /\ todo'[Loop] = {} /\ dev'[Loop] = None /\ failed'[Loop] = FALSE
         /\ cycle' = None /\ left' = n /\ req' = 0 /\ from' = 0 /\ fin' = 0
<1>1. LocalTyped'
  BY LabelFacts DEF Served, Clear, Goto, LocalTyped, Kinds, Outside
<1> QED BY <1>1, LabelFacts DEF Served, Clear, Goto, LocalTyped, OthersKeep

\* A step that only moves thread t.
LEMMA GotoEffect ==
  ASSUME LocalTyped, NEW t \in Threads, NEW l \in Labels, Goto(t, l),
         UNCHANGED <<kind, run, todo, drifted, dev, plan, failed, spared>>
  PROVE  /\ LocalTyped' /\ OthersKeep(t)
         /\ pc'[t] = l /\ kind'[t] = kind[t] /\ run'[t] = run[t]
         /\ todo'[t] = todo[t] /\ dev'[t] = dev[t] /\ failed'[t] = failed[t]
BY DEF Goto, LocalTyped, OthersKeep

-----------------------------------------------------------------------------
(* The cycle lock.                                                         *)

\* Whoever is inside a cycle, a request or a transfer owns the cycle lock.
Locked == \A t \in Threads : pc[t] \in InCycle => cycle = t

\* What a cycle knows of the hold from its gate on.
Passed == Shared \cup {"observe", "record"}
HoldOK(l, k, m, h) == l \in Passed /\ k = "cycle" /\ m = "enforce" => ~h

FlowOK ==
  /\ LocalTyped
  /\ hold \in BOOLEAN
  /\ Locked
  /\ \A t \in Threads : ThreadOK(t, pc[t], kind[t], run[t], todo[t], dev[t])
  /\ \A t \in Threads : HoldOK(pc[t], kind[t], run[t], hold)
  /\ \A d \in Devices : desired[d] \in Versions
  /\ mode \in Modes /\ rows \in [RowIds -> RequestRow]

\* A step of thread t, those that only UI threads and only the loop take included.
StepOf(t) ==
  \/ Step(t) \/ Raises(t)
  \/ (t \in Ui /\ (RunNow(t) \/ BeginTransfer(t)))
  \/ (t = Loop /\ LoopRaises)

\* What a step of thread t leaves true: of t, and of everything but t.
Good(t) ==
  /\ LocalTyped' /\ OthersKeep(t)
  /\ ThreadOK(t, pc'[t], kind'[t], run'[t], todo'[t], dev'[t])
  /\ pc'[t] \in InCycle => cycle' = t
  /\ cycle' = cycle \/ (cycle \in {t, None} /\ cycle' \in {t, None})
  /\ HoldOK(pc'[t], kind'[t], run'[t], hold')
  /\ hold' \in BOOLEAN /\ (hold' => hold \/ cycle = t)

LEMMA ThreadStep ==
  ASSUME FlowOK, NEW t \in Threads, StepOf(t)
  PROVE  Good(t)
<1>0. /\ LocalTyped /\ ThreadOK(t, pc[t], kind[t], run[t], todo[t], dev[t])
      /\ HoldOK(pc[t], kind[t], run[t], hold) /\ hold \in BOOLEAN
      /\ pc[t] \in InCycle => cycle = t
      /\ mode \in Modes
  BY DEF FlowOK, Locked
<1> USE <1>0, LabelFacts
<1> USE DEF OfCycle, OfRequest, OfTransfer, Shared, Outside, Passed
<1>1. ASSUME EnterCycle(t) PROVE Good(t)
  <2>1. CASE cycle = None
    <3>1. LocalTyped' /\ OthersKeep(t)
      BY <1>1, <2>1 DEF EnterCycle, Goto, LocalTyped, OthersKeep, Kinds
    <3>2. /\ pc'[t] = "settings" /\ kind'[t] = "cycle" /\ cycle' = t /\ hold' = hold
          /\ todo' = todo /\ run' = run
      BY <1>1, <2>1 DEF EnterCycle, Goto, LocalTyped, breaker
    <3> QED BY <2>1, <3>1, <3>2 DEF Good, ThreadOK, HoldOK
  <2>2. CASE cycle # None
    BY <1>1, <2>2, ReturnEffect DEF EnterCycle, Good, ThreadOK, HoldOK, breaker
  <2> QED BY <2>1, <2>2
<1>2. ASSUME ReadSettings(t) PROVE Good(t)
  <2>1. LocalTyped' /\ OthersKeep(t)
    BY <1>2 DEF ReadSettings, Goto, LocalTyped, OthersKeep
  <2>2. /\ pc'[t] = "gate" /\ kind' = kind /\ hold' = hold /\ cycle' = cycle
        /\ pc[t] = "settings"
    BY <1>2 DEF ReadSettings, Goto, LocalTyped, breaker, locks
  <2> QED BY <2>1, <2>2 DEF Good, ThreadOK, HoldOK
<1>3. ASSUME Gate(t) PROVE Good(t)
  <2>1. CASE Refused(t)
    BY <1>3, <2>1, ReturnEffect DEF Gate, Leave, Good, ThreadOK, HoldOK, breaker
  <2>2. CASE ~Refused(t)
    <3>1. LocalTyped' /\ OthersKeep(t)
      BY <1>3, <2>2 DEF Gate, Goto, LocalTyped, OthersKeep
    <3>2. /\ pc[t] = "gate" /\ pc'[t] = "observe" /\ hold' = hold
          /\ UNCHANGED <<cycle, kind, run>>
      BY <1>3, <2>2 DEF Gate, Goto, LocalTyped, breaker
    <3> QED BY <2>2, <3>1, <3>2 DEF Good, ThreadOK, HoldOK, Refused
  <2> QED BY <2>1, <2>2
<1>4. ASSUME Observe(t) PROVE Good(t)
  <2>1. PICK d \in todo[t] :
          /\ todo' = [todo EXCEPT ![t] = todo[t] \ {d}]
          /\ drifted' = [drifted EXCEPT ![t] = IF d \notin temp /\ live[d] # desired[d]
                                        THEN drifted[t] \cup {d} ELSE drifted[t]]
    BY <1>4 DEF Observe
  <2>2. /\ UNCHANGED <<pc, kind, run, dev, plan, failed, spared, cycle, hold>>
        /\ pc[t] = "observe"
    BY <1>4 DEF Observe, breaker, locks
  <2>3. todo'[t] = todo[t] \ {d} /\ \A u \in Threads \ {t} : todo'[u] = todo[u]
    BY <2>1 DEF LocalTyped
  <2>4. d \in Devices /\ todo' \in [Threads -> SUBSET Devices]
    BY <2>1 DEF LocalTyped
  <2>5. drifted' \in [Threads -> SUBSET Devices]
    BY <2>1, <2>4 DEF LocalTyped
  <2>6. LocalTyped' /\ OthersKeep(t)
    BY <2>2, <2>3, <2>4, <2>5 DEF LocalTyped, OthersKeep
  <2> QED BY <2>2, <2>3, <2>6 DEF Good, ThreadOK, HoldOK
<1>5. ASSUME Observed(t) PROVE Good(t)
  <2>0. UNCHANGED <<kind, run, dev, plan, failed, spared, cycle, hold>> /\ pc[t] = "observe"
    BY <1>5 DEF Observed, breaker, locks
  <2>1. CASE run[t] = "enforce" /\ drifted[t] # {}
    <3>1. /\ todo' = [todo EXCEPT ![t] = drifted[t]] /\ pc' = [pc EXCEPT ![t] = "takeLane"]
          /\ drifted' = [drifted EXCEPT ![t] = {}]
      BY <1>5, <2>1 DEF Observed, Goto
    <3>2. LocalTyped' /\ OthersKeep(t) /\ pc'[t] = "takeLane"
      BY <2>0, <3>1 DEF LocalTyped, OthersKeep
    <3> QED BY <2>0, <2>1, <3>2 DEF Good, ThreadOK, HoldOK
  <2>2. CASE ~(run[t] = "enforce" /\ drifted[t] # {})
    <3>1. /\ todo' = todo /\ pc' = [pc EXCEPT ![t] = "record"]
          /\ drifted' = [drifted EXCEPT ![t] = {}]
      BY <1>5, <2>2 DEF Observed, Goto
    <3>2. LocalTyped' /\ OthersKeep(t) /\ pc'[t] = "record"
      BY <2>0, <3>1 DEF LocalTyped, OthersKeep
    <3> QED BY <2>0, <2>2, <3>2 DEF Good, ThreadOK, HoldOK
  <2> QED BY <2>1, <2>2
<1>6. ASSUME Record(t) PROVE Good(t)
  BY <1>6, ReturnEffect DEF Record, Leave, Recorded, Good, ThreadOK, HoldOK, breaker
<1>7. ASSUME TakeLane(t) PROVE Good(t)
  BY <1>7, GotoEffect DEF TakeLane, Good, ThreadOK, HoldOK, breaker
<1>8. ASSUME Prove(t) PROVE Good(t)
  <2>0. hold' = hold
    BY <1>8 DEF Prove, breaker
  <2>1. CASE kind[t] = "cycle" /\ ~secure
    BY <1>8, <2>0, <2>1, ReturnEffect DEF Prove, Leave, Good, ThreadOK, HoldOK
  <2>2. CASE ~(kind[t] = "cycle" /\ ~secure)
    BY <1>8, <2>0, <2>2, GotoEffect DEF Prove, Good, ThreadOK, HoldOK
  <2> QED BY <2>1, <2>2
<1>9. ASSUME Device(t) PROVE Good(t)
  <2>0. /\ UNCHANGED <<kind, run, drifted, failed, cycle, hold>> /\ pc[t] = "device"
    BY <1>9 DEF Device, breaker, locks
  <2>1. PICK d \in todo[t] :
          IF d \notin temp /\ live[d] # desired[d]
          THEN /\ dev' = [dev EXCEPT ![t] = d]
               /\ plan' = [plan EXCEPT ![t] = desired[d]]
               /\ Goto(t, "write")
               /\ UNCHANGED <<todo, spared>>
          ELSE /\ todo' = [todo EXCEPT ![t] = todo[t] \ {d}]
               /\ spared' = [spared EXCEPT ![t] = spared[t] \/ d \in temp]
               /\ UNCHANGED <<pc, dev, plan>>
    BY <1>9 DEF Device
  <2>2. d \in Devices /\ desired[d] \in Versions
    BY DEF FlowOK, LocalTyped
  <2>3. CASE d \notin temp /\ live[d] # desired[d]
    <3>1. LocalTyped' /\ OthersKeep(t)
      BY <2>0, <2>1, <2>2, <2>3 DEF Goto, LocalTyped, OthersKeep
    <3>2. pc'[t] = "write" /\ dev'[t] = d /\ todo'[t] = todo[t]
      BY <2>1, <2>3 DEF Goto, LocalTyped
    <3> QED BY <2>0, <3>1, <3>2 DEF Good, ThreadOK, HoldOK
  <2>4. CASE ~(d \notin temp /\ live[d] # desired[d])
    <3>0. /\ todo' = [todo EXCEPT ![t] = todo[t] \ {d}]
          /\ spared' = [spared EXCEPT ![t] = spared[t] \/ d \in temp]
          /\ UNCHANGED <<pc, dev, plan>>
      BY <2>1, <2>4
    <3>1. todo' \in [Threads -> SUBSET Devices] /\ \A u \in Threads \ {t} : todo'[u] = todo[u]
      BY <3>0 DEF LocalTyped
    <3>2. spared' \in [Threads -> BOOLEAN]
      BY <3>0 DEF LocalTyped
    <3>3. LocalTyped' /\ OthersKeep(t)
      BY <2>0, <3>0, <3>1, <3>2 DEF LocalTyped, OthersKeep
    <3> QED BY <2>0, <3>0, <3>3 DEF Good, ThreadOK, HoldOK
  <2> QED BY <2>3, <2>4
<1>10. ASSUME Write(t) PROVE Good(t)
  BY <1>10, GotoEffect DEF Write, Good, ThreadOK, HoldOK, breaker, locks
<1>11. ASSUME Verify(t) PROVE Good(t)
  <2>1. /\ UNCHANGED <<kind, run, drifted, spared, cycle, hold>> /\ NextDevice(t)
        /\ failed' = [failed EXCEPT ![t] = failed[t] \/ live[dev[t]] # desired[dev[t]]]
        /\ pc[t] = "verify"
    BY <1>11 DEF Verify, breaker, locks
  <2>2. (failed[t] \/ live[dev[t]] # desired[dev[t]]) \in BOOLEAN
    BY DEF LocalTyped
  <2>3. /\ LocalTyped' /\ OthersKeep(t) /\ pc'[t] = "device"
        /\ kind'[t] = kind[t] /\ run'[t] = run[t]
    BY <2>1, <2>2, NextDeviceEffect
  <2> QED BY <2>1, <2>3 DEF Good, ThreadOK, HoldOK
<1>12. ASSUME AllDone(t) PROVE Good(t)
  BY <1>12, GotoEffect DEF AllDone, Good, ThreadOK, HoldOK, breaker
<1>13. ASSUME Transfer(t) PROVE Good(t)
  BY <1>13, GotoEffect DEF Transfer, Good, ThreadOK, HoldOK, breaker
<1>14. ASSUME EndTransfer(t) PROVE Good(t)
  BY <1>14, ReturnEffect DEF EndTransfer, Good, ThreadOK, HoldOK, breaker
<1>15. ASSUME SettingsRaise(t) PROVE Good(t)
  BY <1>15, ReturnEffect DEF SettingsRaise, Good, ThreadOK, HoldOK, breaker, locks
<1>16. ASSUME ObserveRaises(t) PROVE Good(t)
  <2>1. PICK d \in todo[t] : todo' = [todo EXCEPT ![t] = todo[t] \ {d}]
    BY <1>16 DEF ObserveRaises
  <2>2. /\ UNCHANGED <<pc, kind, run, dev, plan, drifted, spared, cycle, hold>>
        /\ pc[t] = "observe" /\ failed' = [failed EXCEPT ![t] = TRUE]
    BY <1>16 DEF ObserveRaises, breaker, locks
  <2>3. LocalTyped' /\ OthersKeep(t)
    BY <2>1, <2>2 DEF LocalTyped, OthersKeep
  <2> QED BY <2>2, <2>3 DEF Good, ThreadOK, HoldOK
<1>17. ASSUME GateRaises(t) PROVE Good(t)
  BY <1>17, ReturnEffect DEF GateRaises, Leave, Recorded, Good, ThreadOK, HoldOK, breaker
<1>18. ASSUME LaneRaises(t) PROVE Good(t)
  <2>1. CASE kind[t] = "cycle"
    BY <1>18, <2>1, ReturnEffect
       DEF LaneRaises, Leave, Recorded, Good, ThreadOK, HoldOK, breaker
  <2>2. CASE kind[t] # "cycle"
    BY <1>18, <2>2, GotoEffect DEF LaneRaises, Good, ThreadOK, HoldOK, breaker
  <2> QED BY <2>1, <2>2
<1>19. ASSUME DeviceRaises(t) PROVE Good(t)
  <2>1. /\ UNCHANGED <<kind, run, drifted, spared, cycle, hold>> /\ NextDevice(t)
        /\ failed' = [failed EXCEPT ![t] = TRUE] /\ pc[t] \in {"write", "verify"}
    BY <1>19 DEF DeviceRaises, breaker, locks
  <2>2. /\ LocalTyped' /\ OthersKeep(t) /\ pc'[t] = "device"
        /\ kind'[t] = kind[t] /\ run'[t] = run[t]
    BY <2>1, NextDeviceEffect
  <2> QED BY <2>1, <2>2 DEF Good, ThreadOK, HoldOK
<1>20. ASSUME PlanRaises(t) PROVE Good(t)
  <2>1. PICK d \in todo[t] : todo' = [todo EXCEPT ![t] = todo[t] \ {d}]
    BY <1>20 DEF PlanRaises
  <2>2. /\ UNCHANGED <<pc, kind, run, dev, plan, drifted, spared, cycle, hold>>
        /\ pc[t] = "device" /\ failed' = [failed EXCEPT ![t] = TRUE]
    BY <1>20 DEF PlanRaises, breaker, locks
  <2>3. LocalTyped' /\ OthersKeep(t)
    BY <2>1, <2>2 DEF LocalTyped, OthersKeep
  <2> QED BY <2>2, <2>3 DEF Good, ThreadOK, HoldOK
<1>21. ASSUME RunNow(t) PROVE Good(t)
  <2>1. PICK m \in {"observe", "enforce"} : run' = [run EXCEPT ![t] = m]
    BY <1>21 DEF RunNow
  <2>2. LocalTyped' /\ OthersKeep(t)
    BY <1>21, <2>1 DEF RunNow, Goto, LocalTyped, OthersKeep
  <2>3. /\ pc'[t] = "try" /\ kind' = kind /\ cycle' = cycle /\ hold' = hold
        /\ pc[t] = "idle"
    BY <1>21 DEF RunNow, Goto, LocalTyped, breaker, locks
  <2> QED BY <2>2, <2>3 DEF Good, ThreadOK, HoldOK
<1>22. ASSUME BeginTransfer(t) PROVE Good(t)
  <2>1. LocalTyped' /\ OthersKeep(t)
    BY <1>22 DEF BeginTransfer, Goto, LocalTyped, OthersKeep, Kinds
  <2>2. /\ pc'[t] = "waitLane" /\ kind'[t] = "transfer" /\ cycle' = t
        /\ cycle = None /\ hold' = hold
    BY <1>22 DEF BeginTransfer, Goto, LocalTyped, breaker
  <2> QED BY <2>1, <2>2 DEF Good, ThreadOK, HoldOK
<1>23. ASSUME TopRaises, t = Loop PROVE Good(t)
  BY <1>23, GotoEffect DEF TopRaises, Good, ThreadOK, HoldOK, breaker, locks
<1>24. ASSUME Boot, t = Loop PROVE Good(t)
  BY <1>24, GotoEffect DEF Boot, Good, ThreadOK, HoldOK, breaker, locks
<1>25. ASSUME Top, t = Loop PROVE Good(t)
  <2>1. LocalTyped' /\ OthersKeep(t)
    BY <1>25 DEF Top, Goto, LocalTyped, OthersKeep
  <2>2. /\ pc'[t] = "next" /\ kind' = kind /\ hold' = hold /\ cycle' = cycle
        /\ pc[t] = "top"
    BY <1>25 DEF Top, Goto, LocalTyped, breaker, locks
  <2> QED BY <2>1, <2>2 DEF Good, ThreadOK, HoldOK
<1>26. ASSUME ClaimRequest, t = Loop PROVE Good(t)
  <2>1. PICK i \in Pending : todo' = [todo EXCEPT ![Loop] = Targets(i)]
    BY <1>26 DEF ClaimRequest
  <2>2. Targets(i) \in SUBSET Devices
    BY DEF FlowOK, Targets, Pending, RequestRow
  <2>3. LocalTyped' /\ OthersKeep(t)
    BY <1>26, <2>1, <2>2 DEF ClaimRequest, Goto, LocalTyped, OthersKeep, Kinds
  <2>4. /\ pc'[t] = "takeLane" /\ kind'[t] = "request" /\ cycle' = t
        /\ cycle = None /\ hold' = hold
    BY <1>26 DEF ClaimRequest, Goto, LocalTyped, breaker
  <2> QED BY <1>26, <2>3, <2>4 DEF Good, ThreadOK, HoldOK
<1>27. ASSUME NoRequest, t = Loop PROVE Good(t)
  BY <1>27, GotoEffect DEF NoRequest, Good, ThreadOK, HoldOK, breaker, locks
<1>28. ASSUME Awake, t = Loop PROVE Good(t)
  BY <1>28, GotoEffect DEF Awake, Good, ThreadOK, HoldOK, breaker, locks
<1>29. ASSUME Settle, t = Loop PROVE Good(t)
  BY <1>29, GotoEffect DEF Settle, Good, ThreadOK, HoldOK, breaker, locks
<1>30. ASSUME Finish, t = Loop PROVE Good(t)
  <2>0. hold' = hold /\ pc[t] = "finish"
    BY <1>30 DEF Finish, breaker
  <2>1. CASE Outcome = "superseded"
    BY <1>30, <2>0, <2>1, GotoEffect DEF Finish, Good, ThreadOK, HoldOK
  <2>2. CASE Outcome # "superseded"
    BY <1>30, <2>0, <2>2, ServedEffect DEF Finish, Good, ThreadOK, HoldOK
  <2> QED BY <2>1, <2>2
<1>31. ASSUME Requeue, t = Loop PROVE Good(t)
  BY <1>31, ServedEffect DEF Requeue, Good, ThreadOK, HoldOK, breaker
<1>32. ASSUME Abort, t = Loop PROVE Good(t)
  BY <1>32, ServedEffect DEF Abort, Good, ThreadOK, HoldOK, breaker
<1>33. ASSUME BootRaises, t = Loop PROVE Good(t)
  BY <1>33, GotoEffect DEF BootRaises, Good, ThreadOK, HoldOK, breaker, locks
<1>34. ASSUME RequestRaises, t = Loop PROVE Good(t)
  BY <1>34, GotoEffect DEF RequestRaises, Good, ThreadOK, HoldOK, breaker, locks
<1>35. ASSUME AbortRaises, t = Loop PROVE Good(t)
  BY <1>35, ServedEffect DEF AbortRaises, Good, ThreadOK, HoldOK, breaker
<1> QED
  BY ONLY <1>1, <1>2, <1>3, <1>4, <1>5, <1>6, <1>7, <1>8, <1>9, <1>10,
     <1>11, <1>12, <1>13, <1>14, <1>15, <1>16, <1>17, <1>18, <1>19, <1>20,
     <1>21, <1>22, <1>23, <1>24, <1>25, <1>26, <1>27, <1>28, <1>29, <1>30,
     <1>31, <1>32, <1>33, <1>34, <1>35, StepOf(t)
     DEF StepOf, Step, CycleStep, LoopStep, Raises, LoopRaises

-----------------------------------------------------------------------------
(* Which steps of a thread change what.                                     *)

LEMMA WorldSteps ==
  ASSUME NEW t \in Threads, StepOf(t)
  PROVE  UNCHANGED <<revision, mode, desired, temp, secure, surprises, crashes, asked>>
BY DEF StepOf, Step, CycleStep, LoopStep, Raises, LoopRaises, EnterCycle,
   ReadSettings, Gate, Observe, Observed, Record, TakeLane, Prove, Device,
   Write, Verify, AllDone, Boot, Top, ClaimRequest, NoRequest, Awake, Settle,
   Finish, Requeue, Abort, Transfer, EndTransfer, SettingsRaise,
   ObserveRaises, GateRaises, LaneRaises, DeviceRaises, PlanRaises, RunNow,
   BeginTransfer,
   TopRaises, BootRaises, RequestRaises, AbortRaises, env, db, bounds, Fault, DbFault, UiRun

LEMMA LiveSteps ==
  ASSUME NEW t \in Threads, StepOf(t)
  PROVE  live' = live
         \/ Write(t) \/ DeviceRaises(t)
BY DEF StepOf, Step, CycleStep, LoopStep, Raises, LoopRaises, EnterCycle,
   ReadSettings, Gate, Observe, Observed, Record, TakeLane, Prove, Device,
   Verify, AllDone, Boot, Top, ClaimRequest, NoRequest, Awake, Settle,
   Finish, Requeue, Abort, Transfer, EndTransfer, SettingsRaise,
   ObserveRaises, GateRaises, LaneRaises, PlanRaises, RunNow, BeginTransfer,
   TopRaises, BootRaises, RequestRaises, AbortRaises

LEMMA RowSteps ==
  ASSUME NEW t \in Threads, StepOf(t)
  PROVE  rows' = rows
         \/ (t = Loop /\ (Boot \/ ClaimRequest \/ Finish \/ Requeue \/ Abort))
BY DEF StepOf, Step, CycleStep, LoopStep, Raises, LoopRaises, EnterCycle,
   ReadSettings, Gate, Observe, Observed, Record, TakeLane, Prove, Device,
   Write, Verify, AllDone, Top, NoRequest, Awake, Settle, Transfer,
   EndTransfer, SettingsRaise, ObserveRaises, GateRaises, LaneRaises,
   DeviceRaises, PlanRaises, RunNow, BeginTransfer,
   TopRaises, BootRaises, RequestRaises, AbortRaises, db

LEMMA LoopSteps ==
  ASSUME NEW t \in Threads, StepOf(t)
  PROVE  UNCHANGED <<left, req, from, fin>>
         \/ (t = Loop /\ (Top \/ ClaimRequest \/ NoRequest \/ Settle \/
                        Finish \/ Requeue \/ Abort \/ AbortRaises))
BY DEF StepOf, Step, CycleStep, LoopStep, Raises, LoopRaises, EnterCycle,
   ReadSettings, Gate, Observe, Observed, Record, TakeLane, Prove, Device,
   Write, Verify, AllDone, Boot, Awake, Transfer, EndTransfer, SettingsRaise,
   ObserveRaises, GateRaises, LaneRaises, DeviceRaises, PlanRaises, RunNow,
   BeginTransfer, TopRaises, BootRaises, RequestRaises

LEMMA BreakerSteps ==
  ASSUME NEW t \in Threads, StepOf(t)
  PROVE  UNCHANGED breaker
         \/ Record(t) \/ GateRaises(t) \/ LaneRaises(t)
BY DEF StepOf, Step, CycleStep, LoopStep, Raises, LoopRaises, EnterCycle,
   ReadSettings, Gate, Observe, Observed, TakeLane, Prove, Device, Write,
   Verify, AllDone, Boot, Top, ClaimRequest, NoRequest, Awake, Settle,
   Finish, Requeue, Abort, Transfer, EndTransfer, SettingsRaise,
   ObserveRaises, DeviceRaises, PlanRaises, RunNow, BeginTransfer,
   TopRaises, BootRaises, RequestRaises, AbortRaises

LEMMA LaneSteps ==
  ASSUME NEW t \in Threads, StepOf(t)
  PROVE  lane' = lane
         \/ TakeLane(t) \/ LaneRaises(t) \/ Prove(t) \/ AllDone(t) \/
         Transfer(t) \/ EndTransfer(t)
BY DEF StepOf, Step, CycleStep, LoopStep, Raises, LoopRaises, EnterCycle,
   ReadSettings, Gate, Observe, Observed, Record, Device, Write, Verify,
   Boot, Top, ClaimRequest, NoRequest, Awake, Settle, Finish, Requeue, Abort,
   SettingsRaise, ObserveRaises, GateRaises, DeviceRaises, PlanRaises,
   RunNow, BeginTransfer, TopRaises, BootRaises, RequestRaises, AbortRaises, locks

LEMMA BoundSteps ==
  ASSUME NEW t \in Threads, StepOf(t)
  PROVE  /\ uiRuns' = uiRuns \/ (uiRuns < MaxUiRuns /\ uiRuns' = uiRuns + 1)
         /\ faults' = faults \/ (faults < MaxFaults /\ faults' = faults + 1)
         /\ dbFaults' = dbFaults \/ (dbFaults < MaxDbFaults /\ dbFaults' = dbFaults + 1)
BY DEF StepOf, Step, CycleStep, LoopStep, Raises, LoopRaises, EnterCycle,
   ReadSettings, Gate, Observe, Observed, Record, TakeLane, Prove, Device,
   Write, Verify, AllDone, Boot, Top, ClaimRequest, NoRequest, Awake, Settle,
   Finish, Requeue, Abort, Transfer, EndTransfer, SettingsRaise,
   ObserveRaises, GateRaises, LaneRaises, DeviceRaises, PlanRaises, RunNow,
   BeginTransfer,
   TopRaises, BootRaises, RequestRaises, AbortRaises, bounds, Fault, DbFault, UiRun

-----------------------------------------------------------------------------
(* Type correctness.                                                       *)

\* Every version was brought by a revision or by a surprise.
Dated == \A d \in Devices : desired[d] <= (revision - 1) + surprises

\* What the loop holds while it serves a request.
LoopOK ==
  /\ kind[Loop] = "request" =>
       /\ req \in RowIds /\ left > 0 /\ from >= 1 /\ from <= revision
  /\ pc[Loop] \in {"finish", "requeue"} => from <= fin /\ fin <= revision
  /\ pc[Loop] = "requeue" => fin # from

TypeInv == TypeOK /\ FlowOK /\ Dated /\ LoopOK

Rows == [RowIds -> RequestRow]
Statuses == {"none", "pending", "running"} \cup Finals

LEMMA RowsTyped ==
  ASSUME rows \in Rows
  PROVE  /\ \A i \in RowIds : \A st \in Statuses : Marked(i, st) \in RequestRow
         /\ \A i \in RowIds : rows[i].target \in Devices \cup {All}
                              /\ rows[i].status \in Statuses
         /\ \A g \in Devices \cup {All} : Enqueued(g) \in Rows
<1>1. \A i \in RowIds : \A st \in Statuses : Marked(i, st) \in RequestRow
  BY DEF Rows, RequestRow, Marked, Statuses
<1>2. \A i \in RowIds : rows[i].target \in Devices \cup {All} /\ rows[i].status \in Statuses
  BY DEF Rows, RequestRow, Statuses
<1>3. ASSUME NEW g \in Devices \cup {All} PROVE Enqueued(g) \in Rows
  <2>1. [target |-> g, status |-> "pending"] \in RequestRow
    BY DEF RequestRow
  <2>2. \A i \in RowIds : Marked(i, "superseded") \in RequestRow
    BY <1>1 DEF Statuses, Finals
  <2> QED BY <2>1, <2>2 DEF Rows, Enqueued
<1> QED BY <1>1, <1>2, <1>3

LEMMA TypeInit == Init => TypeInv
<1> SUFFICES ASSUME Init PROVE TypeInv
  OBVIOUS
<1>1. LocalTyped
  BY LabelFacts DEF Init, LocalTyped, Kinds, Outside
<1>2. NoRow \in RequestRow
  BY DEF NoRow, RequestRow
<1>3. /\ revision \in 1..MaxRevision /\ left \in 0..RequestsPerWake
      /\ from \in 0..MaxRevision /\ fin \in 0..MaxRevision
      /\ asked \in 0..MaxRequests /\ surprises \in 0..MaxSurprises
      /\ uiRuns \in 0..MaxUiRuns /\ faults \in 0..MaxFaults
      /\ dbFaults \in 0..MaxDbFaults /\ crashes \in 0..MaxCrashes
  BY BoundsAssumption, LimitsAssumption DEF Init
<1>4. /\ desired \in [Devices -> Versions] /\ live \in [Devices -> Versions]
      /\ rows \in [RowIds -> RequestRow]
  BY <1>2, LabelFacts DEF Init
<1>5. TypeOK
  BY <1>1, <1>3, <1>4 DEF Init, TypeOK, LocalTyped, Kinds
<1>6. \A t \in Threads : pc[t] \in {"boot", "idle"} /\ kind[t] = "none"
  BY DEF Init
<1>7. FlowOK
  <2>1. \A t \in Threads : pc[t] \notin InCycle
    BY <1>6 DEF InCycle
  <2>2. \A t \in Threads : ThreadOK(t, pc[t], kind[t], run[t], todo[t], dev[t])
    BY <1>6 DEF ThreadOK, OfCycle, OfRequest, OfTransfer, Shared, Outside
  <2>3. \A t \in Threads : HoldOK(pc[t], kind[t], run[t], hold)
    BY <1>6 DEF HoldOK
  <2> QED BY <1>1, <1>4, <2>1, <2>2, <2>3 DEF FlowOK, Locked, Init
<1>8. Dated
  BY DEF Dated, Init
<1>9. LoopOK
  BY <1>6, LabelFacts DEF LoopOK
<1> QED BY <1>5, <1>7, <1>8, <1>9 DEF TypeInv

\* A request is begun by its claim, and its end is reached by its own steps.
LEMMA KindSteps ==
  ASSUME TypeInv, StepOf(Loop)
  PROVE  \/ ClaimRequest \/ Settle \/ Finish
         \/ /\ kind'[Loop] = "request" => kind[Loop] = "request"
            /\ pc'[Loop] \in {"finish", "requeue"} => pc'[Loop] = pc[Loop]
<1> DEFINE Same == /\ kind'[Loop] = "request" => kind[Loop] = "request"
                   /\ pc'[Loop] \in {"finish", "requeue"} => pc'[Loop] = pc[Loop]
<1>0. LocalTyped /\ Loop \in Threads
  BY LabelFacts DEF TypeInv, FlowOK
<1>1. ASSUME Return(Loop) \/ (\E n : Served(n)) PROVE Same
  BY <1>0, <1>1, ReturnEffect, ServedEffect
<1>2. ASSUME EnterCycle(Loop) \/ ReadSettings(Loop) \/ Gate(Loop) \/
             Observe(Loop) \/ Observed(Loop) \/ Record(Loop)
      PROVE  Same
  BY <1>0, <1>1, <1>2 DEF EnterCycle, ReadSettings, Gate, Observe, Observed, Record, Goto,
     Leave, LocalTyped
<1>3. ASSUME TakeLane(Loop) \/ Prove(Loop) \/ Device(Loop) \/ Write(Loop)
             \/ Verify(Loop) \/ AllDone(Loop)
      PROVE  Same
  BY <1>0, <1>1, <1>3 DEF TakeLane, Prove, Device, Write, Verify, AllDone,
     Goto, Leave, NextDevice, LocalTyped
<1>4. ASSUME Boot \/ Top \/ NoRequest \/ Awake \/ Requeue \/ Abort \/
             LoopRaises
      PROVE  Same
  BY <1>0, <1>1, <1>4 DEF Boot, Top, NoRequest, Awake, Requeue, Abort, LoopRaises,
     TopRaises, BootRaises, RequestRaises, AbortRaises, Goto, LocalTyped
<1>5. ASSUME SettingsRaise(Loop) \/ ObserveRaises(Loop) \/
             GateRaises(Loop) \/ LaneRaises(Loop) \/ DeviceRaises(Loop)
             \/ PlanRaises(Loop)
      PROVE  Same
  BY <1>0, <1>1, <1>5 DEF SettingsRaise, ObserveRaises, GateRaises,
     LaneRaises, DeviceRaises, PlanRaises, Goto, Leave, NextDevice, LocalTyped
<1>6. ASSUME Transfer(Loop) \/ EndTransfer(Loop) \/ RunNow(Loop) \/
             BeginTransfer(Loop)
      PROVE  Same
  BY <1>0, <1>1, <1>6 DEF Transfer, EndTransfer, RunNow, BeginTransfer, Goto, LocalTyped
<1> QED
  BY <1>1, <1>2, <1>3, <1>4, <1>5, <1>6
     DEF StepOf, Step, CycleStep, LoopStep, Raises

\* A step of a thread keeps what the loop knows of its request.
LEMMA LoopStepOK ==
  ASSUME TypeInv, NEW t \in Threads, StepOf(t)
  PROVE  /\ LoopOK' /\ rows' \in Rows
         /\ left' \in 0..RequestsPerWake /\ req' \in RowIds \cup {0}
         /\ from' \in 0..MaxRevision /\ fin' \in 0..MaxRevision
<1> DEFINE Fine == /\ LoopOK' /\ rows' \in Rows
                   /\ left' \in 0..RequestsPerWake /\ req' \in RowIds \cup {0}
                   /\ from' \in 0..MaxRevision /\ fin' \in 0..MaxRevision
<1>0. /\ LocalTyped /\ LoopOK /\ rows \in Rows /\ revision' = revision
      /\ left \in 0..RequestsPerWake /\ req \in RowIds \cup {0}
      /\ from \in 0..MaxRevision /\ fin \in 0..MaxRevision
      /\ revision \in 1..MaxRevision
      /\ ThreadOK(Loop, pc[Loop], kind[Loop], run[Loop], todo[Loop], dev[Loop])
      /\ Loop \in Threads /\ MaxRevision \in Nat /\ RequestsPerWake \in Nat \ {0}
  BY WorldSteps, LabelFacts, BoundsAssumption, LimitsAssumption
     DEF TypeInv, TypeOK, FlowOK, Rows
<1>1. ASSUME Boot PROVE Fine
  <2>1. rows' \in Rows
    BY <1>0, <1>1, RowsTyped DEF Boot, Rows, Statuses
  <2>2. pc'[Loop] = "top" /\ kind' = kind /\ UNCHANGED <<left, req, from, fin>>
    BY <1>0, <1>1 DEF Boot, Goto, LocalTyped
  <2> QED BY <1>0, <2>1, <2>2 DEF LoopOK
<1>2. ASSUME Top PROVE Fine
  <2>1. pc'[Loop] = "next" /\ kind' = kind /\ UNCHANGED <<rows, req, from, fin>>
        /\ left' = RequestsPerWake /\ pc[Loop] = "top"
    BY <1>0, <1>2 DEF Top, Goto, LocalTyped, db
  <2> QED BY <1>0, <2>1 DEF LoopOK
<1>3. ASSUME ClaimRequest PROVE Fine
  <2>1. PICK i \in Pending : rows' = [rows EXCEPT ![i] = Marked(i, "running")] /\ req' = i
    BY <1>3 DEF ClaimRequest
  <2>2. i \in RowIds /\ rows' \in Rows
    BY <1>0, <2>1, RowsTyped DEF Rows, Statuses, Pending
  <2>3. pc'[Loop] = "takeLane" /\ from' = revision /\ UNCHANGED <<left, fin>> /\ left > 0
    BY <1>0, <1>3 DEF ClaimRequest, Goto, LocalTyped
  <2> QED BY <1>0, <2>1, <2>2, <2>3 DEF LoopOK
<1>4. ASSUME NoRequest PROVE Fine
  <2>1. /\ pc'[Loop] \in {"sleep", "try"} /\ kind' = kind /\ UNCHANGED <<rows, req, from, fin>>
        /\ left' = 0 /\ pc[Loop] = "next"
    BY <1>0, <1>4 DEF NoRequest, Goto, LocalTyped, db
  <2> QED BY <1>0, <2>1 DEF LoopOK, ThreadOK, Outside
<1>5. ASSUME Settle PROVE Fine
  <2>1. /\ pc'[Loop] = "finish" /\ kind' = kind /\ UNCHANGED <<rows, req, from, left>>
        /\ fin' = revision /\ pc[Loop] = "settle"
    BY <1>0, <1>5 DEF Settle, Goto, LocalTyped, db
  <2> QED BY <1>0, <2>1 DEF LoopOK, ThreadOK, OfRequest
<1>6. ASSUME Finish PROVE Fine
  <2>1. pc[Loop] = "finish" /\ kind[Loop] = "request"
    BY <1>0, <1>6 DEF Finish, ThreadOK, OfRequest
  <2>2. Outcome \in Statuses /\ (Outcome = "superseded" => fin # from)
    BY DEF Outcome, Statuses, Finals
  <2>3. req \in RowIds /\ left > 0
    BY <1>0, <2>1 DEF LoopOK
  <2>4. rows' \in Rows
    BY <1>0, <1>6, <2>2, <2>3, RowsTyped DEF Finish, Rows
  <2>5. CASE Outcome = "superseded"
    <3>1. pc'[Loop] = "requeue" /\ kind' = kind /\ UNCHANGED <<req, from, left, fin>>
      BY <1>0, <1>6, <2>5 DEF Finish, Goto, LocalTyped
    <3> QED BY <1>0, <2>1, <2>2, <2>4, <2>5, <3>1 DEF LoopOK
  <2>6. CASE Outcome # "superseded"
    <3>1. Served(left - 1)
      BY <1>6, <2>6 DEF Finish
    <3>2. /\ pc'[Loop] = "next" /\ kind'[Loop] = "none" /\ left' = left - 1
          /\ req' = 0 /\ from' = 0 /\ fin' = 0
      BY <1>0, <3>1, ServedEffect
    <3> QED BY <1>0, <2>3, <2>4, <3>2 DEF LoopOK
  <2> QED BY <2>5, <2>6
<1>7. ASSUME Requeue PROVE Fine
  <2>1. pc[Loop] = "requeue" /\ kind[Loop] = "request"
    BY <1>0, <1>7 DEF Requeue, ThreadOK, OfRequest
  <2>2. req \in RowIds /\ left > 0
    BY <1>0, <2>1 DEF LoopOK
  <2>3. rows' \in Rows
    BY <1>0, <1>7, <2>2, RowsTyped DEF Requeue
  <2>4. Served(left - 1)
    BY <1>7 DEF Requeue
  <2>5. /\ pc'[Loop] = "next" /\ kind'[Loop] = "none" /\ left' = left - 1
        /\ req' = 0 /\ from' = 0 /\ fin' = 0
    BY <1>0, <2>4, ServedEffect
  <2> QED BY <1>0, <2>2, <2>3, <2>5 DEF LoopOK
<1>8. ASSUME Abort PROVE Fine
  <2>1. pc[Loop] = "abort" /\ kind[Loop] = "request"
    BY <1>0, <1>8 DEF Abort, ThreadOK, OfRequest
  <2>2. req \in RowIds
    BY <1>0, <2>1 DEF LoopOK
  <2>3. rows' \in Rows
    <3>1. rows' = [rows EXCEPT ![req] = Marked(req, "failed")] \/ rows' = rows
      BY <1>0, <1>8, <2>2 DEF Abort, Rows
    <3> QED BY <1>0, <2>2, <3>1, RowsTyped DEF Rows, Statuses, Finals
  <2>4. Served(0)
    BY <1>8 DEF Abort
  <2>5. /\ pc'[Loop] = "next" /\ kind'[Loop] = "none" /\ left' = 0
        /\ req' = 0 /\ from' = 0 /\ fin' = 0
    BY <1>0, <2>4, ServedEffect
  <2> QED BY <1>0, <2>3, <2>5 DEF LoopOK
<1>10. ASSUME AbortRaises PROVE Fine
  <2>1. rows' = rows /\ Served(0)
    BY <1>10 DEF AbortRaises, db
  <2>2. /\ pc'[Loop] = "next" /\ kind'[Loop] = "none" /\ left' = 0
        /\ req' = 0 /\ from' = 0 /\ fin' = 0
    BY <1>0, <2>1, ServedEffect
  <2> QED BY <1>0, <2>1, <2>2 DEF LoopOK
<1>9. ASSUME UNCHANGED <<left, req, from, fin>>, rows' = rows,
             ~ClaimRequest, ~Settle, ~Finish
      PROVE  Fine
  <2>1. Good(t)
    BY ThreadStep DEF TypeInv
  <2>2. CASE t # Loop
    BY <1>0, <1>9, <2>1, <2>2 DEF Good, OthersKeep, LoopOK
  <2>3. CASE t = Loop
    <3>1. kind'[Loop] = "request" => kind[Loop] = "request"
      BY <1>9, <2>3, KindSteps
    <3>2. pc'[Loop] \in {"finish", "requeue"} => pc'[Loop] = pc[Loop]
      BY <1>9, <2>3, KindSteps
    <3> QED BY <1>0, <1>9, <3>1, <3>2 DEF LoopOK
  <2> QED BY <2>2, <2>3
<1> QED BY ONLY <1>1, <1>2, <1>3, <1>4, <1>5, <1>6, <1>7, <1>8, <1>9, <1>10, RowSteps,
           LoopSteps, t \in Threads, StepOf(t)

\* One thread's step keeps every state variable well typed.
LEMMA StepTyped ==
  ASSUME TypeInv, NEW t \in Threads, StepOf(t)
  PROVE  TypeInv'
<1>0. /\ Good(t) /\ LocalTyped /\ TypeOK /\ FlowOK /\ None \notin Threads
      /\ UNCHANGED <<revision, mode, desired, temp, secure, surprises, crashes, asked>>
  BY ThreadStep, WorldSteps, LabelFacts DEF TypeInv, FlowOK
<1>1. live' \in [Devices -> Versions]
  <2>1. CASE live' = live
    BY <1>0, <2>1 DEF TypeOK
  <2>2. CASE Write(t)
    <3>1. live' = [live EXCEPT ![dev[t]] = plan[t]] /\ plan[t] \in Versions
      BY <1>0, <2>2 DEF Write, LocalTyped
    <3> QED BY <1>0, <3>1 DEF TypeOK
  <2>3. CASE DeviceRaises(t)
    <3>1. live' = live \/ \E v \in Versions : live' = [live EXCEPT ![dev[t]] = v]
      BY <1>0, <2>3, LabelFacts DEF DeviceRaises, LocalTyped
    <3> QED BY <1>0, <3>1 DEF TypeOK
  <2> QED BY <2>1, <2>2, <2>3, LiveSteps
<1>2. failures' \in Nat /\ hold' \in BOOLEAN
  <2>1. ASSUME NEW b \in BOOLEAN, Recorded(t, b) PROVE failures' \in Nat
    BY <1>0, <2>1 DEF Recorded, breaker, TypeOK
  <2>2. UNCHANGED breaker \/ \E b \in BOOLEAN : Recorded(t, b)
    BY <1>0, BreakerSteps DEF LocalTyped, Record, GateRaises, LaneRaises
  <2> QED BY <1>0, <2>1, <2>2 DEF Good, breaker, TypeOK
<1>3. lane' \in Threads \cup {None} /\ cycle' \in Threads \cup {None}
  BY <1>0, LaneSteps DEF TypeOK, Good, TakeLane, LaneRaises, Prove, AllDone, Transfer,
     EndTransfer
<1>4. uiRuns' \in 0..MaxUiRuns /\ faults' \in 0..MaxFaults /\ dbFaults' \in 0..MaxDbFaults
  BY <1>0, BoundSteps, BoundsAssumption DEF TypeOK
<1>5. /\ LoopOK' /\ rows' \in Rows
      /\ left' \in 0..RequestsPerWake /\ req' \in RowIds \cup {0}
      /\ from' \in 0..MaxRevision /\ fin' \in 0..MaxRevision
  BY LoopStepOK
<1>6. TypeOK'
  BY <1>0, <1>1, <1>2, <1>3, <1>4, <1>5 DEF TypeOK, Good, LocalTyped, Kinds, Rows
<1>7. Locked'
  <2> SUFFICES ASSUME NEW u \in Threads, pc'[u] \in InCycle PROVE cycle' = u
    BY DEF Locked
  <2>1. CASE u = t
    BY <1>0, <2>1 DEF Good
  <2>2. CASE u # t
    <3>1. cycle = u
      BY <1>0, <2>2 DEF Good, OthersKeep, FlowOK, Locked
    <3> QED BY <1>0, <2>2, <3>1 DEF Good
  <2> QED BY <2>1, <2>2
<1>8. \A u \in Threads : HoldOK(pc'[u], kind'[u], run'[u], hold')
  <2> SUFFICES ASSUME NEW u \in Threads, u # t
               PROVE  HoldOK(pc'[u], kind'[u], run'[u], hold')
    BY <1>0 DEF Good
  <2>1. pc[u] \in Passed => pc[u] \in InCycle
    BY DEF Passed, Shared, InCycle
  <2>2. pc[u] \in Passed => cycle = u
    BY <1>0, <2>1 DEF FlowOK, Locked
  <2>3. pc[u] \in Passed => (hold' => hold)
    BY <1>0, <2>2 DEF Good
  <2> QED BY <1>0, <2>3 DEF Good, OthersKeep, FlowOK, HoldOK
<1>9. \A u \in Threads : ThreadOK(u, pc'[u], kind'[u], run'[u], todo'[u], dev'[u])
  BY <1>0 DEF Good, OthersKeep, FlowOK
<1>10. FlowOK'
  BY <1>0, <1>2, <1>5, <1>7, <1>8, <1>9 DEF FlowOK, Good, TypeOK, Rows
<1>11. Dated'
  BY <1>0 DEF TypeInv, Dated
<1> QED BY <1>5, <1>6, <1>10, <1>11 DEF TypeInv

\* Whoever changes the world leaves the threads alone; a hold is only lifted.
LEMMA EnvironmentKeeps ==
  ASSUME TypeInv, Environment
  PROVE  UNCHANGED local /\ UNCHANGED locks /\ (hold' => hold) /\ hold' \in BOOLEAN
         /\ revision <= revision'
<1>1. UNCHANGED local /\ UNCHANGED locks
  BY DEF Environment, ConfigWrite, SetMode, Boundary, ManualMode, TempChange,
     PostureChange, HoldExpires, ClearHold, Request
<1>2. hold' = hold \/ hold' = FALSE
  BY DEF Environment, ConfigWrite, SetMode, Boundary, ManualMode, TempChange,
     PostureChange, HoldExpires, ClearHold, Request, breaker
<1>3. revision' = revision \/ revision' = revision + 1
  BY DEF Environment, ConfigWrite, SetMode, Boundary, ManualMode, TempChange,
     PostureChange, HoldExpires, ClearHold, Request, db
<1>4. hold \in BOOLEAN /\ revision \in Nat
  BY BoundsAssumption DEF TypeInv, TypeOK
<1>5. (hold' => hold) /\ hold' \in BOOLEAN
  <2>1. CASE hold' = hold
    BY <1>4, <2>1
  <2>2. CASE hold' = FALSE
    BY <2>2
  <2> QED BY <1>2, <2>1, <2>2
<1>6. revision <= revision'
  BY <1>3, <1>4
<1> QED BY <1>1, <1>5, <1>6

LEMMA EnvironmentTyped ==
  ASSUME TypeInv, Environment
  PROVE  TypeInv'
<1>0. /\ TypeOK /\ FlowOK /\ LocalTyped /\ Loop \in Threads
      /\ UNCHANGED local /\ UNCHANGED locks /\ (hold' => hold) /\ hold' \in BOOLEAN
      /\ revision <= revision'
      /\ MaxRevision \in Nat /\ MaxSurprises \in Nat /\ MaxRequests \in Nat
      /\ revision \in 1..MaxRevision /\ surprises \in 0..MaxSurprises
      /\ Mixed = MaxRevision + MaxSurprises + 1 /\ Versions = 0..Mixed
  BY EnvironmentKeeps, BoundsAssumption, LabelFacts
     DEF TypeInv, FlowOK, TypeOK, Mixed, Versions
<1> DEFINE World ==
      /\ revision' \in 1..MaxRevision /\ surprises' \in 0..MaxSurprises
      /\ desired' \in [Devices -> Versions] /\ Dated'
      /\ live' \in [Devices -> Versions] /\ temp' \subseteq Devices
      /\ secure' \in BOOLEAN /\ mode' \in Modes /\ failures' \in Nat
      /\ rows' \in Rows /\ asked' \in 0..MaxRequests
      /\ UNCHANGED <<uiRuns, faults, dbFaults, crashes>>
<1>1. /\ desired \in [Devices -> Versions] /\ live \in [Devices -> Versions]
      /\ temp \subseteq Devices /\ secure \in BOOLEAN /\ mode \in Modes
      /\ failures \in Nat /\ rows \in Rows /\ asked \in 0..MaxRequests
      /\ \A d \in Devices : desired[d] \in Nat /\ desired[d] <= (revision - 1) + surprises
  BY <1>0 DEF TypeOK, TypeInv, Dated, Rows
<1>2. ASSUME ConfigWrite PROVE World
  <2>1. \A d \in Devices : desired'[d] \in {desired[d], desired[d] + 1}
    BY <1>2 DEF ConfigWrite
  <2>2. revision' = revision + 1 /\ revision < MaxRevision /\ surprises' = surprises
    BY <1>2 DEF ConfigWrite, bounds
  <2>3. \A d \in Devices : desired'[d] \in Nat /\ desired'[d] <= (revision' - 1) + surprises'
    BY <1>0, <1>1, <2>1, <2>2
  <2>4. \A d \in Devices : desired'[d] \in Versions
    BY <1>0, <2>2, <2>3
  <2>5. desired' \in [Devices -> Versions]
    BY <1>2, <2>4 DEF ConfigWrite
  <2> QED BY <1>0, <1>1, <1>2, <2>2, <2>3, <2>5 DEF ConfigWrite, breaker, bounds, Dated
<1>3. ASSUME SetMode PROVE World
  <2>1. revision' = revision + 1 /\ revision < MaxRevision
    BY <1>3 DEF SetMode
  <2>2. Dated'
    BY <1>0, <1>1, <1>3, <2>1 DEF SetMode, Dated, env, bounds
  <2> QED BY <1>0, <1>1, <1>3, <2>1, <2>2 DEF SetMode, env, bounds
<1>4. ASSUME Boundary PROVE World
  <2>1. PICK e \in Devices : desired' = [desired EXCEPT ![e] = desired[e] + 1]
    BY <1>4 DEF Boundary
  <2>2. surprises' = surprises + 1 /\ surprises < MaxSurprises /\ revision' = revision
    BY <1>4 DEF Boundary, Surprise, db
  <2>3. \A d \in Devices : desired'[d] \in {desired[d], desired[d] + 1}
    BY <1>1, <2>1
  <2>4. \A d \in Devices : desired'[d] \in Nat /\ desired'[d] <= (revision' - 1) + surprises'
    BY <1>0, <1>1, <2>2, <2>3
  <2>5. \A d \in Devices : desired'[d] \in Versions
    BY <1>0, <2>2, <2>4
  <2>6. desired' \in [Devices -> Versions]
    BY <1>1, <2>1, <2>5
  <2> QED BY <1>0, <1>1, <1>4, <2>2, <2>4, <2>6 DEF Boundary, Surprise, breaker, db, Dated
<1>5. ASSUME ManualMode \/ TempChange \/ PostureChange PROVE World
  <2>1. /\ surprises' = surprises + 1 /\ surprises < MaxSurprises
        /\ UNCHANGED <<revision, desired, mode, failures, rows, asked, uiRuns, faults,
                       dbFaults, crashes>>
    BY <1>5 DEF ManualMode, TempChange, PostureChange, Surprise, db, breaker, env
  <2>2. live' \in [Devices -> Versions] /\ temp' \subseteq Devices /\ secure' \in BOOLEAN
    BY <1>1, <1>5, LabelFacts DEF ManualMode, TempChange, PostureChange, env
  <2>3. Dated'
    BY <1>0, <1>1, <2>1 DEF Dated
  <2> QED BY <1>0, <1>1, <2>1, <2>2, <2>3
<1>6. ASSUME HoldExpires \/ ClearHold PROVE World
  <2>1. Dated'
    BY <1>6 DEF HoldExpires, ClearHold, TypeInv, Dated, env, db, bounds
  <2> QED BY <1>0, <1>1, <1>6, <2>1 DEF HoldExpires, ClearHold, env, db, bounds
<1>7. ASSUME Request PROVE World
  <2>1. rows' \in Rows
    BY <1>1, <1>7, RowsTyped DEF Request
  <2>2. Dated'
    BY <1>7 DEF Request, TypeInv, Dated, env
  <2> QED BY <1>0, <1>1, <1>7, <2>1, <2>2 DEF Request, env, breaker
<1>8. World
  BY <1>2, <1>3, <1>4, <1>5, <1>6, <1>7 DEF Environment
<1>9. TypeOK'
  BY <1>0, <1>8 DEF TypeOK, local, locks, Rows
<1>10. FlowOK'
  <2>1. LocalTyped' /\ Locked'
    BY <1>0 DEF FlowOK, Locked, LocalTyped, local, locks
  <2>2. \A t \in Threads : /\ ThreadOK(t, pc'[t], kind'[t], run'[t], todo'[t], dev'[t])
                           /\ HoldOK(pc'[t], kind'[t], run'[t], hold')
    BY <1>0 DEF FlowOK, HoldOK, local
  <2> QED BY <1>0, <1>8, <2>1, <2>2 DEF FlowOK, Rows
<1>11. LoopOK'
  BY <1>0, <1>8 DEF TypeInv, LoopOK, local, TypeOK
<1> QED BY <1>8, <1>9, <1>10, <1>11 DEF TypeInv

LEMMA CrashTyped ==
  ASSUME TypeInv, Crash
  PROVE  TypeInv'
<1>1. LocalTyped'
  BY LabelFacts DEF Crash, LocalTyped, Kinds, Outside
<1>2. \A t \in Threads : pc'[t] \in {"boot", "idle"} /\ kind'[t] = "none"
  BY DEF Crash
<1>3. /\ left' \in 0..RequestsPerWake /\ from' \in 0..MaxRevision
      /\ fin' \in 0..MaxRevision /\ crashes' \in 0..MaxCrashes
  BY BoundsAssumption, LimitsAssumption DEF Crash, TypeInv, TypeOK
<1>4. TypeOK'
  BY <1>1, <1>3 DEF Crash, TypeInv, TypeOK, LocalTyped, Kinds, env, db
<1>5. FlowOK'
  <2>1. \A t \in Threads : pc'[t] \notin InCycle
    BY <1>2 DEF InCycle
  <2>2. \A t \in Threads : ThreadOK(t, pc'[t], kind'[t], run'[t], todo'[t], dev'[t])
    BY <1>2 DEF ThreadOK, OfCycle, OfRequest, OfTransfer, Shared, Outside
  <2>3. \A t \in Threads : HoldOK(pc'[t], kind'[t], run'[t], hold')
    BY <1>2 DEF HoldOK
  <2> QED BY <1>1, <1>4, <2>1, <2>2, <2>3 DEF FlowOK, Locked, TypeOK
<1>6. Dated' /\ LoopOK'
  BY <1>2, LabelFacts DEF Crash, TypeInv, Dated, LoopOK, env, db
<1> QED BY <1>4, <1>5, <1>6 DEF TypeInv

LEMMA StutterTyped ==
  ASSUME TypeInv, UNCHANGED vars
  PROVE  TypeInv'
<1> USE DEF vars, env, db, breaker, locks, local, bounds
<1>1. TypeOK'
  BY DEF TypeInv, TypeOK
<1>2. FlowOK'
  BY DEF TypeInv, FlowOK, LocalTyped, Locked
<1> QED BY <1>1, <1>2 DEF TypeInv, Dated, LoopOK

\* The kinds of steps there are.
LEMMA NextCases ==
  ASSUME [Next]_vars
  PROVE  \/ \E t \in Threads : StepOf(t)
         \/ Environment \/ Crash \/ UNCHANGED vars
BY LabelFacts DEF Next, StepOf

LEMMA TypeNext == TypeInv /\ [Next]_vars => TypeInv'
BY NextCases, StepTyped, EnvironmentTyped, CrashTyped, StutterTyped

\* Every reachable state of the reconciler is well typed: versions stay below
\* Mixed, and the loop never serves a request that it does not have.
THEOREM TypeCorrect == Spec => []TypeOK
<1>1. TypeInv => TypeOK
  BY DEF TypeInv
<1> QED BY <1>1, TypeInit, TypeNext, PTL DEF Spec

\* A held reconciler writes nothing: the gate of a cycle saw no hold, and only the
\* owner of the cycle lock, which is this cycle until it ends, opens one.
THEOREM HoldsBlockWrites == Spec => []HoldBlocksWrites
<1>1. TypeInv => HoldBlocksWrites
  <2> SUFFICES ASSUME TypeInv, NEW t \in Threads, pc[t] = "write", kind[t] = "cycle"
               PROVE  ~hold
    BY DEF HoldBlocksWrites
  <2>1. /\ ThreadOK(t, pc[t], kind[t], run[t], todo[t], dev[t])
        /\ HoldOK(pc[t], kind[t], run[t], hold)
    BY DEF TypeInv, FlowOK
  <2> QED BY <2>1 DEF ThreadOK, HoldOK, Shared, Passed
<1> QED BY <1>1, TypeInit, TypeNext, PTL DEF Spec

-----------------------------------------------------------------------------
(* The queue never loses a superseded request.                        *)

\* The rows in use are the first n.
Through(n) == \A i \in RowIds : rows[i].status # "none" <=> i <= n

\* A requeue uses up a revision, the one it saw change: the rows that requeues took
\* are fewer than the revisions the current request has not yet used.
Budget == (IF kind[Loop] = "request" THEN from ELSE revision) - 1

QueueInv ==
  /\ TypeInv
  /\ \E n \in Nat : Through(n) /\ n <= asked + Budget
  /\ kind[Loop] = "request" => rows[req].status # "none"

\* What a step may do to a row without a successor.
Lost(i) ==
  pc[Loop] = "requeue" /\ req = i /\ (crashes' # crashes \/ dbFaults' # dbFaults)
Succession == \A i \in RowIds : Orphan(i)' => Orphan(i) \/ Lost(i)

\* What enqueue_reconciliation_request does to a queue with room for a row.
LEMMA EnqueueEffect ==
  ASSUME rows \in Rows, NEW n \in Nat, Through(n), n + 1 \in RowIds,
         NEW g \in Devices \cup {All}, rows' = Enqueued(g)
  PROVE  /\ Through(n + 1)'
         /\ rows'[n + 1] = [target |-> g, status |-> "pending"]
         /\ \A i \in RowIds : i <= n =>
              /\ rows'[i].target = rows[i].target
              /\ rows'[i].status # "none"
              /\ \/ rows'[i].status = rows[i].status
                 \/ rows'[i].status = "superseded" /\ rows[i].target = g
<1>0. RowIds \subseteq Nat
  BY BoundsAssumption DEF RowIds
<1>1. \A i \in RowIds : Fresh(i) <=> i = n + 1
  BY <1>0 DEF Fresh, Through
<1>2. \A i \in RowIds : i # n + 1 =>
        rows'[i] = IF i \in Pending /\ rows[i].target = g
                   THEN Marked(i, "superseded") ELSE rows[i]
  BY <1>1 DEF Enqueued
<1>3. rows'[n + 1] = [target |-> g, status |-> "pending"]
  BY <1>1 DEF Enqueued
<1>4. \A i \in RowIds : i <= n =>
        /\ rows'[i].target = rows[i].target
        /\ rows'[i].status # "none"
        /\ \/ rows'[i].status = rows[i].status
           \/ rows'[i].status = "superseded" /\ rows[i].target = g
  <2> SUFFICES ASSUME NEW i \in RowIds, i <= n
               PROVE  /\ rows'[i].target = rows[i].target
                      /\ rows'[i].status # "none"
                      /\ \/ rows'[i].status = rows[i].status
                         \/ rows'[i].status = "superseded" /\ rows[i].target = g
    OBVIOUS
  <2>1. i # n + 1 /\ rows[i].status # "none"
    BY <1>0 DEF Through
  <2>2. CASE i \in Pending /\ rows[i].target = g
    <3>1. rows'[i] = Marked(i, "superseded")
      BY <1>2, <2>1, <2>2
    <3> QED BY <2>2, <3>1 DEF Marked
  <2>3. CASE ~(i \in Pending /\ rows[i].target = g)
    BY <1>2, <2>1, <2>3
  <2> QED BY <2>2, <2>3
<1>5. \A i \in RowIds : i > n + 1 => rows'[i].status = "none"
  <2> SUFFICES ASSUME NEW i \in RowIds, i > n + 1 PROVE rows'[i].status = "none"
    OBVIOUS
  <2>1. rows[i].status = "none" /\ i # n + 1
    BY <1>0 DEF Through
  <2>2. i \notin Pending
    BY <2>1 DEF Pending
  <2> QED BY <1>2, <2>1, <2>2
<1>6. Through(n + 1)'
  <2> SUFFICES ASSUME NEW i \in RowIds PROVE rows'[i].status # "none" <=> i <= n + 1
    BY DEF Through
  <2>1. CASE i <= n
    BY <1>0, <1>4, <2>1
  <2>2. CASE i = n + 1
    BY <1>3, <2>2
  <2>3. CASE i > n + 1
    BY <1>0, <1>5, <2>3
  <2> QED BY <1>0, <2>1, <2>2, <2>3
<1> QED BY <1>3, <1>4, <1>6

\* A row that is enqueued is the successor of every row that it supersedes.
LEMMA EnqueueSucceeds ==
  ASSUME rows \in Rows, NEW n \in Nat, Through(n), n + 1 \in RowIds,
         NEW g \in Devices \cup {All}, rows' = Enqueued(g),
         pc[Loop] = "requeue" =>
           \/ (pc'[Loop] = "requeue" /\ req' = req)
           \/ (req \in RowIds /\ rows[req].target = g)
  PROVE  Succession
<1>0. /\ RowIds \subseteq Nat
      /\ Through(n + 1)'
      /\ rows'[n + 1] = [target |-> g, status |-> "pending"]
      /\ \A i \in RowIds : i <= n =>
           /\ rows'[i].target = rows[i].target
           /\ rows'[i].status # "none"
           /\ \/ rows'[i].status = rows[i].status
              \/ rows'[i].status = "superseded" /\ rows[i].target = g
  BY EnqueueEffect, BoundsAssumption DEF RowIds
<1> SUFFICES ASSUME NEW i \in RowIds, Orphan(i)' PROVE Orphan(i)
  BY DEF Succession
<1>1. rows'[i].status = "superseded" /\ ~HasSuccessor(i)'
      /\ ~(pc'[Loop] = "requeue" /\ req' = i)
  BY DEF Orphan
<1>2. i <= n
  <2>1. i <= n + 1
    BY <1>0, <1>1 DEF Through
  <2>2. i # n + 1
    BY <1>0, <1>1
  <2> QED BY <1>0, <2>1, <2>2
<1>3. rows[i].target # g
  <2> SUFFICES ASSUME rows[i].target = g PROVE HasSuccessor(i)'
    BY <1>1
  <2>1. n + 1 > i /\ rows'[n + 1].target = rows'[i].target /\ rows'[n + 1].status # "none"
    BY <1>0, <1>2
  <2> QED BY <2>1 DEF HasSuccessor
<1>4. rows[i].status = "superseded"
  BY <1>0, <1>1, <1>2, <1>3
<1>5. ~(pc[Loop] = "requeue" /\ req = i)
  BY <1>1, <1>3
<1>6. ~HasSuccessor(i)
  <2> SUFFICES ASSUME HasSuccessor(i) PROVE HasSuccessor(i)'
    BY <1>1
  <2>1. PICK j \in RowIds : j > i /\ rows[j].target = rows[i].target
                                  /\ rows[j].status # "none"
    BY DEF HasSuccessor
  <2>2. j <= n
    BY <2>1 DEF Through
  <2> QED BY <1>0, <1>2, <2>1, <2>2 DEF HasSuccessor
<1> QED BY <1>4, <1>5, <1>6 DEF Orphan

\* A step that only advances rows keeps the queue in order.
LEMMA RowsAdvance ==
  ASSUME \A i \in RowIds : /\ rows'[i].target = rows[i].target
                           /\ rows'[i].status = "none" <=> rows[i].status = "none"
                           /\ rows'[i].status = "superseded" =>
                                \/ rows[i].status = "superseded"
                                \/ (pc'[Loop] = "requeue" /\ req' = i),
         pc[Loop] = "requeue" =>
           (pc'[Loop] = "requeue" /\ req' = req) \/ crashes' # crashes \/ dbFaults' # dbFaults
  PROVE  Succession /\ \A n \in Nat : Through(n) => Through(n)'
<1>1. \A i \in RowIds : HasSuccessor(i) => HasSuccessor(i)'
  BY DEF HasSuccessor
<1>2. Succession
  BY <1>1 DEF Succession, Orphan, Lost
<1> QED BY <1>2 DEF Through

\* The loop leaves the call "requeue" by a requeue, or by a call that fails.
LEMMA RequeueStays ==
  ASSUME TypeInv, NEW t \in Threads, StepOf(t), pc[Loop] = "requeue", ~(t = Loop /\ Requeue)
  PROVE  (pc'[Loop] = "requeue" /\ req' = req) \/ dbFaults' # dbFaults
<1>1. CASE t # Loop
  <2>1. Good(t)
    BY ThreadStep DEF TypeInv
  <2> QED BY <1>1, <2>1, LoopSteps, LabelFacts DEF Good, OthersKeep
<1>2. CASE t = Loop /\ RequestRaises
  <2>1. dbFaults \in Nat /\ dbFaults' = dbFaults + 1
    BY <1>2, BoundsAssumption DEF RequestRaises, DbFault, TypeInv, TypeOK
  <2> QED BY <2>1
<1>3. ASSUME t = Loop, ~RequestRaises PROVE FALSE
  BY <1>3 DEF StepOf, Step, CycleStep, LoopStep, Raises, LoopRaises, EnterCycle,
     ReadSettings, Gate, Observe, Observed, Record, TakeLane, Prove, Device,
     Write, Verify, AllDone, Boot, Top, ClaimRequest, NoRequest, Awake, Settle,
     Finish, Abort, Transfer, EndTransfer, SettingsRaise, ObserveRaises,
     GateRaises, LaneRaises, DeviceRaises, PlanRaises, RunNow, BeginTransfer,
     TopRaises, BootRaises, AbortRaises
<1> QED BY <1>1, <1>2, <1>3

\* A request under way is the one that was claimed.
LEMMA RequestKept ==
  ASSUME TypeInv, NEW t \in Threads, StepOf(t), ~(t = Loop /\ ClaimRequest),
         kind'[Loop] = "request"
  PROVE  kind[Loop] = "request" /\ req' = req /\ from' = from
<1>0. Good(t) /\ LocalTyped /\ Loop \in Threads
  BY ThreadStep, LabelFacts DEF TypeInv, FlowOK
<1>1. CASE t # Loop
  BY <1>0, <1>1, LoopSteps DEF Good, OthersKeep
<1>2. CASE t = Loop /\ Finish
  <2>1. CASE Outcome = "superseded"
    BY <1>2, <2>1 DEF Finish
  <2>2. CASE Outcome # "superseded"
    <3>1. Served(left - 1)
      BY <1>2, <2>2 DEF Finish
    <3> QED BY <1>0, <3>1, ServedEffect
  <2> QED BY <2>1, <2>2
<1>3. ASSUME Requeue \/ Abort \/ AbortRaises PROVE FALSE
  <2>1. \E n : Served(n)
    BY <1>3 DEF Requeue, Abort, AbortRaises
  <2> QED BY <1>0, <2>1, ServedEffect
<1>4. CASE Top \/ NoRequest \/ Settle
  BY <1>4 DEF Top, NoRequest, Settle
<1>5. CASE t = Loop /\ ~Finish /\ ~Settle /\ UNCHANGED <<left, req, from, fin>>
  BY <1>5, KindSteps
<1> QED BY <1>1, <1>2, <1>3, <1>4, <1>5, LoopSteps

LEMMA BudgetGrows ==
  ASSUME TypeInv, NEW t \in Threads, StepOf(t)
  PROVE  Budget \in Nat /\ Budget' \in Nat /\ Budget <= Budget'
<1>0. /\ revision' = revision /\ LoopOK /\ from \in Nat /\ revision \in 1..MaxRevision
      /\ MaxRevision \in Nat
  BY WorldSteps, BoundsAssumption DEF TypeInv, TypeOK
<1>1. CASE t = Loop /\ ClaimRequest
  <2>1. from' = revision /\ kind[Loop] = "none"
    <3>1. ThreadOK(Loop, pc[Loop], kind[Loop], run[Loop], todo[Loop], dev[Loop])
      BY LabelFacts DEF TypeInv, FlowOK
    <3> QED BY <1>1, <3>1 DEF ClaimRequest, ThreadOK, Outside
  <2> QED BY <1>0, <2>1 DEF Budget
<1>2. CASE ~(t = Loop /\ ClaimRequest)
  <2>1. kind'[Loop] = "request" => kind[Loop] = "request" /\ from' = from
    BY <1>2, RequestKept
  <2> QED BY <1>0, <2>1 DEF Budget, LoopOK
<1> QED BY <1>1, <1>2

\* A step of a thread, requeues aside, advances rows or leaves them alone.
LEMMA RowsOfStep ==
  ASSUME QueueInv, NEW t \in Threads, StepOf(t), ~(t = Loop /\ Requeue)
  PROVE  \A i \in RowIds : /\ rows'[i].target = rows[i].target
                           /\ rows'[i].status = "none" <=> rows[i].status = "none"
                           /\ rows'[i].status = "superseded" =>
                                \/ rows[i].status = "superseded"
                                \/ (pc'[Loop] = "requeue" /\ req' = i)
<1> SUFFICES ASSUME NEW i \in RowIds
             PROVE  /\ rows'[i].target = rows[i].target
                    /\ rows'[i].status = "none" <=> rows[i].status = "none"
                    /\ rows'[i].status = "superseded" =>
                         \/ rows[i].status = "superseded"
                         \/ (pc'[Loop] = "requeue" /\ req' = i)
  OBVIOUS
<1>0. rows \in Rows /\ LocalTyped /\ LoopOK /\ Loop \in Threads
      /\ ThreadOK(Loop, pc[Loop], kind[Loop], run[Loop], todo[Loop], dev[Loop])
  BY LabelFacts DEF QueueInv, TypeInv, FlowOK, Rows
<1>1. CASE rows' = rows
  BY <1>1
<1>2. CASE Boot
  <2>1. rows'[i] = IF rows[i].status = "running" THEN Marked(i, "pending") ELSE rows[i]
    BY <1>2 DEF Boot
  <2> QED BY <2>1 DEF Marked
<1>3. CASE ClaimRequest
  <2>1. PICK k \in Pending : rows' = [rows EXCEPT ![k] = Marked(k, "running")]
    BY <1>3 DEF ClaimRequest
  <2>2. rows'[i] = IF i = k THEN Marked(i, "running") ELSE rows[i]
    BY <1>0, <2>1 DEF Rows
  <2> QED BY <2>1, <2>2 DEF Marked, Pending
<1>4. CASE Finish
  <2>1. rows'[i] = IF i = req THEN Marked(i, Outcome) ELSE rows[i]
    BY <1>0, <1>4 DEF Finish, Rows
  <2>2. rows[req].status # "none"
    BY <1>0, <1>4 DEF Finish, ThreadOK, OfRequest, QueueInv
  <2>3. Outcome # "none"
    BY DEF Outcome
  <2>4. Outcome = "superseded" => pc'[Loop] = "requeue" /\ req' = req
    BY <1>0, <1>4 DEF Finish, Goto, LocalTyped
  <2> QED BY <2>1, <2>2, <2>3, <2>4 DEF Marked
<1>5. CASE Abort
  <2>1. rows'[i] = rows[i] \/ (i = req /\ rows'[i] = Marked(i, "failed"))
    BY <1>0, <1>5 DEF Abort, Rows
  <2>2. rows[req].status # "none"
    BY <1>0, <1>5 DEF Abort, ThreadOK, OfRequest, QueueInv
  <2> QED BY <2>1, <2>2 DEF Marked
<1> QED BY <1>1, <1>2, <1>3, <1>4, <1>5, RowSteps

LEMMA QueueStep ==
  ASSUME QueueInv, NEW t \in Threads, StepOf(t)
  PROVE  QueueInv' /\ Succession
<1>0. /\ TypeInv /\ TypeInv' /\ rows \in Rows /\ rows' \in Rows /\ LoopOK /\ LocalTyped
      /\ asked' = asked /\ asked \in 0..MaxRequests /\ RowIds \subseteq Nat
      /\ MaxRequests \in Nat /\ MaxRevision \in Nat /\ revision' = revision
      /\ Budget \in Nat /\ Budget' \in Nat /\ Budget <= Budget'
      /\ revision \in 1..MaxRevision
      /\ ThreadOK(Loop, pc[Loop], kind[Loop], run[Loop], todo[Loop], dev[Loop])
  <2>1. TypeInv /\ TypeInv'
    BY StepTyped DEF QueueInv
  <2>2. Budget \in Nat /\ Budget' \in Nat /\ Budget <= Budget'
    BY <2>1, BudgetGrows
  <2>3. RowIds \subseteq Nat
    BY BoundsAssumption DEF RowIds
  <2> QED BY <2>1, <2>2, <2>3, WorldSteps, BoundsAssumption, LabelFacts
            DEF TypeInv, TypeOK, FlowOK, Rows
<1>1. PICK n \in Nat : Through(n) /\ n <= asked + Budget
  BY DEF QueueInv
<1>2. CASE t = Loop /\ Requeue
  <2>1. pc[Loop] = "requeue" /\ rows' = Enqueued(rows[req].target) /\ Served(left - 1)
    BY <1>2 DEF Requeue
  <2>2. kind[Loop] = "request"
    BY <1>0, <2>1 DEF ThreadOK, OfRequest
  <2>3. req \in RowIds /\ rows[req].target \in Devices \cup {All}
    BY <1>0, <2>2, RowsTyped DEF LoopOK
  <2>4. Budget = from - 1 /\ from \in Nat /\ from < fin /\ fin <= revision /\ fin \in Nat
    BY <1>0, <2>1, <2>2 DEF Budget, LoopOK, TypeInv, TypeOK
  <2>5. n + 1 \in RowIds
    BY <1>0, <1>1, <2>4 DEF RowIds
  <2>6. kind'[Loop] = "none"
    BY <1>0, <2>1, ServedEffect
  <2>7. Budget' = revision - 1
    BY <1>0, <2>6 DEF Budget
  <2>8. n + 1 <= asked' + Budget'
    BY <1>0, <1>1, <2>4, <2>7
  <2>9. Through(n + 1)'
    BY <1>0, <1>1, <2>1, <2>3, <2>5, EnqueueEffect
  <2>10. Succession
    BY <1>0, <1>1, <2>1, <2>3, <2>5, EnqueueSucceeds
  <2>11. \E m \in Nat : Through(m)' /\ m <= asked' + Budget'
    <3>1. n + 1 \in Nat
      OBVIOUS
    <3> QED BY <2>8, <2>9, <3>1
  <2> QED BY <1>0, <2>6, <2>10, <2>11 DEF QueueInv
<1>3. CASE ~(t = Loop /\ Requeue)
  <2>1. pc[Loop] = "requeue" =>
          (pc'[Loop] = "requeue" /\ req' = req) \/ dbFaults' # dbFaults
    BY <1>0, <1>3, RequeueStays
  <2>2. \A i \in RowIds : /\ rows'[i].target = rows[i].target
                          /\ rows'[i].status = "none" <=> rows[i].status = "none"
                          /\ rows'[i].status = "superseded" =>
                               \/ rows[i].status = "superseded"
                               \/ (pc'[Loop] = "requeue" /\ req' = i)
    BY <1>3, RowsOfStep
  <2>3. Succession /\ Through(n)'
    BY <1>1, <2>1, <2>2, RowsAdvance
  <2>4. n <= asked' + Budget'
    BY <1>0, <1>1
  <2>5. kind'[Loop] = "request" => rows'[req'].status # "none"
    <3> SUFFICES ASSUME kind'[Loop] = "request" PROVE rows'[req'].status # "none"
      OBVIOUS
    <3>1. CASE t = Loop /\ ClaimRequest
      <4>1. req' \in Pending
        BY <3>1 DEF ClaimRequest
      <4> QED BY <2>2, <4>1 DEF Pending
    <3>2. CASE ~(t = Loop /\ ClaimRequest)
      <4>1. kind[Loop] = "request" /\ req' = req
        BY <1>0, <3>2, RequestKept
      <4>2. req \in RowIds /\ rows[req].status # "none"
        BY <1>0, <4>1 DEF LoopOK, QueueInv
      <4> QED BY <2>2, <4>1, <4>2
    <3> QED BY <3>1, <3>2
  <2> QED BY <1>0, <2>3, <2>4, <2>5 DEF QueueInv
<1> QED BY <1>2, <1>3

LEMMA Growth ==
  /\ \A x, y \in Nat : x <= y => x - 1 <= y - 1 /\ (x >= 1 => y - 1 \in Nat)
  /\ \A n, a, x, y \in Nat :
       n <= a + x /\ x <= y => n <= a + y /\ n + 1 <= (a + 1) + y
OBVIOUS

LEMMA QueueEnvironment ==
  ASSUME QueueInv, Environment
  PROVE  QueueInv' /\ Succession
<1>0. /\ TypeInv /\ TypeInv' /\ rows \in Rows /\ UNCHANGED local
      /\ revision <= revision' /\ revision \in 1..MaxRevision /\ revision' \in Nat
      /\ asked \in 0..MaxRequests /\ MaxRequests \in Nat /\ MaxRevision \in Nat
      /\ from \in 0..MaxRevision /\ LoopOK
  BY EnvironmentKeeps, EnvironmentTyped, BoundsAssumption
     DEF QueueInv, TypeInv, TypeOK, Rows
<1>1. PICK n \in Nat : Through(n) /\ n <= asked + Budget
  BY DEF QueueInv
<1>a. /\ kind' = kind /\ from' = from /\ from \in Nat
      /\ kind[Loop] = "request" => from >= 1 /\ from <= revision
      /\ revision \in Nat /\ revision' \in Nat /\ revision <= revision' /\ revision >= 1
      /\ asked \in Nat /\ revision <= MaxRevision /\ MaxRevision \in Nat
  BY <1>0 DEF LoopOK, local
<1>2. Budget \in Nat /\ Budget' \in Nat /\ Budget <= Budget' /\ Budget <= MaxRevision - 1
  <2>1. CASE kind[Loop] = "request"
    <3>1. Budget = from - 1 /\ Budget' = from - 1
      BY <1>a, <2>1 DEF Budget
    <3> QED BY <1>a, <2>1, <3>1
  <2>2. CASE kind[Loop] # "request"
    <3>1. Budget = revision - 1 /\ Budget' = revision' - 1
      BY <1>a, <2>2 DEF Budget
    <3>2. revision - 1 <= revision' - 1
      BY <1>a, Growth
    <3>3. Budget \in Nat /\ Budget <= MaxRevision - 1
      BY <1>a, <3>1
    <3>4. Budget' \in Nat
      BY <1>a, <3>1, Growth
    <3> QED BY <3>1, <3>2, <3>3, <3>4
  <2> QED BY <2>1, <2>2
<1>3. CASE Request
  <2>1. PICK g \in Devices \cup {All} : rows' = Enqueued(g)
    BY <1>3 DEF Request
  <2>2. asked' = asked + 1 /\ asked < MaxRequests
    BY <1>3 DEF Request
  <2>3. n + 1 \in RowIds
    BY <1>0, <1>1, <1>2, <2>2 DEF RowIds
  <2>4. \E m \in Nat : Through(m)' /\ m <= asked' + Budget'
    <3>0. n + 1 <= (asked + 1) + Budget'
      BY <1>1, <1>2, <1>a, Growth
    <3>1. n + 1 \in Nat /\ n + 1 <= asked' + Budget'
      BY <2>2, <3>0
    <3>2. Through(n + 1)'
      BY <1>0, <1>1, <2>1, <2>3, EnqueueEffect
    <3> QED BY <3>1, <3>2
  <2>5. Succession
    BY <1>0, <1>1, <2>1, <2>3, EnqueueSucceeds DEF local
  <2>6. kind'[Loop] = "request" => rows'[req'].status # "none"
    <3> SUFFICES ASSUME kind'[Loop] = "request" PROVE rows'[req'].status # "none"
      OBVIOUS
    <3>1. req' = req /\ req \in RowIds /\ rows[req].status # "none"
      BY <1>0 DEF local, LoopOK, QueueInv
    <3>2. req <= n
      BY <1>1, <3>1 DEF Through
    <3> QED BY <1>0, <1>1, <2>1, <2>3, <3>1, <3>2, EnqueueEffect
  <2> QED BY <1>0, <2>4, <2>5, <2>6 DEF QueueInv
<1>4. CASE ~Request
  <2>1. rows' = rows /\ asked' = asked
    BY <1>4 DEF Environment, ConfigWrite, SetMode, Boundary, ManualMode, TempChange,
       PostureChange, HoldExpires, ClearHold, Surprise, db, bounds
  <2>2. Succession /\ Through(n)'
    <3>1. pc' = pc /\ req' = req
      BY <1>0 DEF local
    <3> QED BY <1>1, <2>1, <3>1, RowsAdvance
  <2>3. n <= asked' + Budget'
    BY <1>1, <1>2, <1>a, <2>1, Growth
  <2> QED BY <1>0, <2>1, <2>2, <2>3 DEF QueueInv, local
<1> QED BY <1>3, <1>4

\* A crash frees the loop of its request and leaves the queue as it is.
LEMMA QueueCrash ==
  ASSUME QueueInv, Crash
  PROVE  QueueInv' /\ Succession
<1>0. /\ TypeInv' /\ LoopOK /\ revision' = revision /\ rows' = rows
      /\ asked' = asked /\ kind'[Loop] = "none"
      /\ crashes \in Nat /\ crashes' = crashes + 1 /\ asked \in Nat
      /\ revision \in Nat /\ from \in Nat
  <2>1. TypeInv' /\ LoopOK /\ TypeOK
    BY CrashTyped DEF QueueInv, TypeInv
  <2>2. /\ revision' = revision /\ rows' = rows /\ asked' = asked
        /\ kind'[Loop] = "none" /\ crashes' = crashes + 1
    BY LabelFacts DEF Crash, db
  <2>3. crashes \in Nat /\ asked \in Nat /\ revision \in Nat /\ from \in Nat
    BY <2>1, BoundsAssumption DEF TypeOK
  <2> QED BY <2>1, <2>2, <2>3
<1>1. PICK n \in Nat : Through(n) /\ n <= asked + Budget
  BY DEF QueueInv
<1>2. Succession /\ Through(n)'
  <2>1. crashes' # crashes
    BY <1>0
  <2> QED BY <1>0, <1>1, <2>1, RowsAdvance
<1>3. n <= asked' + Budget'
  BY <1>0, <1>1 DEF Budget, LoopOK
<1> QED BY <1>0, <1>2, <1>3 DEF QueueInv

\* Whoever supersedes a row queues its successor: the queue has room, because a
\* requeue uses up a revision.  Only a crash or a failed call between the finish of
\* the request and the enqueue that follows it loses the successor of that request.
THEOREM SupersededAreSucceeded == Spec => SupersededHasSuccessor
<1>1. Init => QueueInv
  <2> SUFFICES ASSUME Init PROVE QueueInv
    OBVIOUS
  <2>1. \A i \in RowIds : rows[i].status = "none"
    BY DEF Init, NoRow
  <2>2. Through(0)
    BY <2>1, BoundsAssumption DEF Through, RowIds
  <2>3. kind[Loop] = "none" /\ asked = 0 /\ revision = 1
    BY LabelFacts DEF Init
  <2>4. 0 <= asked + Budget
    BY <2>3 DEF Budget
  <2> QED BY <2>2, <2>3, <2>4, TypeInit DEF QueueInv
<1>2. QueueInv /\ [Next]_vars => QueueInv' /\ Succession
  <2> SUFFICES ASSUME QueueInv, [Next]_vars PROVE QueueInv' /\ Succession
    OBVIOUS
  <2>1. ASSUME UNCHANGED vars PROVE QueueInv' /\ Succession
    <3>1. TypeInv'
      BY <2>1, StutterTyped DEF QueueInv
    <3>2. UNCHANGED <<rows, kind, from, revision, asked, req, pc>>
      BY <2>1 DEF vars, db, local, bounds
    <3>3. PICK n \in Nat : Through(n) /\ n <= asked + Budget
      BY DEF QueueInv
    <3>4. n <= asked' + Budget'
      BY <3>2, <3>3 DEF Budget
    <3>5. Succession /\ Through(n)'
      BY <3>2, <3>3, RowsAdvance
    <3> QED BY <3>1, <3>2, <3>4, <3>5 DEF QueueInv
  <2> QED BY <2>1, NextCases, QueueStep, QueueEnvironment, QueueCrash
<1>3. Succession => [\A i \in RowIds :
                       Orphan(i)' => \/ Orphan(i)
                                     \/ /\ pc[Loop] = "requeue" /\ req = i
                                        /\ crashes' # crashes \/ dbFaults' # dbFaults]_vars
  BY DEF Succession, Lost
<1> QED BY <1>1, <1>2, <1>3, PTL DEF Spec, SupersededHasSuccessor

-----------------------------------------------------------------------------
(* A request that succeeds left its targets converged.                    *)

\* The calls from the claim of a request to its outcome.
Serving == Shared \cup {"settle", "finish"}

\* Nobody announced or made a change since the request was claimed, and no device
\* failed: every target that is done with has its policy.
Steady == surprises = 0 /\ from = revision /\ ~failed[Loop]
Done == \A d \in Targets(req) \ todo[Loop] : live[d] = desired[d]

ServeInv ==
  /\ TypeInv
  /\ surprises = 0 => temp = {}
  /\ kind[Loop] = "request" => rows[req].status # "none"
  /\ kind[Loop] = "request" /\ pc[Loop] \in Serving /\ Steady => Done

LEMMA ServeSteps ==
  ASSUME TypeInv, StepOf(Loop), kind[Loop] = "request"
  PROVE  \/ TakeLane(Loop) \/ Prove(Loop) \/ Device(Loop) \/ Write(Loop)
         \/ Verify(Loop) \/ AllDone(Loop) \/ LaneRaises(Loop) \/ DeviceRaises(Loop)
         \/ PlanRaises(Loop) \/ Settle \/ Finish \/ Requeue \/ Abort
         \/ RequestRaises \/ AbortRaises
<1>1. pc[Loop] \in Shared \cup OfRequest
  BY LabelFacts DEF TypeInv, FlowOK, LocalTyped, ThreadOK
<1> QED
  BY <1>1, LabelFacts DEF StepOf, Step, CycleStep, LoopStep, Raises, LoopRaises, Shared,
     OfRequest, EnterCycle, ReadSettings, Gate, Observe, Observed, Record,
     Boot, Top, ClaimRequest, NoRequest, Awake, Transfer, EndTransfer,
     SettingsRaise, ObserveRaises, GateRaises, RunNow, BeginTransfer,
     TopRaises, BootRaises

\* The targets of the request under way do not change, nor does its row vanish.
LEMMA TargetsKept ==
  ASSUME ServeInv, NEW t \in Threads, StepOf(t), ~(t = Loop /\ ClaimRequest),
         kind'[Loop] = "request"
  PROVE  /\ Targets(req)' = Targets(req) /\ rows'[req'].status # "none"
         /\ kind[Loop] = "request" /\ req' = req /\ from' = from
<1>0. /\ TypeInv /\ rows \in Rows /\ LocalTyped /\ LoopOK
      /\ ThreadOK(Loop, pc[Loop], kind[Loop], run[Loop], todo[Loop], dev[Loop])
  BY LabelFacts DEF ServeInv, TypeInv, TypeOK, FlowOK, Rows
<1>1. kind[Loop] = "request" /\ req' = req /\ from' = from
  BY <1>0, RequestKept
<1>2. req \in RowIds /\ rows[req].status # "none"
  BY <1>0, <1>1 DEF LoopOK, ServeInv
<1>3. rows'[req].target = rows[req].target /\ rows'[req].status # "none"
  <2>1. CASE rows' = rows
    BY <1>2, <2>1
  <2>2. ASSUME Boot PROVE FALSE
    BY <1>0, <1>1, <2>2 DEF Boot, ThreadOK, Outside
  <2>3. CASE Finish
    <3>1. rows'[req] = Marked(req, Outcome)
      BY <1>0, <1>2, <2>3 DEF Finish, Rows
    <3> QED BY <3>1 DEF Marked, Outcome
  <2>4. ASSUME Requeue \/ Abort PROVE FALSE
    <3>1. \E n : Served(n)
      BY <2>4 DEF Requeue, Abort
    <3> QED BY <1>0, <3>1, ServedEffect
  <2> QED BY <2>1, <2>2, <2>3, <2>4, RowSteps
<1>4. Targets(req)' = Targets(req)
  BY <1>1, <1>3 DEF Targets
<1> QED BY <1>1, <1>3, <1>4

\* A step of the loop takes a device off its list only if it has its policy.
LEMMA LoopServes ==
  ASSUME ServeInv, StepOf(Loop), kind[Loop] = "request", kind'[Loop] = "request",
         pc'[Loop] \in Serving, Steady', from' = from, Targets(req)' = Targets(req)
  PROVE  Done'
<1>0. /\ TypeInv /\ LocalTyped /\ Loop \in Threads
      /\ ThreadOK(Loop, pc[Loop], kind[Loop], run[Loop], todo[Loop], dev[Loop])
      /\ UNCHANGED <<revision, desired, temp, surprises>> /\ temp = {}
      /\ live \in [Devices -> Versions] /\ Targets(req) \subseteq Devices
  <2>1. TypeInv /\ Loop \in Threads
    BY LabelFacts DEF ServeInv
  <2>2. UNCHANGED <<revision, desired, temp, surprises>> /\ surprises = 0
    BY <2>1, WorldSteps DEF Steady
  <2>3. Targets(req) \subseteq Devices
    <3>1. req \in RowIds
      BY <2>1 DEF TypeInv, LoopOK
    <3> QED BY <2>1, <3>1 DEF TypeInv, TypeOK, Targets, RequestRow
  <2> QED BY <2>1, <2>2, <2>3 DEF ServeInv, TypeInv, TypeOK, FlowOK
<1>1. pc[Loop] \in Serving /\ ~failed[Loop] => Done
  BY <1>0 DEF ServeInv, Steady
<1>2. ASSUME todo' = todo, live' = live, failed' = failed, pc[Loop] \in Serving PROVE Done'
  BY <1>0, <1>1, <1>2 DEF Done, Steady
<1>3. CASE TakeLane(Loop) \/ AllDone(Loop)
  BY <1>2, <1>3 DEF TakeLane, AllDone, Serving, Shared
<1>4. CASE Settle
  BY <1>2, <1>4 DEF Settle, Serving
<1>5. CASE Prove(Loop)
  BY <1>0, <1>2, <1>5, GotoEffect DEF Prove, Serving, Shared
<1>6. CASE Device(Loop)
  <2>1. PICK d \in todo[Loop] :
          IF d \notin temp /\ live[d] # desired[d]
          THEN todo' = todo
          ELSE todo' = [todo EXCEPT ![Loop] = todo[Loop] \ {d}]
    BY <1>6 DEF Device
  <2>2. live' = live /\ failed' = failed /\ pc[Loop] = "device"
    BY <1>6 DEF Device
  <2>3. CASE todo' = todo
    BY <1>2, <2>2, <2>3 DEF Serving, Shared
  <2>4. CASE ~(d \notin temp /\ live[d] # desired[d])
    <3>1. todo'[Loop] = todo[Loop] \ {d} /\ live[d] = desired[d]
      BY <1>0, <2>1, <2>4 DEF LocalTyped
    <3>2. Done
      BY <1>1, <2>2 DEF Serving, Shared, Steady
    <3> QED BY <1>0, <2>2, <3>1, <3>2 DEF Done
  <2> QED BY <2>1, <2>3, <2>4
<1>7. CASE Write(Loop)
  <2>1. /\ live' = [live EXCEPT ![dev[Loop]] = plan[Loop]] /\ todo' = todo
        /\ failed' = failed /\ pc[Loop] = "write"
    BY <1>7 DEF Write
  <2>2. dev[Loop] \in todo[Loop] /\ Done
    BY <1>0, <1>1, <2>1 DEF ThreadOK, Serving, Shared, Steady
  <2>3. \A d \in Targets(req) \ todo[Loop] : live'[d] = live[d]
    BY <1>0, <2>1, <2>2
  <2> QED BY <1>0, <2>1, <2>2, <2>3 DEF Done
<1>8. CASE Verify(Loop)
  <2>1. /\ UNCHANGED <<kind, run, drifted, spared, live>> /\ NextDevice(Loop)
        /\ failed' = [failed EXCEPT ![Loop] =
                        failed[Loop] \/ live[dev[Loop]] # desired[dev[Loop]]]
        /\ pc[Loop] = "verify"
    BY <1>8 DEF Verify
  <2>2. ~failed[Loop] /\ live[dev[Loop]] = desired[dev[Loop]]
    BY <1>0, <2>1 DEF Steady, LocalTyped
  <2>3. todo'[Loop] = todo[Loop] \ {dev[Loop]}
    BY <1>0, <2>1 DEF NextDevice, LocalTyped
  <2>4. Done
    BY <1>1, <2>1, <2>2 DEF Serving, Shared
  <2> QED BY <1>0, <2>1, <2>2, <2>3, <2>4 DEF Done
<1>9. ASSUME DeviceRaises(Loop) \/ PlanRaises(Loop) PROVE FALSE
  BY <1>0, <1>9 DEF DeviceRaises, PlanRaises, Steady, LocalTyped
<1>10. ASSUME LaneRaises(Loop) \/ RequestRaises PROVE FALSE
  <2>1. pc'[Loop] = "abort"
    BY <1>0, <1>10 DEF LaneRaises, RequestRaises, Goto, LocalTyped
  <2> QED BY <2>1 DEF Serving, Shared
<1>11. ASSUME Finish \/ Requeue \/ Abort \/ AbortRaises PROVE FALSE
  <2>1. pc'[Loop] = "requeue" \/ \E n : Served(n)
    BY <1>0, <1>11 DEF Finish, Requeue, Abort, AbortRaises, Goto, LocalTyped
  <2> QED BY <1>0, <2>1, ServedEffect DEF Serving, Shared
<1> QED BY <1>0, <1>3, <1>4, <1>5, <1>6, <1>7, <1>8, <1>9, <1>10, <1>11, ServeSteps

LEMMA ServeStep ==
  ASSUME ServeInv, NEW t \in Threads, StepOf(t)
  PROVE  ServeInv'
<1>0. /\ TypeInv /\ TypeInv' /\ rows \in Rows /\ LocalTyped /\ Loop \in Threads
      /\ UNCHANGED <<revision, desired, temp, surprises>>
  BY StepTyped, WorldSteps, LabelFacts DEF ServeInv, TypeInv, TypeOK, FlowOK, Rows
<1>1. CASE t = Loop /\ ClaimRequest
  <2>1. PICK i \in Pending : /\ rows' = [rows EXCEPT ![i] = Marked(i, "running")]
                             /\ req' = i /\ todo' = [todo EXCEPT ![Loop] = Targets(i)]
    BY <1>1 DEF ClaimRequest
  <2>2. i \in RowIds /\ rows'[i] = Marked(i, "running")
    BY <1>0, <2>1 DEF Pending, Rows
  <2>3. rows'[req'].status # "none" /\ Targets(req)' = Targets(i)
    BY <2>1, <2>2 DEF Marked, Targets
  <2>4. todo'[Loop] = Targets(i)
    BY <1>0, <2>1 DEF LocalTyped
  <2>5. Done'
    BY <2>3, <2>4 DEF Done
  <2> QED BY <1>0, <2>3, <2>5 DEF ServeInv
<1>2. CASE ~(t = Loop /\ ClaimRequest)
  <2>1. kind'[Loop] = "request" =>
          /\ Targets(req)' = Targets(req) /\ rows'[req'].status # "none"
          /\ kind[Loop] = "request" /\ req' = req /\ from' = from
    BY <1>2, TargetsKept
  <2>2. ASSUME kind'[Loop] = "request", pc'[Loop] \in Serving, Steady' PROVE Done'
    <3>1. CASE t = Loop
      BY <2>1, <2>2, <3>1, LoopServes
    <3>2. CASE t # Loop
      <4>1. Good(t)
        BY <1>0, ThreadStep DEF TypeInv
      <4>2. /\ pc'[Loop] = pc[Loop] /\ kind'[Loop] = kind[Loop]
            /\ todo'[Loop] = todo[Loop] /\ failed'[Loop] = failed[Loop]
        BY <1>0, <3>2, <4>1 DEF Good, OthersKeep
      <4>3. cycle = Loop
        BY <1>0, <2>2, <4>2 DEF TypeInv, FlowOK, Locked, Serving, Shared, InCycle
      <4>4. pc[t] \notin InCycle
        BY <1>0, <3>2, <4>3 DEF TypeInv, FlowOK, Locked
      <4>5. live' = live
        BY <4>4, LiveSteps DEF Write, DeviceRaises, InCycle
      <4>6. Done
        BY <1>0, <2>1, <2>2, <4>2 DEF ServeInv, Steady
      <4> QED BY <1>0, <2>1, <2>2, <4>2, <4>5, <4>6 DEF Done
    <3> QED BY <3>1, <3>2
  <2> QED BY <1>0, <2>1, <2>2 DEF ServeInv
<1> QED BY <1>1, <1>2

LEMMA ServeEnvironment ==
  ASSUME ServeInv, Environment
  PROVE  ServeInv'
<1>0. TypeInv /\ TypeInv' /\ rows \in Rows /\ UNCHANGED local /\ LoopOK
      /\ surprises \in Nat /\ revision \in Nat /\ from \in Nat
  BY EnvironmentKeeps, EnvironmentTyped, BoundsAssumption
     DEF ServeInv, TypeInv, TypeOK, Rows
<1>a. UNCHANGED <<kind, pc, todo, failed, req, from>>
  BY <1>0 DEF local
<1>b. kind[Loop] = "request" => req \in RowIds /\ from <= revision /\ rows[req].status # "none"
  BY <1>0 DEF LoopOK, ServeInv
<1>1. CASE ConfigWrite \/ SetMode
  <2>1. revision' = revision + 1 /\ rows' = rows /\ UNCHANGED <<temp, surprises>>
    BY <1>1 DEF ConfigWrite, SetMode, env, bounds
  <2>2. kind[Loop] = "request" => ~Steady'
    BY <1>0, <1>a, <1>b, <2>1 DEF Steady
  <2> QED BY <1>0, <1>a, <2>1, <2>2 DEF ServeInv
<1>2. CASE Boundary \/ ManualMode \/ TempChange \/ PostureChange
  <2>1. surprises' = surprises + 1 /\ rows' = rows
    BY <1>2 DEF Boundary, ManualMode, TempChange, PostureChange, Surprise, db
  <2>2. surprises' # 0
    BY <1>0, <2>1
  <2> QED BY <1>0, <1>a, <2>1, <2>2 DEF ServeInv, Steady
<1>3. CASE HoldExpires \/ ClearHold
  <2>1. UNCHANGED <<rows, revision, desired, temp, surprises, live>>
    BY <1>3 DEF HoldExpires, ClearHold, env, db, bounds
  <2> QED BY <1>0, <1>a, <2>1 DEF ServeInv, Steady, Done, Targets
<1>4. CASE Request
  <2>1. PICK g \in Devices \cup {All} : rows' = Enqueued(g)
    BY <1>4 DEF Request
  <2>2. UNCHANGED <<revision, desired, temp, surprises, live>>
    BY <1>4 DEF Request, env
  <2>3. kind[Loop] = "request" =>
          rows'[req].target = rows[req].target /\ rows'[req].status # "none"
    <3> SUFFICES ASSUME kind[Loop] = "request"
                 PROVE  rows'[req].target = rows[req].target /\ rows'[req].status # "none"
      OBVIOUS
    <3>1. req \in RowIds /\ ~Fresh(req) /\ rows[req].status # "none"
      BY <1>b DEF Fresh
    <3>2. rows'[req] \in {Marked(req, "superseded"), rows[req]}
      BY <2>1, <3>1 DEF Enqueued
    <3> QED BY <3>1, <3>2 DEF Marked
  <2>4. kind[Loop] = "request" => Targets(req)' = Targets(req)
    BY <1>a, <2>3 DEF Targets
  <2>5. kind[Loop] = "request" /\ Done => Done'
    BY <1>a, <2>2, <2>4 DEF Done
  <2> QED BY <1>0, <1>a, <2>2, <2>3, <2>5 DEF ServeInv, Steady
<1> QED BY <1>1, <1>2, <1>3, <1>4 DEF Environment

\* Only finish_reconciliation_request, with the outcome of the request under way,
\* marks a running row as succeeded.
LEMMA SuccessSteps ==
  ASSUME ServeInv, NEW t \in Threads, StepOf(t), NEW i \in RowIds,
         rows[i].status = "running", rows'[i].status = "succeeded"
  PROVE  t = Loop /\ Finish /\ i = req /\ Outcome = "succeeded"
<1>0. rows \in Rows
  BY DEF ServeInv, TypeInv, TypeOK, Rows
<1>1. CASE Boot
  <2>1. rows'[i] = Marked(i, "pending")
    BY <1>1 DEF Boot
  <2> QED BY <2>1 DEF Marked
<1>2. CASE ClaimRequest
  <2>1. PICK k \in Pending : rows' = [rows EXCEPT ![k] = Marked(k, "running")]
    BY <1>2 DEF ClaimRequest
  <2>2. rows'[i] \in {rows[i], Marked(i, "running")}
    BY <1>0, <2>1 DEF Rows
  <2> QED BY <2>2 DEF Marked
<1>3. CASE Requeue
  <2>1. rows'[i] = rows[i]
    BY <1>3 DEF Requeue, Enqueued, Fresh, Pending
  <2> QED BY <2>1
<1>4. CASE Abort
  <2>1. rows'[i] \in {rows[i], Marked(i, "failed")}
    BY <1>0, <1>4 DEF Abort, Rows
  <2> QED BY <2>1 DEF Marked
<1>5. CASE t = Loop /\ Finish
  <2>1. rows'[i] = IF i = req THEN Marked(i, Outcome) ELSE rows[i]
    BY <1>0, <1>5 DEF Finish, Rows
  <2> QED BY <1>5, <2>1 DEF Marked
<1> QED BY <1>1, <1>2, <1>3, <1>4, <1>5, RowSteps

\* A request that succeeds at the current revision left every target with the
\* policy of that revision: it wrote and verified each of them while it owned the
\* cycle lock, and a configuration write meanwhile would have superseded it.
THEOREM SuccessMeansConverged == Spec => SucceededIsConverged
<1>1. Init => ServeInv
  <2> SUFFICES ASSUME Init PROVE ServeInv
    OBVIOUS
  <2>1. kind[Loop] = "none" /\ temp = {}
    BY LabelFacts DEF Init
  <2> QED BY <2>1, TypeInit DEF ServeInv
<1>2. ServeInv /\ [Next]_vars => ServeInv'
  <2> SUFFICES ASSUME ServeInv, [Next]_vars PROVE ServeInv'
    OBVIOUS
  <2>1. ASSUME Crash PROVE ServeInv'
    <3>1. kind'[Loop] = "none" /\ UNCHANGED <<temp, surprises>> /\ TypeInv'
      BY <2>1, CrashTyped, LabelFacts DEF Crash, env, ServeInv
    <3> QED BY <3>1 DEF ServeInv
  <2>2. ASSUME UNCHANGED vars PROVE ServeInv'
    <3>1. TypeInv'
      BY <2>2, StutterTyped DEF ServeInv
    <3>2. UNCHANGED <<rows, revision, desired, temp, surprises, live, kind, pc, todo,
                      failed, req, from>>
      BY <2>2 DEF vars, db, local, bounds, env
    <3> QED BY <3>1, <3>2 DEF ServeInv, Steady, Done, Targets
  <2> QED BY <2>1, <2>2, NextCases, ServeStep, ServeEnvironment
<1>3. ServeInv /\ [Next]_vars
        => [\A i \in RowIds :
              /\ rows[i].status = "running" /\ rows'[i].status = "succeeded"
              /\ fin = revision /\ surprises = 0
              => \A d \in Targets(i) : live[d] = desired[d]]_vars
  <2> SUFFICES ASSUME ServeInv, [Next]_vars, NEW i \in RowIds,
                      rows[i].status = "running", rows'[i].status = "succeeded",
                      fin = revision, surprises = 0
               PROVE  \A d \in Targets(i) : live[d] = desired[d]
    OBVIOUS
  <2>0. rows \in Rows /\ Loop \in Threads
    BY LabelFacts DEF ServeInv, TypeInv, TypeOK, Rows
  <2>1. ASSUME NEW t \in Threads, StepOf(t)
        PROVE  \A d \in Targets(i) : live[d] = desired[d]
    <3>1. Finish /\ i = req /\ Outcome = "succeeded"
      BY <2>1, SuccessSteps
    <3>2. pc[Loop] = "finish" /\ ~failed[Loop] /\ fin = from
      BY <3>1 DEF Finish, Outcome
    <3>3. kind[Loop] = "request" /\ todo[Loop] = {}
      BY <2>0, <3>2 DEF ServeInv, TypeInv, FlowOK, ThreadOK, OfRequest
    <3>4. Done
      BY <3>2, <3>3 DEF ServeInv, Serving, Steady
    <3> QED BY <3>1, <3>3, <3>4 DEF Done
  <2>2. ASSUME Environment PROVE FALSE
    <3>1. CASE Request
      <4>1. rows'[i] = rows[i]
        BY <3>1 DEF Request, Enqueued, Fresh, Pending
      <4> QED BY <4>1
    <3>2. CASE ~Request
      <4>1. rows' = rows
        BY <2>2, <3>2 DEF Environment, ConfigWrite, SetMode, Boundary, ManualMode,
           TempChange, PostureChange, HoldExpires, ClearHold, db
      <4> QED BY <4>1
    <3> QED BY <3>1, <3>2
  <2>3. ASSUME Crash \/ UNCHANGED vars PROVE FALSE
    BY <2>3 DEF Crash, vars, db
  <2> QED BY <2>1, <2>2, <2>3, NextCases
<1> QED BY <1>1, <1>2, <1>3, PTL DEF Spec, SucceededIsConverged

=============================================================================
