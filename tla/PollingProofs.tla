---------------------------- MODULE PollingProofs ----------------------------
(* Proofs about Polling for any number of threads, any widths, transports  *)
(* and poll intervals.                                                     *)
EXTENDS Polling, TLAPS

(* The queue starts well typed.                                            *)
LEMMA InitType == Init => TypeOK
<1> SUFFICES ASSUME Init PROVE TypeOK
  OBVIOUS
<1>1. <<transport, seconds>> \in Settings
  <2>1. PICK s \in Settings : transport = s[1] /\ seconds = s[2]
    BY DEF Init
  <2> QED BY <2>1, SettingsAssumption
<1>2. LongAgo \in 0 .. LongAgo
  BY SettingsAssumption
<1>3. reasons \subseteq {"offline"} /\ devices \in 0 .. 2
  BY DEF Init
<1>4. pc \in [Threads -> Steps] /\ live \in [Threads -> Readings]
      /\ old \in [Threads -> Widths \cup {NoTape}]
  BY DEF Init, Steps, Readings
<1> QED
  BY <1>1, <1>2, <1>3, <1>4 DEF Init, TypeOK, Drivers

(* Every variable keeps its type; what is published is a width.            *)
LEMMA TypeStep ==
    ASSUME TypeOK, PublishInv, [Next]_vars
    PROVE  TypeOK'
<1> USE SettingsAssumption, ThreadsAssumption DEF TypeOK, Steps, Readings,
    LadderSteps, Resources, Drivers, config, queue, locals, device, world, history,
    Goto
<1>1. ASSUME NEW t \in Threads, Query(t) PROVE TypeOK'
  BY <1>1 DEF Query, Stamped
<1>2. ASSUME NEW t \in Threads, OpenForJob(t) PROVE TypeOK'
  BY <1>2 DEF OpenForJob, FirstRung
<1>3. ASSUME NEW t \in Threads, CountDevices(t) PROVE TypeOK'
  BY <1>3 DEF CountDevices
<1>4. ASSUME NEW t \in Threads, ReportAbsent(t) PROVE TypeOK'
  BY <1>4 DEF ReportAbsent
<1>5. ASSUME NEW t \in Threads, ForgetRun(t) PROVE TypeOK'
  BY <1>5 DEF ForgetRun, BreakChain
<1>6. ASSUME NEW t \in Threads, OpenForPoll(t) PROVE TypeOK'
  BY <1>6 DEF OpenForPoll, FirstRung
<1>7. ASSUME NEW t \in Threads, Ladder(t) PROVE TypeOK'
  <2>1. UNCHANGED <<config, queue, since, locals, devices, tape, faulty, history>>
    BY <1>7 DEF Ladder
  <2>2. CASE UsbFind(t)
    BY <2>1, <2>2 DEF UsbFind, Acquire
  <2>3. CASE UsbOpen(t)
    BY <2>1, <2>3 DEF UsbOpen, Acquire
  <2>4. CASE UsbDetach(t)
    BY <2>1, <2>4 DEF UsbDetach, Acquire
  <2>5. CASE UsbClaim(t)
    BY <2>1, <2>5 DEF UsbClaim, Acquire
  <2>6. CASE BtConnect(t)
    BY <2>1, <2>6 DEF BtConnect, Acquire
  <2>7. CASE Allocate(t)
    BY <2>1, <2>7 DEF Allocate, Acquire
  <2>8. CASE OpenFails(t)
    BY <2>1, <2>8 DEF OpenFails, AfterFailure, Release, Reattached
  <2> QED
    BY <1>7, <2>2, <2>3, <2>4, <2>5, <2>6, <2>7, <2>8, Zenon DEF Ladder
<1>8. ASSUME NEW t \in Threads, Refused(t) PROVE TypeOK'
  BY <1>8 DEF Refused
<1>9. ASSUME NEW t \in Threads, ReadTape(t) PROVE TypeOK'
  BY <1>9 DEF ReadTape, Release, Reattached, LiveReadings, FirstStep
<1>10. ASSUME NEW t \in Threads, CopyDriverData(t) PROVE TypeOK'
  BY <1>10 DEF CopyDriverData
<1>11. ASSUME NEW t \in Threads, SetReadyMedia(t) PROVE TypeOK'
  BY <1>11 DEF SetReadyMedia, PublishInv
<1>12. ASSUME NEW t \in Threads, EndRun(t) PROVE TypeOK'
  BY <1>12 DEF EndRun, BreakChain, KeepRun
<1>13. ASSUME NEW t \in Threads, SetReasons(t) PROVE TypeOK'
  BY <1>13 DEF SetReasons, ReasonsFor
<1>14. ASSUME NEW t \in Threads, PrintLabels(t) PROVE TypeOK'
  BY <1>14 DEF PrintLabels, KeepRun, PublishInv
<1>15. ASSUME NEW t \in Threads, FinishJob(t) PROVE TypeOK'
  BY <1>15 DEF FinishJob, Release, Reattached
<1>16. CASE Unplug
  <2>1. devices' \in 0 .. 2 /\ kernel' \in Drivers
    BY <1>16 DEF Unplug
  <2>2. conn' \subseteq Resources
    BY <1>16 DEF Unplug
  <2> QED BY <1>16, <2>1, <2>2 DEF Unplug
<1>17. CASE Plug
  <2>1. devices' \in 0 .. 2
    BY <1>17 DEF Plug
  <2> QED BY <1>17, <2>1 DEF Plug
<1>18. CASE SwapTape
  BY <1>18 DEF SwapTape
<1>19. CASE FaultsChange
  BY <1>19 DEF FaultsChange
<1>20. CASE Tick
  BY <1>20 DEF Tick
<1>21. CASE UNCHANGED vars
  BY <1>21 DEF vars
<1> QED
  BY <1>1, <1>2, <1>3, <1>4, <1>5, <1>6, <1>7, <1>8, <1>9, <1>10, <1>11,
     <1>12, <1>13, <1>14, <1>15, <1>16, <1>17, <1>18, <1>19, <1>20, <1>21
     DEF Next, Step

(* Ownership and the steps of the threads go together.                     *)
LEMMA OwnerStep ==
    ASSUME TypeOK, OwnerInv, [Next]_vars
    PROVE  OwnerInv'
<1> USE ThreadsAssumption DEF TypeOK, OwnerInv, OwnedByJob, LadderSteps,
    config, queue, locals, device, world, history, Goto
<1>1. ASSUME NEW t \in Threads, Query(t) PROVE OwnerInv'
  BY <1>1 DEF Query
<1>2. ASSUME NEW t \in Threads, OpenForJob(t) PROVE OwnerInv'
  BY <1>2 DEF OpenForJob, FirstRung
<1>3. ASSUME NEW t \in Threads, CountDevices(t) PROVE OwnerInv'
  BY <1>3 DEF CountDevices
<1>4. ASSUME NEW t \in Threads, ReportAbsent(t) PROVE OwnerInv'
  BY <1>4 DEF ReportAbsent
<1>5. ASSUME NEW t \in Threads, ForgetRun(t) PROVE OwnerInv'
  BY <1>5 DEF ForgetRun, BreakChain
<1>6. ASSUME NEW t \in Threads, OpenForPoll(t) PROVE OwnerInv'
  BY <1>6 DEF OpenForPoll, FirstRung
<1>7. ASSUME NEW t \in Threads, Ladder(t) PROVE OwnerInv'
  BY <1>7 DEF Ladder, UsbFind, UsbOpen, UsbDetach, UsbClaim, BtConnect,
     Allocate, Acquire, OpenFails, AfterFailure, Release, Reattached
<1>8. ASSUME NEW t \in Threads, Refused(t) PROVE OwnerInv'
  BY <1>8 DEF Refused
<1>9. ASSUME NEW t \in Threads, ReadTape(t) PROVE OwnerInv'
  BY <1>9 DEF ReadTape, Release, Reattached, LiveReadings, FirstStep
<1>10. ASSUME NEW t \in Threads, CopyDriverData(t) PROVE OwnerInv'
  BY <1>10 DEF CopyDriverData
<1>11. ASSUME NEW t \in Threads, SetReadyMedia(t) PROVE OwnerInv'
  BY <1>11 DEF SetReadyMedia
<1>12. ASSUME NEW t \in Threads, EndRun(t) PROVE OwnerInv'
  BY <1>12 DEF EndRun, BreakChain, KeepRun
<1>13. ASSUME NEW t \in Threads, SetReasons(t) PROVE OwnerInv'
  BY <1>13 DEF SetReasons, ReasonsFor
<1>14. ASSUME NEW t \in Threads, PrintLabels(t) PROVE OwnerInv'
  BY <1>14 DEF PrintLabels, KeepRun
<1>15. ASSUME NEW t \in Threads, FinishJob(t) PROVE OwnerInv'
  BY <1>15 DEF FinishJob, Release, Reattached
<1>16. CASE Unplug
  BY <1>16 DEF Unplug
<1>17. CASE Plug
  BY <1>17 DEF Plug
<1>18. CASE SwapTape
  BY <1>18 DEF SwapTape
<1>19. CASE FaultsChange
  BY <1>19 DEF FaultsChange
<1>20. CASE Tick
  BY <1>20 DEF Tick
<1>21. CASE UNCHANGED vars
  BY <1>21 DEF vars
<1> QED
  BY <1>1, <1>2, <1>3, <1>4, <1>5, <1>6, <1>7, <1>8, <1>9, <1>10, <1>11,
     <1>12, <1>13, <1>14, <1>15, <1>16, <1>17, <1>18, <1>19, <1>20, <1>21
     DEF Next, Step

(* What is open belongs to the owner.                                      *)
LEMMA ConnStep ==
    ASSUME TypeOK, OwnerInv, ConnInv, [Next]_vars
    PROVE  ConnInv'
<1> USE ThreadsAssumption DEF TypeOK, OwnerInv, ConnInv, OwnedByJob,
    LadderSteps, Stale, config, queue, locals, device, world, history, Goto
<1>1. ASSUME NEW t \in Threads, Query(t) PROVE ConnInv'
  BY <1>1 DEF Query
<1>2. ASSUME NEW t \in Threads, OpenForJob(t) PROVE ConnInv'
  BY <1>2 DEF OpenForJob, FirstRung
<1>3. ASSUME NEW t \in Threads, CountDevices(t) PROVE ConnInv'
  BY <1>3 DEF CountDevices
<1>4. ASSUME NEW t \in Threads, ReportAbsent(t) PROVE ConnInv'
  BY <1>4 DEF ReportAbsent
<1>5. ASSUME NEW t \in Threads, ForgetRun(t) PROVE ConnInv'
  BY <1>5 DEF ForgetRun, BreakChain
<1>6. ASSUME NEW t \in Threads, OpenForPoll(t) PROVE ConnInv'
  BY <1>6 DEF OpenForPoll, FirstRung
<1>7. ASSUME NEW t \in Threads, Ladder(t) PROVE ConnInv'
  BY <1>7 DEF Ladder, UsbFind, UsbOpen, UsbDetach, UsbClaim, BtConnect,
     Allocate, Acquire, OpenFails, AfterFailure, Release, Reattached
<1>8. ASSUME NEW t \in Threads, Refused(t) PROVE ConnInv'
  BY <1>8 DEF Refused
<1>9. ASSUME NEW t \in Threads, ReadTape(t) PROVE ConnInv'
  BY <1>9 DEF ReadTape, Release, Reattached, LiveReadings, FirstStep
<1>10. ASSUME NEW t \in Threads, CopyDriverData(t) PROVE ConnInv'
  BY <1>10 DEF CopyDriverData
<1>11. ASSUME NEW t \in Threads, SetReadyMedia(t) PROVE ConnInv'
  BY <1>11 DEF SetReadyMedia
<1>12. ASSUME NEW t \in Threads, EndRun(t) PROVE ConnInv'
  BY <1>12 DEF EndRun, BreakChain, KeepRun
<1>13. ASSUME NEW t \in Threads, SetReasons(t) PROVE ConnInv'
  BY <1>13 DEF SetReasons, ReasonsFor
<1>14. ASSUME NEW t \in Threads, PrintLabels(t) PROVE ConnInv'
  BY <1>14 DEF PrintLabels, KeepRun
<1>15. ASSUME NEW t \in Threads, FinishJob(t) PROVE ConnInv'
  BY <1>15 DEF FinishJob, Release, Reattached
<1>16. CASE Unplug
  BY <1>16 DEF Unplug
<1>17. CASE Plug
  BY <1>17 DEF Plug
<1>18. CASE SwapTape
  BY <1>18 DEF SwapTape
<1>19. CASE FaultsChange
  BY <1>19 DEF FaultsChange
<1>20. CASE Tick
  BY <1>20 DEF Tick
<1>21. CASE UNCHANGED vars
  BY <1>21 DEF vars
<1> QED
  BY <1>1, <1>2, <1>3, <1>4, <1>5, <1>6, <1>7, <1>8, <1>9, <1>10, <1>11,
     <1>12, <1>13, <1>14, <1>15, <1>16, <1>17, <1>18, <1>19, <1>20, <1>21
     DEF Next, Step

(* Two publications and an opening cannot cross unnoticed.                 *)
LEMMA PublishStep ==
    ASSUME TypeOK, PublishInv, [Next]_vars
    PROVE  PublishInv'
<1> USE WidthsAssumption DEF TypeOK, PublishInv, Noticed, Changed,
    LadderSteps, config, queue, locals, device, world, history, Goto
<1>1. ASSUME NEW t \in Threads, Query(t) PROVE PublishInv'
  BY <1>1 DEF Query
<1>2. ASSUME NEW t \in Threads, OpenForJob(t) PROVE PublishInv'
  BY <1>2 DEF OpenForJob, FirstRung
<1>3. ASSUME NEW t \in Threads, CountDevices(t) PROVE PublishInv'
  BY <1>3 DEF CountDevices
<1>4. ASSUME NEW t \in Threads, ReportAbsent(t) PROVE PublishInv'
  BY <1>4 DEF ReportAbsent
<1>5. ASSUME NEW t \in Threads, ForgetRun(t) PROVE PublishInv'
  BY <1>5 DEF ForgetRun, BreakChain
<1>6. ASSUME NEW t \in Threads, OpenForPoll(t) PROVE PublishInv'
  BY <1>6 DEF OpenForPoll, FirstRung
<1>7. ASSUME NEW t \in Threads, Ladder(t) PROVE PublishInv'
  BY <1>7 DEF Ladder, UsbFind, UsbOpen, UsbDetach, UsbClaim, BtConnect,
     Allocate, Acquire, OpenFails, AfterFailure, Release, Reattached
<1>8. ASSUME NEW t \in Threads, Refused(t) PROVE PublishInv'
  BY <1>8 DEF Refused
<1>9. ASSUME NEW t \in Threads, ReadTape(t) PROVE PublishInv'
  BY <1>9 DEF ReadTape, Release, Reattached, LiveReadings, FirstStep
<1>10. ASSUME NEW t \in Threads, CopyDriverData(t) PROVE PublishInv'
  BY <1>10 DEF CopyDriverData
<1>11. ASSUME NEW t \in Threads, SetReadyMedia(t) PROVE PublishInv'
  BY <1>11 DEF SetReadyMedia
<1>12. ASSUME NEW t \in Threads, EndRun(t) PROVE PublishInv'
  BY <1>12 DEF EndRun, BreakChain, KeepRun
<1>13. ASSUME NEW t \in Threads, SetReasons(t) PROVE PublishInv'
  BY <1>13 DEF SetReasons, ReasonsFor
<1>14. ASSUME NEW t \in Threads, PrintLabels(t) PROVE PublishInv'
  BY <1>14 DEF PrintLabels, KeepRun, Crossing
<1>15. ASSUME NEW t \in Threads, FinishJob(t) PROVE PublishInv'
  BY <1>15 DEF FinishJob, Release, Reattached
<1>16. CASE Unplug
  BY <1>16 DEF Unplug
<1>17. CASE Plug
  BY <1>17 DEF Plug
<1>18. CASE SwapTape
  BY <1>18 DEF SwapTape
<1>19. CASE FaultsChange
  BY <1>19 DEF FaultsChange
<1>20. CASE Tick
  BY <1>20 DEF Tick
<1>21. CASE UNCHANGED vars
  BY <1>21 DEF vars
<1> QED
  BY <1>1, <1>2, <1>3, <1>4, <1>5, <1>6, <1>7, <1>8, <1>9, <1>10, <1>11,
     <1>12, <1>13, <1>14, <1>15, <1>16, <1>17, <1>18, <1>19, <1>20, <1>21
     DEF Next, Step

(* The slot is as old as the last poll.                                    *)
LEMMA SlotStep ==
    ASSUME SlotInv, [Next]_vars
    PROVE  SlotInv'
<1> USE DEF SlotInv, config, queue, locals, device, world, history, Goto
<1>1. ASSUME NEW t \in Threads, Query(t) PROVE SlotInv'
  BY <1>1 DEF Query, Stamped
<1>2. ASSUME NEW t \in Threads, OpenForJob(t) PROVE SlotInv'
  BY <1>2 DEF OpenForJob, FirstRung
<1>3. ASSUME NEW t \in Threads, CountDevices(t) PROVE SlotInv'
  BY <1>3 DEF CountDevices
<1>4. ASSUME NEW t \in Threads, ReportAbsent(t) PROVE SlotInv'
  BY <1>4 DEF ReportAbsent
<1>5. ASSUME NEW t \in Threads, ForgetRun(t) PROVE SlotInv'
  BY <1>5 DEF ForgetRun, BreakChain
<1>6. ASSUME NEW t \in Threads, OpenForPoll(t) PROVE SlotInv'
  BY <1>6 DEF OpenForPoll, FirstRung
<1>7. ASSUME NEW t \in Threads, Ladder(t) PROVE SlotInv'
  BY <1>7 DEF Ladder, UsbFind, UsbOpen, UsbDetach, UsbClaim, BtConnect,
     Allocate, Acquire, OpenFails, AfterFailure, Release, Reattached
<1>8. ASSUME NEW t \in Threads, Refused(t) PROVE SlotInv'
  BY <1>8 DEF Refused
<1>9. ASSUME NEW t \in Threads, ReadTape(t) PROVE SlotInv'
  BY <1>9 DEF ReadTape, Release, Reattached, LiveReadings, FirstStep
<1>10. ASSUME NEW t \in Threads, CopyDriverData(t) PROVE SlotInv'
  BY <1>10 DEF CopyDriverData
<1>11. ASSUME NEW t \in Threads, SetReadyMedia(t) PROVE SlotInv'
  BY <1>11 DEF SetReadyMedia
<1>12. ASSUME NEW t \in Threads, EndRun(t) PROVE SlotInv'
  BY <1>12 DEF EndRun, BreakChain, KeepRun
<1>13. ASSUME NEW t \in Threads, SetReasons(t) PROVE SlotInv'
  BY <1>13 DEF SetReasons, ReasonsFor
<1>14. ASSUME NEW t \in Threads, PrintLabels(t) PROVE SlotInv'
  BY <1>14 DEF PrintLabels, KeepRun
<1>15. ASSUME NEW t \in Threads, FinishJob(t) PROVE SlotInv'
  BY <1>15 DEF FinishJob, Release, Reattached
<1>16. CASE Unplug
  BY <1>16 DEF Unplug
<1>17. CASE Plug
  BY <1>17 DEF Plug
<1>18. CASE SwapTape
  BY <1>18 DEF SwapTape
<1>19. CASE FaultsChange
  BY <1>19 DEF FaultsChange
<1>20. CASE Tick
  BY <1>20 DEF Tick
<1>21. CASE UNCHANGED vars
  BY <1>21 DEF vars
<1> QED
  BY <1>1, <1>2, <1>3, <1>4, <1>5, <1>6, <1>7, <1>8, <1>9, <1>10, <1>11,
     <1>12, <1>13, <1>14, <1>15, <1>16, <1>17, <1>18, <1>19, <1>20, <1>21
     DEF Next, Step

(* Every variable keeps its type.                                          *)
THEOREM TypeCorrect == Spec => []TypeOK
<1>1. Init => PublishInv
  BY DEF Init, PublishInv
<1> QED
  BY <1>1, InitType, TypeStep, PublishStep, PTL DEF Spec

(* Whatever fails or is unplugged at whatever rung, a device nobody owns   *)
(* has nothing open, and the driver taken from it is attached again unless *)
(* the kernel refused just that.                                           *)
THEOREM NothingLeftOpen == Spec => []Restored
<1>1. Init => OwnerInv /\ ConnInv
  BY ThreadsAssumption DEF Init, OwnerInv, ConnInv, OwnedByJob, LadderSteps
<1>2. TypeOK /\ ConnInv => Restored
  BY DEF TypeOK, ConnInv, Restored
<1> QED
  BY <1>1, <1>2, OwnerStep, ConnStep, TypeCorrect, PTL DEF Spec

(* No swap that a reading shows is missed under an open run.               *)
THEOREM NoSwapMissed == Spec => []OpenRunIsPublished
<1>1. Init => PublishInv
  BY DEF Init, PublishInv
<1>2. PublishInv => OpenRunIsPublished
  BY DEF PublishInv, Noticed, OpenRunIsPublished
<1> QED
  BY <1>1, <1>2, PublishStep, TypeCorrect, PTL DEF Spec

(* Polls keep their distance, and with 0 there is none.                    *)
THEOREM SlotKept == Spec => PollsSpaced
<1>1. Init => SlotInv
  BY DEF Init, SlotInv
<1>2. TypeOK /\ SlotInv /\ [Next]_vars =>
        [\A t \in Threads : pc[t] = "idle" /\ pc'[t] \in {"count", "try"}
            => seconds # 0 /\ age >= seconds]_vars
  <2> SUFFICES ASSUME TypeOK, SlotInv, Next, NEW t \in Threads,
                      pc[t] = "idle", pc'[t] \in {"count", "try"}
               PROVE  seconds # 0 /\ age >= seconds
    OBVIOUS
  <2>1. Query(t)
    <3>1. PICK u \in Threads : Query(u) \/ OpenForJob(u) \/ Step(u)
      BY DEF Next, Unplug, Plug, SwapTape, FaultsChange, Tick
    <3>2. pc'[t] # pc[t]
      OBVIOUS
    <3>3. CASE Query(u)
      BY <3>2, <3>3 DEF Query, Goto, TypeOK
    <3>4. CASE OpenForJob(u)
      BY <3>2, <3>4 DEF OpenForJob, Goto, FirstRung, TypeOK
    <3>5. CASE Step(u)
      BY <3>2, <3>5
         DEF Step, CountDevices, ReportAbsent, ForgetRun, OpenForPoll, Ladder,
             UsbFind, UsbOpen, UsbDetach, UsbClaim, BtConnect, Allocate,
             Acquire, OpenFails, AfterFailure, Refused, ReadTape, CopyDriverData, SetReadyMedia,
             EndRun, SetReasons, PrintLabels, FinishJob, Goto, LadderSteps,
             TypeOK
    <3> QED BY <3>1, <3>3, <3>4, <3>5
  <2>2. seconds \in Int /\ age \in Nat
    BY SettingsAssumption DEF TypeOK
  <2> QED BY <2>1, <2>2 DEF Query, Due, SlotInv, TypeOK
<1> QED
  BY <1>1, <1>2, SlotStep, TypeCorrect, PTL DEF Spec, PollsSpaced

==============================================================================
