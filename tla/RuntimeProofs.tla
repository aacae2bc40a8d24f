--------------------------- MODULE RuntimeProofs ---------------------------
(***************************************************************************)
(* Proofs about the process around the scheduler: what Notification's      *)
(* tables promise they promise too when the heartbeat ends the process at  *)
(* any step of Tick, for every PulseLimit and any number of updates.       *)
(***************************************************************************)
EXTENDS Runtime, NotificationProofs

-----------------------------------------------------------------------------
(* The steps of the process, as the scheduler's tables see them. *)

\* The heartbeat ends the process: the one step that is not Notification's.
Killed == pc # "down" /\ Leave("down") /\ UNCHANGED <<tables, outside>>

LEMMA StepIsKnown == [RuntimeNext]_runtimeVars => [Next]_vars \/ Killed
<1> SUFFICES ASSUME [RuntimeNext]_runtimeVars
             PROVE  [Next]_vars \/ Killed
  OBVIOUS
<1>1. CASE Round
  BY <1>1 DEF Round, Next
<1>2. CASE SendReturns
  BY <1>2 DEF SendReturns, Next
<1>3. CASE Hang
  BY <1>3 DEF Hang
<1>4. CASE Poll
  BY <1>4 DEF Poll, Next
<1>5. CASE Heartbeat
  BY <1>5 DEF Heartbeat, Killed
<1>6. CASE Die
  BY <1>6 DEF Die, Next
<1>7. CASE Main
  BY <1>7 DEF Main, Next
<1>8. CASE Pass
  BY <1>8 DEF Pass, Next
<1>9. CASE UNCHANGED runtimeVars
  BY <1>9 DEF runtimeVars
<1>10. QED
  BY <1>1, <1>2, <1>3, <1>4, <1>5, <1>6, <1>7, <1>8, <1>9 DEF RuntimeNext

LEMMA KilledKeeps ==
    ASSUME IInv, Killed
    PROVE  /\ IInv' /\ Invisible
           /\ InOrder => InOrder'
           /\ RetryBudget => RetryBudget'
<1>1. UNCHANGED <<runs, snapshot, recorded, clock, bound, copies, faults>>
  BY DEF Killed, tables, outside
<1>2. TypeInv'
  <2>1. Leave("down")
    BY DEF Killed
  <2>2. /\ pc' \in PCs
        /\ day' \in Days \union {NoTime} /\ now' \in Times
        /\ listed' \in Digests \union {<<>>} /\ queue' \in SUBSET PartIds
        /\ part' \in PartIds \union {0} /\ attempt' \in 0..SendAttempts
        /\ wake' \in Times
        /\ LocalsTyped'
    BY <2>1, LeaveTypes
  <2>3. QED
    BY <1>1, <2>2 DEF TypeInv, TypeOK, IInv
<1>3. TablesInv'
  BY <1>1 DEF IInv, TablesInv
<1>4. LoopInv'
  BY LeaveLoop DEF Killed
<1>5. Invisible
  BY <1>1 DEF Invisible, Closed
<1>6. (InOrder => InOrder') /\ (RetryBudget => RetryBudget')
  BY <1>1 DEF InOrder, RetryBudget
<1>7. QED
  BY <1>2, <1>3, <1>4, <1>5, <1>6 DEF IInv

LEMMA RuntimeStep ==
    /\ IInv /\ [RuntimeNext]_runtimeVars => IInv'
    /\ IInv /\ InOrder /\ [RuntimeNext]_runtimeVars => InOrder'
    /\ IInv /\ RetryBudget /\ [RuntimeNext]_runtimeVars => RetryBudget'
<1>1. IInv /\ [Next]_vars => IInv'
  BY StepTypes, StepTables, StepLoop DEF IInv
<1>2. QED
  BY <1>1, StepInOrder, StepBudget, StepIsKnown, KilledKeeps

LEMMA RuntimeInvariant == RuntimeSpec => []IInv
BY InitIInv, RuntimeStep, PTL DEF RuntimeSpec, RuntimeInit

-----------------------------------------------------------------------------
(* What the tables promise. *)

\* Whatever ends the process, the heartbeat among it, a run marked sent has a
\* snapshot of which every part was accepted.
THEOREM ProcessDelivers == RuntimeSpec => []SentMeansDelivered
<1>1. IInv => SentMeansDelivered
  BY DEF IInv, TablesInv, NotStarted, SentMeansDelivered
<1>2. QED
  BY RuntimeInvariant, <1>1, PTL

\* The parts reach the chat in order, over every restart by the heartbeat.
THEOREM ProcessKeepsOrder == RuntimeSpec => []InOrder
<1>1. Init => InOrder
  BY DEF Init, InOrder
<1>2. QED
  BY RuntimeInvariant, RuntimeStep, <1>1, PTL DEF RuntimeSpec, RuntimeInit

\* A process that is ended and started again spends no attempt it does not
\* record, and a failed run keeps its retry.
THEOREM ProcessKeepsBudget == RuntimeSpec => []RetryBudget
<1>1. Init => RetryBudget
  BY PolicyAssumption DEF Init, RetryBudget, WithinBudget, NoRun
<1>2. QED
  BY RuntimeInvariant, RuntimeStep, <1>1, PTL DEF RuntimeSpec, RuntimeInit

\* No attempt starts outside its window, however late a process is started.
THEOREM ProcessStaysInWindow == RuntimeSpec => NoAttemptOutsideWindow
<1>1. Killed => [pc # "inflight" /\ pc' = "inflight" => WindowOpen(day)]_vars
  BY DEF Killed, Leave
<1>2. IInv /\ [RuntimeNext]_runtimeVars =>
          [pc # "inflight" /\ pc' = "inflight" => WindowOpen(day)]_vars
  BY <1>1, StepIsKnown, AttemptInWindow
<1>3. QED
  BY RuntimeInvariant, <1>2, PTL DEF RuntimeSpec, NoAttemptOutsideWindow

\* The process as a whole, heartbeat and calls that never return included,
\* implements the contract of the morning digest.
THEOREM ProcessRefinement == RuntimeSpec => ImplementsDelivery
<1>1. Init => Delivery!Init
  BY DEF Init, Delivery!Init, Delivery!PartIds, PartIds, NoRun
<1>2. IInv /\ InOrder /\ [RuntimeNext]_runtimeVars => [Delivery!Next]_(Delivery!vars)
  <2>1. Delivery!PartIds = PartIds /\ Delivery!Digests = Digests
    BY DEF Delivery!PartIds, PartIds, Delivery!Digests, Digests
  <2>2. IInv /\ InOrder /\ [Next]_vars => [Delivery!Next]_(Delivery!vars)
    BY StepRefines, <2>1 DEF Delivery!Next, Delivery!vars, Invisible, Closed
  <2>3. IInv /\ Killed => UNCHANGED Delivery!vars
    BY KilledKeeps DEF Delivery!vars, Invisible, Closed
  <2>4. QED
    BY StepIsKnown, <2>2, <2>3
<1>3. QED
  BY RuntimeInvariant, ProcessKeepsOrder, <1>1, <1>2, PTL
     DEF RuntimeSpec, RuntimeInit, ImplementsDelivery, Delivery!Spec

-----------------------------------------------------------------------------
(* The pulse.  While the process is up it is a time that has been; what a *)
(* silence may already have cost is the time until the last beat, or until *)
(* now if there is no process.                                             *)

PulseInv == pc # "down" => pulse \in Nat /\ pulse <= clock

Spent == IF pc = "down" THEN clock ELSE pulse

\* One copy that no fault explains for each PulseLimit + 1 that are spent.
SilenceInv ==
    \A d \in Days, k \in PartIds : Unexplained(d, k) * (PulseLimit + 1) <= Spent

RInv == IInv /\ PulseInv /\ SilenceInv

LEMMA InitRInv == RuntimeInit => RInv
<1> SUFFICES ASSUME RuntimeInit
             PROVE  RInv
  OBVIOUS
<1>1. IInv
  BY InitIInv DEF RuntimeInit
<1>2. PulseInv
  BY DEF RuntimeInit, Init, PulseInv
<1>3. Spent = 0 /\ \A d \in Days, k \in PartIds : Unexplained(d, k) = 0
  BY DEF RuntimeInit, Init, Spent, Unexplained
<1>4. SilenceInv
  BY <1>3, HeartbeatAssumption DEF SilenceInv
<1>5. QED
  BY <1>1, <1>2, <1>4 DEF RInv

\* No step turns back the time that is spent, or leaves the pulse ahead.
LEMMA TimeIsSpent ==
    ASSUME IInv, PulseInv, [RuntimeNext]_runtimeVars
    PROVE  PulseInv' /\ Spent \in Nat /\ Spent' \in Nat /\ Spent <= Spent'
<1>1. clock \in Nat /\ clock' \in Nat /\ clock <= clock'
  <2>1. clock \in Nat /\ clock' \in Nat
    BY RuntimeStep DEF IInv, TypeInv, TypeOK
  <2>2. clock' = clock \/ clock' = clock + 1
    BY DEF RuntimeNext, runtimeVars, vars, outside, tables, Round, SendReturns, Hang, Poll,
           Heartbeat, Die, Main, Pass, Scheduler, TickStart, TickRetry, Prepare,
           ListItems, SnapshotNotification, LoadParts, NextPart, Attempt, Wake, Fail,
           MarkPartSent, Finish, Reply, Accepted, LostReply, Transient, Permanent,
           Crash, Restart, Advance, Bind
  <2>3. QED
    BY <2>1, <2>2
<1>2. pc # "down" /\ pc' # "down" => pulse' = pulse \/ pulse' = clock
  BY DEF RuntimeNext, runtimeVars, Round, SendReturns, Hang, Poll, Heartbeat, Die, Main,
         Pass, Crash, Leave
<1>3. pc = "down" /\ pc' # "down" => pulse' = clock
  <2> SUFFICES ASSUME pc = "down", pc' # "down"
               PROVE  pulse' = clock
    OBVIOUS
  <2>1. ~Round /\ ~SendReturns
    BY DEF Round, SendReturns, Scheduler, TickStart, TickRetry, Prepare, ListItems,
           SnapshotNotification, LoadParts, NextPart, Attempt, Wake, Fail,
           MarkPartSent, Finish, Reply, Accepted, LostReply, Transient, Permanent
  <2>2. ~Hang /\ ~Poll /\ ~Heartbeat /\ ~Die /\ ~Pass /\ ~UNCHANGED runtimeVars
    BY DEF Hang, Poll, Heartbeat, Die, Pass, Crash, Advance, runtimeVars, vars
  <2>3. QED
    BY <2>1, <2>2 DEF RuntimeNext, Main
<1>4. pc # "down" => pulse \in Nat /\ pulse <= clock
  BY DEF PulseInv
<1>5. pc' # "down" => /\ pulse' \in Nat /\ pulse' <= clock'
                      /\ IF pc = "down" THEN clock <= pulse' ELSE pulse <= pulse'
  BY <1>1, <1>2, <1>3, <1>4
<1>6. PulseInv'
  BY <1>5 DEF PulseInv
<1>7. /\ Spent = IF pc = "down" THEN clock ELSE pulse
      /\ Spent' = IF pc' = "down" THEN clock' ELSE pulse'
  BY DEF Spent
<1>8. Spent \in Nat /\ Spent' \in Nat
  BY <1>1, <1>4, <1>5, <1>7
<1>9. Spent <= Spent'
  <2>1. CASE pc' = "down"
    BY <1>1, <1>4, <1>7, <2>1
  <2>2. CASE pc' # "down" /\ pc = "down"
    BY <1>5, <1>7, <2>2
  <2>3. CASE pc' # "down" /\ pc # "down"
    BY <1>5, <1>7, <2>3
  <2>4. QED
    BY <2>1, <2>2, <2>3
<1>10. QED
  BY <1>6, <1>8, <1>9

LEMMA Scales ==
    ASSUME NEW a \in Int, NEW b \in Int, a <= b, NEW n \in Nat
    PROVE  a * n <= b * n /\ a * n \in Int /\ b * n \in Int
OBVIOUS

LEMMA StepRInv == RInv /\ [RuntimeNext]_runtimeVars => RInv'
<1> SUFFICES ASSUME RInv, [RuntimeNext]_runtimeVars
             PROVE  RInv'
  OBVIOUS
<1> DEFINE n == PulseLimit + 1
<1>1. n \in Nat /\ PulseLimit \in Nat
  BY HeartbeatAssumption
<1>2. /\ IInv /\ PulseInv' /\ IInv'
      /\ Spent \in Nat /\ Spent' \in Nat /\ Spent <= Spent'
  BY TimeIsSpent, RuntimeStep DEF RInv
<1>3. SilenceInv'
  <2> SUFFICES ASSUME NEW d \in Days, NEW k \in PartIds
               PROVE  Unexplained(d, k)' * n <= Spent'
    BY DEF SilenceInv
  <2>1. Unexplained(d, k) * n <= Spent
    BY DEF RInv, SilenceInv
  <2> HIDE DEF n
  <2>2. CASE [Next]_vars
    <3>1. /\ Unexplained(d, k) \in Int /\ Unexplained(d, k)' \in Int
          /\ Unexplained(d, k)' <= Unexplained(d, k)
      BY <1>2, <2>2, NothingUnexplained
    <3>2. /\ Unexplained(d, k)' * n <= Unexplained(d, k) * n
          /\ Unexplained(d, k)' * n \in Int /\ Unexplained(d, k) * n \in Int
      BY <1>1, <3>1, Scales
    <3>3. QED
      BY <1>2, <2>1, <3>2
  <2>3. CASE Heartbeat
    <3>1. /\ pc # "down" /\ PulseIsStale /\ pc' = "down"
          /\ UNCHANGED <<clock, copies, recorded, faults>>
      BY <2>3 DEF Heartbeat, Leave, tables, outside
    <3>2. /\ pulse \in Nat /\ clock \in Nat /\ copies[d][k] \in Nat /\ faults \in Nat
          /\ Spent = pulse /\ Spent' = clock
      BY <3>1 DEF RInv, PulseInv, IInv, TypeInv, TypeOK, Spent
    <3>3. /\ Unexplained(d, k) \in Int /\ Unexplained(d, k)' \in Int
          /\ Unexplained(d, k)' <= Unexplained(d, k) + 1
      BY <3>1, <3>2 DEF Unexplained
    <3>4. pulse + n <= clock
      BY <1>1, <3>1, <3>2 DEF PulseIsStale, n
    <3>5. /\ Unexplained(d, k)' * n <= (Unexplained(d, k) + 1) * n
          /\ Unexplained(d, k)' * n \in Int
      BY <1>1, <3>3, Scales
    <3>6. /\ (Unexplained(d, k) + 1) * n = Unexplained(d, k) * n + n
          /\ Unexplained(d, k) * n \in Int
      BY <1>1, <3>3
    <3>7. QED
      BY <1>1, <2>1, <3>2, <3>4, <3>5, <3>6
  <2>4. QED
    BY <2>2, <2>3 DEF RuntimeNext, runtimeVars, Round, SendReturns, Hang, Poll, Die, Main,
                      Pass, Next
<1>4. QED
  BY <1>2, <1>3 DEF RInv

\* For every PulseLimit: a duplicate that neither a crash nor a lost reply
\* explains takes a silence of its own that is longer than the limit.
THEOREM DuplicatesTakeSilence == RuntimeSpec => []DuplicatesNeedSilence
<1>1. RInv => DuplicatesNeedSilence
  <2> SUFFICES ASSUME RInv, NEW d \in Days, NEW k \in PartIds
               PROVE  Unexplained(d, k) * (PulseLimit + 1) <= clock
    BY DEF DuplicatesNeedSilence
  <2>1. Unexplained(d, k) * (PulseLimit + 1) <= Spent
    BY DEF RInv, SilenceInv
  <2>2. Spent \in Nat /\ clock \in Nat /\ Spent <= clock
    BY DEF RInv, PulseInv, Spent, IInv, TypeInv, TypeOK
  <2>3. Unexplained(d, k) \in Int /\ PulseLimit + 1 \in Nat
    BY HeartbeatAssumption DEF Unexplained, RInv, IInv, TypeInv, TypeOK
  <2>4. Unexplained(d, k) * (PulseLimit + 1) \in Int
    BY <2>3
  <2>5. QED
    BY <2>1, <2>2, <2>4
<1>2. QED
  BY InitRInv, StepRInv, <1>1, PTL DEF RuntimeSpec
=============================================================================
