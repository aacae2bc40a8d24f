------------------------- MODULE NotificationProofs -------------------------
(***************************************************************************)
(* Proofs about Notification, for every calendar, policy, set of items and *)
(* number of faults.                                                       *)
(***************************************************************************)
EXTENDS Notification, TLAPS

-----------------------------------------------------------------------------
(* Lemmas about the operators. *)

\* A digest is a function on an initial segment of PartIds, never empty.
LEMMA DigestDomain ==
    ASSUME NEW p \in Digests
    PROVE  /\ DOMAIN p # {}
           /\ DOMAIN p \subseteq PartIds
           /\ \A k \in DOMAIN p : \A j \in PartIds : j < k => j \in DOMAIN p
           /\ p # <<>>
<1>1. PICK n \in PartIds : p \in [1..n -> SUBSET Items]
  BY DEF Digests
<1>2. DOMAIN p = 1..n
  BY <1>1
<1>3. n \in Nat /\ 1 <= n /\ n <= Limit /\ Limit \in Nat
  BY <1>1, PolicyAssumption DEF PartIds
<1>4. 1 \in DOMAIN p
  BY <1>2, <1>3
<1>5. p # <<>>
  BY <1>4
<1>6. QED
  BY <1>2, <1>3, <1>4, <1>5 DEF PartIds

\* Inserting into an empty table yields the new rows.
LEMMA InsertIntoEmpty ==
    ASSUME NEW p \in Digests
    PROVE  InsertOrIgnore(<<>>, p) = p
<1>1. PICK n \in PartIds : p \in [1..n -> SUBSET Items]
  BY DEF Digests
<1>2. DOMAIN <<>> = {}
  OBVIOUS
<1>3. InsertOrIgnore(<<>>, p) = [k \in DOMAIN p |-> p[k]]
  BY <1>2, Zenon DEF InsertOrIgnore
<1>4. QED
  BY <1>1, <1>3

\* Every statement on notification_runs leaves a well-formed row.
LEMMA RowTypes ==
    ASSUME NEW run \in Run, NEW t \in Nat
    PROVE  /\ Failed(run, t) \in Run
           /\ RecoverStale(run, t) \in Run
           /\ RetryFailed(run, t) \in Run
           /\ FailRun(run, t) \in Run
           /\ MarkSent(run, t) \in Run
           /\ EnsureRun(run, t) \in Run
           /\ BeginSending(run, t) \in Run
<1>1. Failed(run, t) \in Run
  BY PolicyAssumption DEF Failed, Run, Statuses, Times
<1>2. RecoverStale(run, t) \in Run /\ FailRun(run, t) \in Run
  BY <1>1 DEF RecoverStale, FailRun
<1>3. RetryFailed(run, t) \in Run
  BY DEF RetryFailed, Run, Statuses, Times
<1>4. MarkSent(run, t) \in Run
  BY DEF MarkSent, Run, Statuses, Times
<1>5. EnsureRun(run, t) \in Run
  BY DEF EnsureRun, Run, Statuses, Times
<1>6. BeginSending(run, t) \in Run
  BY DEF BeginSending, Run, Statuses, Times
<1>7. QED
  BY <1>1, <1>2, <1>3, <1>4, <1>5, <1>6

\* The bounds of a window are numbers.
LEMMA WindowTypes ==
    ASSUME NEW d \in Days
    PROVE  Opens(d) \in Nat /\ Closes(d) \in Nat
  BY CalendarAssumption DEF Opens, Closes, Midnight

-----------------------------------------------------------------------------
(* Type correctness.  Which date and time Tick holds depends on pc. *)

TickHoldsADate == pc \notin {"idle", "down"} => day \in Days /\ now \in Nat

LocalsTyped ==
    /\ TickHoldsADate
    /\ pc \in {"list", "snapshot"} => snapshot[day] = <<>>
    /\ pc = "snapshot" => listed \in Digests
    /\ pc \in {"attempt", "inflight", "sleep", "mark"} => part \in PartIds
    /\ pc \in {"attempt", "inflight", "sleep", "mark"} => attempt < SendAttempts
    /\ pc = "sleep" => wake \in Nat

TypeInv == TypeOK /\ LocalsTyped

LEMMA InitTypes == Init => TypeInv
  BY PolicyAssumption
     DEF Init, TypeInv, TypeOK, LocalsTyped, TickHoldsADate, PCs, NoRun, Run,
         Statuses, Times, PartIds

LEMMA LeaveTypes ==
    ASSUME NEW where \in {"idle", "down"}, Leave(where)
    PROVE  /\ pc' \in PCs
           /\ day' \in Days \union {NoTime} /\ now' \in Times
           /\ listed' \in Digests \union {<<>>} /\ queue' \in SUBSET PartIds
           /\ part' \in PartIds \union {0} /\ attempt' \in 0..SendAttempts
           /\ wake' \in Times
           /\ LocalsTyped'
  BY PolicyAssumption
     DEF Leave, PCs, Times, LocalsTyped, TickHoldsADate

LEMMA StepTypes == TypeInv /\ [Next]_vars => TypeInv'
<1> SUFFICES ASSUME TypeInv, [Next]_vars PROVE TypeInv'
  OBVIOUS
<1> USE DEF TypeInv
<1> SUFFICES TypeOK' /\ LocalsTyped'
  OBVIOUS
<1>k. PolicyAssumption /\ CalendarAssumption
  BY PolicyAssumption, CalendarAssumption
<1>1. CASE TickStart
  <2>1. clock \in Nat /\ \A d \in Days : RecoverStale(runs[d], clock) \in Run
    BY RowTypes DEF TypeOK
  <2>2. runs' \in [Days -> Run]
    BY <1>1, <2>1 DEF TickStart
  <2>3. day' \in Days /\ now' \in Nat /\ pc' = "retry"
    BY <1>1, <2>1 DEF TickStart
  <2>4. QED
    BY <1>1, <2>2, <2>3
       DEF TickStart, outside, TypeOK, LocalsTyped, TickHoldsADate, PCs, Times
<1>2. CASE TickRetry
  <2>1. day \in Days /\ now \in Nat
    BY <1>2 DEF TickRetry, LocalsTyped, TickHoldsADate
  <2>2. RetryFailed(runs[day], now) \in Run
    BY <2>1, RowTypes DEF TypeOK
  <2>3. runs' \in [Days -> Run]
    BY <1>2, <2>2 DEF TickRetry, TypeOK
  <2>4. CASE Goto("prepare")
    BY <1>2, <2>1, <2>3, <2>4
       DEF TickRetry, Goto, locals, outside, TypeOK, LocalsTyped, TickHoldsADate, PCs
  <2>5. CASE Leave("idle")
    BY <1>2, <2>3, <2>5, LeaveTypes DEF TickRetry, outside, TypeOK
  <2>6. QED
    BY <1>2, <2>4, <2>5 DEF TickRetry
<1>3. CASE Prepare
  <2>1. day \in Days /\ now \in Nat
    BY <1>3 DEF Prepare, LocalsTyped, TickHoldsADate
  <2>2. EnsureRun(runs[day], now) \in Run
    BY <2>1, RowTypes DEF TypeOK
  <2>3. runs' \in [Days -> Run]
    BY <1>3, <2>2 DEF Prepare, TypeOK
  <2>4. CASE runs[day].status = "sent"
    BY <1>3, <2>3, <2>4, LeaveTypes DEF Prepare, outside, TypeOK
  <2>5. CASE runs[day].status # "sent"
    <3>1. /\ pc' = IF snapshot[day] = <<>> THEN "list" ELSE "load"
          /\ UNCHANGED <<locals, outside, snapshot, recorded>>
      BY <1>3, <2>5 DEF Prepare, Goto
    <3>2. pc' \in {"list", "load"} /\ (pc' = "list" => snapshot[day] = <<>>)
      BY <3>1
    <3>3. QED
      BY <2>1, <2>3, <3>1, <3>2
         DEF locals, outside, TypeOK, LocalsTyped, TickHoldsADate, PCs
  <2>6. QED
    BY <2>4, <2>5
<1>4. CASE ListItems
  <2>1. listed' \in Digests
    BY <1>4 DEF ListItems, Renderings
  <2>2. QED
    BY <1>4, <2>1
       DEF ListItems, tables, outside, TypeOK, LocalsTyped, TickHoldsADate, PCs
<1>5. CASE SnapshotNotification
  <2>1. day \in Days /\ now \in Nat /\ listed \in Digests /\ snapshot[day] = <<>>
    BY <1>5 DEF SnapshotNotification, LocalsTyped, TickHoldsADate
  <2>2. runs' \in [Days -> Run]
    <3>1. BeginSending(runs[day], now) \in Run
      BY <2>1, RowTypes DEF TypeOK
    <3>2. QED
      BY <1>5, <2>1, <3>1 DEF SnapshotNotification, TypeOK
  <2>3. snapshot' \in [Days -> Digests \union {<<>>}]
    <3>1. InsertOrIgnore(snapshot[day], listed) \in Digests
      BY <2>1, InsertIntoEmpty
    <3>2. QED
      BY <1>5, <2>1, <3>1 DEF SnapshotNotification, TypeOK
  <2>4. QED
    BY <1>5, <2>1, <2>2, <2>3
       DEF SnapshotNotification, Goto, locals, outside, TypeOK, LocalsTyped,
           TickHoldsADate, PCs
<1>6. CASE LoadParts
  <2>1. Pending(day) \in SUBSET PartIds
    BY <1>6, DigestDomain
       DEF LoadParts, Pending, TypeOK, LocalsTyped, TickHoldsADate
  <2>2. QED
    BY <1>6, <2>1
       DEF LoadParts, tables, outside, TypeOK, LocalsTyped, TickHoldsADate, PCs
<1>7. CASE NextPart
  <2>1. CASE clock < Closes(day)
    <3>1. part' \in PartIds /\ attempt' = 0 /\ pc' = "attempt"
      BY <1>7, <2>1 DEF NextPart, TypeOK
    <3>2. QED
      BY <1>k, <1>7, <2>1, <3>1
         DEF NextPart, tables, outside, TypeOK, LocalsTyped, TickHoldsADate, PCs
  <2>2. CASE ~(clock < Closes(day))
    BY <1>7, <2>2, LeaveTypes DEF NextPart, tables, outside, TypeOK
  <2>3. QED
    BY <2>1, <2>2
<1>8. CASE Attempt
  BY <1>8
     DEF Attempt, Goto, locals, tables, outside, TypeOK, LocalsTyped,
         TickHoldsADate, PCs
<1>9. CASE Accepted
  BY <1>9
     DEF Accepted, AcceptCopy, Goto, locals, tables, TypeOK, LocalsTyped,
         TickHoldsADate, PCs
<1>10. ASSUME NEW d \in Delays, Backoff(d), pc = "inflight"
       PROVE  /\ pc' \in {"fail", "sleep"}
              /\ UNCHANGED <<day, now, listed, queue, part, attempt>>
              /\ wake' \in Times
              /\ pc' = "sleep" => wake' \in Nat
  BY <1>k, <1>10 DEF Backoff, Goto, locals, TypeOK, Times
<1>11. CASE LostReply
  <2>1. PICK d \in Delays : Backoff(d)
    BY <1>11 DEF LostReply
  <2>2. copies' \in [Days -> [PartIds -> Nat]]
    BY <1>11 DEF LostReply, AcceptCopy, TypeOK, LocalsTyped, TickHoldsADate
  <2>3. faults' \in Nat /\ pc = "inflight" /\ UNCHANGED <<tables, clock, bound>>
    BY <1>11 DEF LostReply, TypeOK
  <2>4. /\ pc' \in {"fail", "sleep"}
        /\ UNCHANGED <<day, now, listed, queue, part, attempt>>
        /\ wake' \in Times
        /\ pc' = "sleep" => wake' \in Nat
    BY <1>10, <2>1, <2>3
  <2>5. QED
    BY <2>2, <2>3, <2>4 DEF tables, TypeOK, LocalsTyped, TickHoldsADate, PCs
<1>12. CASE Transient
  <2>1. PICK d \in Delays : Backoff(d)
    BY <1>12 DEF Transient
  <2>2. QED
    BY <1>10, <1>12, <2>1
       DEF Transient, tables, outside, TypeOK, LocalsTyped, TickHoldsADate, PCs
<1>13. CASE Permanent
  BY <1>13
     DEF Permanent, Goto, locals, tables, outside, TypeOK, LocalsTyped,
         TickHoldsADate, PCs
<1>14. CASE Wake
  BY <1>k, <1>14
     DEF Wake, tables, outside, TypeOK, LocalsTyped, TickHoldsADate, PCs, Times
<1>15. CASE Fail
  <2>1. day \in Days /\ clock \in Nat
    BY <1>15 DEF Fail, TypeOK, LocalsTyped, TickHoldsADate
  <2>2. FailRun(runs[day], clock) \in Run
    BY <2>1, RowTypes DEF TypeOK
  <2>3. QED
    BY <1>15, <2>2, LeaveTypes DEF Fail, outside, TypeOK
<1>16. CASE MarkPartSent
  <2>1. CASE part \in Pending(day)
    <3>1. recorded' \in [Days -> SUBSET PartIds]
      BY <1>16, <2>1 DEF MarkPartSent, TypeOK, LocalsTyped, TickHoldsADate
    <3>2. queue' \in SUBSET PartIds
      BY <1>16, <2>1 DEF MarkPartSent, TypeOK
    <3>3. QED
      BY <1>16, <2>1, <3>1, <3>2
         DEF MarkPartSent, outside, TypeOK, LocalsTyped, TickHoldsADate, PCs
  <2>2. CASE part \notin Pending(day)
    BY <1>16, <2>2, LeaveTypes DEF MarkPartSent, outside, TypeOK
  <2>3. QED
    BY <2>1, <2>2
<1>17. CASE Finish
  <2>1. day \in Days /\ clock \in Nat
    BY <1>17 DEF Finish, TypeOK, LocalsTyped, TickHoldsADate
  <2>2. MarkSent(runs[day], clock) \in Run
    BY <2>1, RowTypes DEF TypeOK
  <2>3. QED
    BY <1>17, <2>2, LeaveTypes DEF Finish, outside, TypeOK
<1>18. CASE Crash
  BY <1>18, LeaveTypes DEF Crash, tables, TypeOK
<1>19. CASE Restart
  BY <1>19
     DEF Restart, Goto, locals, tables, outside, TypeOK, LocalsTyped,
         TickHoldsADate, PCs
<1>20. CASE Advance
  BY <1>20
     DEF Advance, locals, tables, TypeOK, LocalsTyped, TickHoldsADate
<1>21. CASE Bind
  BY <1>21 DEF Bind, locals, tables, TypeOK, LocalsTyped, TickHoldsADate
<1>22. CASE UNCHANGED vars
  BY <1>22
     DEF vars, locals, tables, outside, TypeOK, LocalsTyped, TickHoldsADate
<1>23. QED
  BY <1>1, <1>2, <1>3, <1>4, <1>5, <1>6, <1>7, <1>8, <1>9, <1>11, <1>12, <1>13,
     <1>14, <1>15, <1>16, <1>17, <1>18, <1>19, <1>20, <1>21, <1>22
     DEF Next, Scheduler, Reply

\* Rows and local variables are well typed in every reachable state, and
\* sendFuncWithRetry never counts past SendAttempts.
THEOREM TypeCorrect == Spec => []TypeOK
<1>1. TypeInv => TypeOK
  BY DEF TypeInv
<1>2. QED
  BY InitTypes, StepTypes, <1>1, PTL DEF Spec

-----------------------------------------------------------------------------
(* The inductive invariant.  TablesInv relates the rows of a date to each *)
(* other and to the chat at every step; LoopInv says what Tick's local    *)
(* variables know of the rows, which is why no statement of Tick has to   *)
(* look twice.                                                            *)

NotStarted(run) == run.status \in {"none", "pending"}

TablesInv ==
    \A d \in Days :
        /\ snapshot[d] = <<>> <=> NotStarted(runs[d])
        /\ recorded[d] \subseteq DOMAIN snapshot[d]
        /\ runs[d].status = "sent" => DOMAIN snapshot[d] \subseteq recorded[d]
        /\ \A k \in recorded[d] : copies[d][k] > 0

Sending == {"attempt", "inflight", "sleep", "mark"}

LoopInv ==
    /\ pc \notin {"idle", "down"} => now <= clock
    /\ pc \notin {"idle", "down", "retry"} => Opens(day) <= now
    /\ pc \in {"list", "snapshot"} => runs[day].status = "pending"
    /\ pc \in Sending \union {"load", "loop", "fail"} => snapshot[day] # <<>>
    /\ pc \in Sending \union {"loop"} => queue = Pending(day)
    /\ pc \in Sending => part \in queue /\ \A j \in queue : part <= j
    /\ pc = "mark" => copies[day][part] > 0

IInv == TypeInv /\ TablesInv /\ LoopInv

\* Which statements keep a run not started, or sent, as it was.
KeepsPhase(run, new) ==
    /\ NotStarted(new) <=> NotStarted(run)
    /\ new.status = "sent" <=> run.status = "sent"

LEMMA RowPhases ==
    ASSUME NEW run \in Run, NEW t \in Nat
    PROVE  /\ KeepsPhase(run, RecoverStale(run, t))
           /\ KeepsPhase(run, RetryFailed(run, t))
           /\ KeepsPhase(run, EnsureRun(run, t))
           /\ ~NotStarted(run) => KeepsPhase(run, FailRun(run, t))
           /\ ~NotStarted(run) => ~NotStarted(MarkSent(run, t))
           /\ NotStarted(run) => EnsureRun(run, t).status = "pending"
           /\ BeginSending(run, t).status = "sending"
<1>1. KeepsPhase(run, RecoverStale(run, t))
  BY DEF KeepsPhase, NotStarted, RecoverStale, Failed, Run
<1>2. KeepsPhase(run, RetryFailed(run, t))
  BY DEF KeepsPhase, NotStarted, RetryFailed, Run
<1>3. KeepsPhase(run, EnsureRun(run, t))
  BY DEF KeepsPhase, NotStarted, EnsureRun, Run
<1>4. ~NotStarted(run) => KeepsPhase(run, FailRun(run, t))
  BY DEF KeepsPhase, NotStarted, FailRun, Failed, Run
<1>5. ~NotStarted(run) => ~NotStarted(MarkSent(run, t))
  BY DEF NotStarted, MarkSent, Run
<1>6. NotStarted(run) => EnsureRun(run, t).status = "pending"
  BY DEF NotStarted, EnsureRun, Run
<1>7. BeginSending(run, t).status = "sending"
  BY DEF BeginSending, Run
<1>8. QED
  BY <1>1, <1>2, <1>3, <1>4, <1>5, <1>6, <1>7

\* A step that moves rows but keeps their phases keeps TablesInv.
LEMMA PhasesKeepTables ==
    ASSUME TablesInv, UNCHANGED <<snapshot, recorded, copies>>,
           \A d \in Days : KeepsPhase(runs[d], runs'[d])
    PROVE  TablesInv'
  BY DEF TablesInv, KeepsPhase

LEMMA InitIInv == Init => IInv
<1> SUFFICES ASSUME Init PROVE TablesInv /\ LoopInv
  BY InitTypes DEF IInv
<1>1. TablesInv
  BY DEF Init, TablesInv, NotStarted, NoRun
<1>2. LoopInv
  BY DEF Init, LoopInv, Sending
<1>3. QED
  BY <1>1, <1>2

LEMMA StepTables == IInv /\ [Next]_vars => TablesInv'
<1> SUFFICES ASSUME IInv, [Next]_vars PROVE TablesInv'
  OBVIOUS
<1> USE DEF IInv, TypeInv
<1>d. pc \notin {"idle", "down"} => day \in Days /\ now \in Nat
  BY DEF LocalsTyped, TickHoldsADate
<1>r. clock \in Nat /\ \A d \in Days : runs[d] \in Run
  BY DEF TypeOK
<1>1. CASE TickStart
  BY <1>1, <1>r, RowPhases, PhasesKeepTables DEF TickStart, outside
<1>2. CASE TickRetry
  <2>1. KeepsPhase(runs[day], RetryFailed(runs[day], now))
    BY <1>2, <1>d, <1>r, RowPhases DEF TickRetry
  <2>2. \A d \in Days : KeepsPhase(runs[d], runs'[d])
    BY <1>2, <2>1 DEF TickRetry, TypeOK, KeepsPhase
  <2>3. QED
    BY <1>2, <2>2, PhasesKeepTables DEF TickRetry, outside
<1>3. CASE Prepare
  <2>1. KeepsPhase(runs[day], EnsureRun(runs[day], now))
    BY <1>3, <1>d, <1>r, RowPhases DEF Prepare
  <2>2. \A d \in Days : KeepsPhase(runs[d], runs'[d])
    BY <1>3, <2>1 DEF Prepare, TypeOK, KeepsPhase
  <2>3. QED
    BY <1>3, <2>2, PhasesKeepTables DEF Prepare, outside
<1>5. CASE SnapshotNotification
  <2>1. /\ day \in Days /\ now \in Nat /\ listed \in Digests
        /\ snapshot[day] = <<>> /\ runs[day].status = "pending"
    BY <1>5, <1>d DEF SnapshotNotification, LocalsTyped, LoopInv
  <2>2. /\ snapshot' = [snapshot EXCEPT ![day] = listed]
        /\ runs' = [runs EXCEPT ![day] = BeginSending(@, now)]
        /\ UNCHANGED <<recorded, copies>>
    BY <1>5, <2>1, InsertIntoEmpty DEF SnapshotNotification, outside
  <2>3. BeginSending(runs[day], now).status = "sending"
    BY <2>1, <1>r, RowPhases
  <2>4. listed # <<>> /\ recorded[day] = {}
    BY <2>1, DigestDomain DEF TablesInv
  <2>5. QED
    BY <2>1, <2>2, <2>3, <2>4 DEF TypeOK, TablesInv, NotStarted
<1>9. CASE Accepted \/ LostReply
  <2>1. /\ day \in Days /\ part \in PartIds
        /\ copies' = [copies EXCEPT ![day][part] = @ + 1]
        /\ UNCHANGED tables
    BY <1>9, <1>d DEF Accepted, LostReply, AcceptCopy, LocalsTyped
  <2>2. \A d \in Days, k \in PartIds : copies[d][k] > 0 => copies'[d][k] > 0
    BY <2>1 DEF TypeOK
  <2>3. QED
    BY <2>1, <2>2 DEF TypeOK, TablesInv, tables
<1>15. CASE Fail
  <2>1. day \in Days /\ ~NotStarted(runs[day])
    BY <1>15, <1>d DEF Fail, LoopInv, TablesInv
  <2>2. KeepsPhase(runs[day], FailRun(runs[day], clock))
    BY <2>1, <1>r, RowPhases
  <2>3. \A d \in Days : KeepsPhase(runs[d], runs'[d])
    BY <1>15, <2>2 DEF Fail, TypeOK, KeepsPhase
  <2>4. QED
    BY <1>15, <2>3, PhasesKeepTables DEF Fail, outside
<1>16. CASE MarkPartSent
  <2>1. day \in Days /\ part \in Pending(day) /\ copies[day][part] > 0
    BY <1>16, <1>d DEF MarkPartSent, LoopInv, Sending
  <2>2. /\ recorded' = [recorded EXCEPT ![day] = @ \union {part}]
        /\ UNCHANGED <<runs, snapshot, copies>>
    BY <1>16, <2>1 DEF MarkPartSent, outside
  <2>3. part \in DOMAIN snapshot[day]
    BY <2>1 DEF Pending
  <2>4. QED
    BY <2>1, <2>2, <2>3 DEF TypeOK, TablesInv, NotStarted
<1>17. CASE Finish
  <2>1. day \in Days /\ Pending(day) = {} /\ ~NotStarted(runs[day])
    BY <1>17, <1>d DEF Finish, LoopInv, TablesInv
  <2>2. /\ runs' = [runs EXCEPT ![day] = MarkSent(@, clock)]
        /\ UNCHANGED <<recorded, snapshot, copies>>
    BY <1>17, <2>1 DEF Finish, outside
  <2>3. ~NotStarted(MarkSent(runs[day], clock))
    BY <2>1, <1>r, RowPhases
  <2>4. DOMAIN snapshot[day] \subseteq recorded[day]
    BY <2>1 DEF Pending
  <2>5. QED
    BY <2>1, <2>2, <2>3, <2>4 DEF TypeOK, TablesInv
<1>22. CASE UNCHANGED <<tables, copies>>
  BY <1>22 DEF tables, TablesInv
<1>23. CASE \/ ListItems \/ LoadParts \/ NextPart \/ Attempt \/ Wake
            \/ Transient \/ Permanent \/ Crash \/ Restart \/ Advance \/ Bind
            \/ UNCHANGED vars
  BY <1>22, <1>23
     DEF ListItems, LoadParts, NextPart, Attempt, Wake, Transient, Permanent,
         Crash, Restart, Advance, Bind, outside, vars
<1>24. QED
  BY <1>1, <1>2, <1>3, <1>5, <1>9, <1>15, <1>16, <1>17, <1>23
     DEF Next, Scheduler, Reply

LEMMA LeaveLoop ==
    ASSUME NEW where \in {"idle", "down"}, Leave(where)
    PROVE  LoopInv'
  BY DEF Leave, LoopInv, Sending

LEMMA StepLoop == IInv /\ [Next]_vars => LoopInv'
<1> SUFFICES ASSUME IInv, [Next]_vars PROVE LoopInv'
  OBVIOUS
<1> USE DEF IInv, TypeInv
<1>d. pc \notin {"idle", "down"} => day \in Days /\ now \in Nat
  BY DEF LocalsTyped, TickHoldsADate
<1>r. clock \in Nat /\ \A d \in Days : runs[d] \in Run
  BY DEF TypeOK
<1>1. CASE TickStart
  BY <1>1, <1>r DEF TickStart, outside, LoopInv, Sending
<1>2. CASE TickRetry
  <2>1. CASE Goto("prepare") /\ Opens(day) <= now
    BY <1>2, <2>1 DEF TickRetry, Goto, locals, outside, LoopInv, Sending
  <2>2. CASE Leave("idle")
    BY <2>2, LeaveLoop
  <2>3. QED
    BY <1>2, <2>1, <2>2 DEF TickRetry
<1>3. CASE Prepare
  <2>1. CASE runs[day].status = "sent"
    BY <1>3, <2>1, LeaveLoop DEF Prepare
  <2>2. CASE runs[day].status # "sent"
    <3>1. /\ pc' = IF snapshot[day] = <<>> THEN "list" ELSE "load"
          /\ UNCHANGED <<locals, outside, snapshot, recorded>>
      BY <1>3, <2>2 DEF Prepare, Goto
    <3>2. day \in Days /\ now \in Nat /\ now <= clock /\ Opens(day) <= now
      BY <1>3, <1>d DEF Prepare, LoopInv
    <3>3. snapshot[day] = <<>> => runs'[day].status = "pending"
      BY <1>3, <1>r, <2>2, <3>2, RowPhases DEF Prepare, TypeOK, TablesInv
    <3>4. CASE pc' = "list"
      BY <3>1, <3>2, <3>3, <3>4 DEF LoopInv, Sending, locals, outside
    <3>5. CASE pc' = "load"
      BY <3>1, <3>2, <3>5 DEF LoopInv, Sending, locals, outside
    <3>6. QED
      BY <3>1, <3>4, <3>5
  <2>3. QED
    BY <2>1, <2>2
<1>4. CASE ListItems
  BY <1>4 DEF ListItems, tables, outside, LoopInv, Sending
<1>5. CASE SnapshotNotification
  <2>1. /\ day \in Days /\ listed \in Digests
        /\ snapshot[day] = <<>> /\ runs[day].status = "pending"
    BY <1>5, <1>d DEF SnapshotNotification, LocalsTyped, LoopInv
  <2>2. snapshot'[day] = listed /\ listed # <<>>
    BY <1>5, <2>1, InsertIntoEmpty, DigestDomain DEF SnapshotNotification, TypeOK
  <2>3. QED
    BY <1>5, <2>2
       DEF SnapshotNotification, Goto, locals, outside, LoopInv, Sending
<1>6. CASE LoadParts
  BY <1>6 DEF LoadParts, tables, outside, LoopInv, Sending, Pending
<1>7. CASE NextPart
  <2>1. CASE clock < Closes(day)
    BY <1>7, <2>1 DEF NextPart, tables, outside, LoopInv, Sending, Pending
  <2>2. CASE ~(clock < Closes(day))
    BY <1>7, <2>2, LeaveLoop DEF NextPart
  <2>3. QED
    BY <2>1, <2>2
<1>8. CASE Attempt
  BY <1>8 DEF Attempt, Goto, locals, tables, outside, LoopInv, Sending, Pending
<1>9. CASE Accepted
  <2>1. copies'[day][part] > 0
    BY <1>9, <1>d DEF Accepted, AcceptCopy, TypeOK, LocalsTyped
  <2>2. QED
    BY <1>9, <2>1 DEF Accepted, Goto, locals, tables, LoopInv, Sending, Pending
<1>10. ASSUME NEW d \in Delays, Backoff(d)
       PROVE  /\ pc' \in {"fail", "sleep"}
              /\ UNCHANGED <<day, now, listed, queue, part, attempt>>
  BY <1>10 DEF Backoff, Goto, locals
<1>11. CASE LostReply \/ Transient
  <2>1. /\ pc = "inflight" /\ pc' \in {"fail", "sleep"}
        /\ UNCHANGED <<day, now, listed, queue, part, attempt, tables, clock>>
    BY <1>10, <1>11 DEF LostReply, Transient, outside
  <2>2. QED
    BY <2>1 DEF tables, LoopInv, Sending, Pending
<1>13. CASE Permanent
  BY <1>13 DEF Permanent, Goto, locals, tables, outside, LoopInv, Sending, Pending
<1>14. CASE Wake
  BY <1>14 DEF Wake, tables, outside, LoopInv, Sending, Pending
<1>15. CASE Fail
  BY <1>15, LeaveLoop DEF Fail
<1>16. CASE MarkPartSent
  <2>1. /\ day \in Days /\ part \in Pending(day) /\ queue = Pending(day)
        /\ snapshot[day] # <<>>
    BY <1>16, <1>d DEF MarkPartSent, LoopInv, Sending
  <2>2. queue' = Pending(day)'
    BY <1>16, <2>1 DEF MarkPartSent, Pending, TypeOK
  <2>3. QED
    BY <1>16, <2>1, <2>2 DEF MarkPartSent, outside, LoopInv, Sending
<1>17. CASE Finish
  BY <1>17, LeaveLoop DEF Finish
<1>18. CASE Crash
  BY <1>18, LeaveLoop DEF Crash
<1>19. CASE Restart
  BY <1>19 DEF Restart, Goto, LoopInv, Sending
<1>20. CASE Advance
  BY <1>20, <1>r, <1>d DEF Advance, locals, tables, LoopInv, Sending, Pending
<1>21. CASE Bind \/ UNCHANGED vars
  BY <1>21 DEF Bind, vars, outside, locals, tables, LoopInv, Sending, Pending
<1>22. QED
  BY <1>1, <1>2, <1>3, <1>4, <1>5, <1>6, <1>7, <1>8, <1>9, <1>11, <1>13, <1>14,
     <1>15, <1>16, <1>17, <1>18, <1>19, <1>20, <1>21
     DEF Next, Scheduler, Reply

LEMMA InductiveInvariant == Spec => []IInv
<1>1. IInv /\ [Next]_vars => IInv'
  BY StepTypes, StepTables, StepLoop DEF IInv
<1>2. QED
  BY InitIInv, <1>1, PTL DEF Spec

-----------------------------------------------------------------------------
(* Theorems. *)

\* Prepare turns away from a run that is marked sent, and rightly: all of its
\* parts were accepted by Telegram.
THEOREM SentRunsAreDelivered == Spec => []SentMeansDelivered
<1>1. IInv => SentMeansDelivered
  BY DEF IInv, TablesInv, NotStarted, SentMeansDelivered
<1>2. QED
  BY InductiveInvariant, <1>1, PTL

\* Every run stays within its retry budget, whichever statement wrote it last.
LEMMA RowBudget ==
    ASSUME NEW run \in Run, NEW t \in Nat, WithinBudget(run)
    PROVE  /\ WithinBudget(RecoverStale(run, t))
           /\ WithinBudget(RetryFailed(run, t))
           /\ WithinBudget(EnsureRun(run, t))
           /\ run.status = "pending" => WithinBudget(BeginSending(run, t))
           /\ WithinBudget(FailRun(run, t))
           /\ WithinBudget(MarkSent(run, t))
<1>1. run.status # "failed" => WithinBudget(Failed(run, t))
  BY PolicyAssumption DEF WithinBudget, Failed, Run, NoTime
<1>2. WithinBudget(RecoverStale(run, t)) /\ WithinBudget(FailRun(run, t))
  BY <1>1 DEF RecoverStale, FailRun
<1>3. WithinBudget(RetryFailed(run, t))
  BY DEF WithinBudget, RetryFailed, Run
<1>4. WithinBudget(EnsureRun(run, t)) /\ WithinBudget(MarkSent(run, t))
  BY DEF WithinBudget, EnsureRun, MarkSent, Run
<1>5. run.status = "pending" => WithinBudget(BeginSending(run, t))
  BY DEF WithinBudget, BeginSending, Run
<1>6. QED
  BY <1>2, <1>3, <1>4, <1>5

LEMMA StepBudget == IInv /\ RetryBudget /\ [Next]_vars => RetryBudget'
<1> SUFFICES ASSUME IInv, RetryBudget, [Next]_vars PROVE RetryBudget'
  OBVIOUS
<1> USE DEF IInv, TypeInv
<1>r. clock \in Nat /\ \A d \in Days : runs[d] \in Run /\ WithinBudget(runs[d])
  BY DEF TypeOK, RetryBudget
<1>d. pc \notin {"idle", "down"} =>
        day \in Days /\ now \in Nat /\ runs[day] \in Run /\ WithinBudget(runs[day])
  BY <1>r DEF LocalsTyped, TickHoldsADate
<1>1. CASE TickStart
  BY <1>1, <1>r, RowBudget DEF TickStart, RetryBudget
<1>2. CASE TickRetry
  <2>1. WithinBudget(RetryFailed(runs[day], now))
    BY <1>2, <1>d, RowBudget DEF TickRetry
  <2>2. QED
    BY <1>2, <1>r, <2>1 DEF TickRetry, RetryBudget, TypeOK
<1>3. CASE Prepare
  <2>1. WithinBudget(EnsureRun(runs[day], now))
    BY <1>3, <1>d, RowBudget DEF Prepare
  <2>2. QED
    BY <1>3, <1>r, <2>1 DEF Prepare, RetryBudget, TypeOK
<1>4. CASE SnapshotNotification
  <2>1. WithinBudget(BeginSending(runs[day], now))
    BY <1>4, <1>d, RowBudget DEF SnapshotNotification, LoopInv
  <2>2. QED
    BY <1>4, <1>r, <2>1 DEF SnapshotNotification, RetryBudget, TypeOK
<1>5. CASE Fail
  <2>1. WithinBudget(FailRun(runs[day], clock))
    BY <1>5, <1>d, <1>r, RowBudget DEF Fail
  <2>2. QED
    BY <1>5, <1>r, <2>1 DEF Fail, RetryBudget, TypeOK
<1>6. CASE Finish
  <2>1. WithinBudget(MarkSent(runs[day], clock))
    BY <1>6, <1>d, <1>r, RowBudget DEF Finish
  <2>2. QED
    BY <1>6, <1>r, <2>1 DEF Finish, RetryBudget, TypeOK
<1>7. CASE UNCHANGED runs
  BY <1>7 DEF RetryBudget
<1>8. QED
  BY <1>1, <1>2, <1>3, <1>4, <1>5, <1>6, <1>7
     DEF Next, Scheduler, Reply, ListItems, LoadParts, NextPart, Attempt, Wake,
         MarkPartSent, Accepted, LostReply, Transient, Permanent, Crash, Restart,
         Advance, Bind, vars, tables

\* A failed run is due for a retry or out of attempts, and only a failed one is.
THEOREM BudgetIsKept == Spec => []RetryBudget
<1>1. Init => RetryBudget
  BY PolicyAssumption DEF Init, RetryBudget, WithinBudget, NoRun
<1>2. QED
  BY InductiveInvariant, StepBudget, <1>1, PTL DEF Spec

LEMMA StepInOrder == IInv /\ InOrder /\ [Next]_vars => InOrder'
<1> SUFFICES ASSUME IInv, InOrder, [Next]_vars PROVE InOrder'
  OBVIOUS
<1> USE DEF IInv, TypeInv
<1>1. CASE Accepted \/ LostReply
  <2>1. /\ day \in Days /\ part \in PartIds
        /\ copies' = [copies EXCEPT ![day][part] = @ + 1]
        /\ recorded' = recorded
    BY <1>1 DEF Accepted, LostReply, AcceptCopy, LocalsTyped, TickHoldsADate, tables
  <2>2. /\ part \in Pending(day) /\ \A j \in Pending(day) : part <= j
        /\ snapshot[day] \in Digests
    BY <1>1, <2>1 DEF Accepted, LostReply, LoopInv, Sending, TypeOK
  <2>3. \A j \in PartIds : j < part => j \in recorded[day]
    <3>1. SUFFICES ASSUME NEW j \in PartIds, j < part PROVE j \in recorded[day]
      OBVIOUS
    <3>2. j \in DOMAIN snapshot[day]
      BY <2>2, <3>1, DigestDomain DEF Pending
    <3>3. QED
      BY <2>1, <2>2, <3>1, <3>2 DEF Pending, PartIds
  <2>4. \A d \in Days, k \in PartIds :
          copies'[d][k] > 0 => copies[d][k] > 0 \/ (d = day /\ k = part)
    BY <2>1 DEF TypeOK
  <2>5. QED
    BY <2>1, <2>3, <2>4 DEF InOrder
<1>2. CASE MarkPartSent
  <2>1. \A d \in Days : recorded[d] \subseteq recorded'[d]
    BY <1>2 DEF MarkPartSent, TypeOK
  <2>2. QED
    BY <1>2, <2>1 DEF MarkPartSent, outside, InOrder
<1>3. CASE UNCHANGED <<recorded, copies>>
  BY <1>3 DEF InOrder
<1>4. QED
  BY <1>1, <1>2, <1>3
     DEF Next, Scheduler, Reply, TickStart, TickRetry, Prepare, ListItems,
         SnapshotNotification, LoadParts, NextPart, Attempt, Wake, Fail, Finish,
         Transient, Permanent, Crash, Restart, Advance, Bind, vars, tables, outside

\* The parts of a digest reach the chat in order, over every retry and restart.
THEOREM PartsArriveInOrder == Spec => []InOrder
<1>1. Init => InOrder
  BY DEF Init, InOrder
<1>2. QED
  BY InductiveInvariant, StepInOrder, <1>1, PTL DEF Spec

\* Only faults explain further copies, so no step leaves more to explain.
LEMMA NothingUnexplained ==
    ASSUME IInv, [Next]_vars, NEW d \in Days, NEW k \in PartIds
    PROVE  /\ Unexplained(d, k) \in Int /\ Unexplained(d, k)' \in Int
           /\ Unexplained(d, k)' <= Unexplained(d, k)
<1> DEFINE kept == IF k \in recorded[d] \/ (pc = "mark" /\ day = d /\ part = k)
                   THEN 1 ELSE 0
<1> USE DEF IInv, TypeInv
<1>t. copies[d][k] \in Nat /\ faults \in Nat
  BY DEF TypeOK
<1>n. copies'[d][k] \in Nat /\ faults' \in Nat
  BY StepTypes DEF TypeOK
<1>u. /\ Unexplained(d, k) = copies[d][k] - kept - faults
      /\ Unexplained(d, k)' = copies'[d][k] - kept' - faults'
  BY DEF Unexplained
<1>i. Unexplained(d, k) \in Int /\ Unexplained(d, k)' \in Int
  BY <1>t, <1>n, <1>u
<1> SUFFICES copies'[d][k] - kept' - faults' <= copies[d][k] - kept - faults
  BY <1>i, <1>u
<1>1. CASE Accepted \/ LostReply
  <2>1. /\ pc = "inflight" /\ day \in Days /\ part \in PartIds
        /\ copies' = [copies EXCEPT ![day][part] = @ + 1]
        /\ recorded' = recorded /\ day' = day /\ part' = part
    BY <1>1
       DEF Accepted, LostReply, AcceptCopy, LocalsTyped, TickHoldsADate, tables,
           Goto, Backoff, locals
  <2>2. (pc' = "mark" /\ faults' = faults) \/ faults' = faults + 1
    BY <1>1 DEF Accepted, LostReply, Goto
  <2>3. part \notin recorded[day]
    BY <2>1 DEF LoopInv, Sending, Pending
  <2>4. CASE d = day /\ k = part
    <3>1. copies'[d][k] = copies[d][k] + 1 /\ kept = 0
      BY <1>t, <2>1, <2>3, <2>4 DEF TypeOK
    <3>2. QED
      BY <1>t, <2>1, <2>2, <2>4, <3>1
  <2>5. CASE ~(d = day /\ k = part)
    <3>1. copies'[d][k] = copies[d][k]
      BY <2>1, <2>5 DEF TypeOK
    <3>2. QED
      BY <1>t, <2>1, <2>2, <2>5, <3>1
  <2>6. QED
    BY <2>4, <2>5
<1>2. CASE MarkPartSent
  <2>1. /\ day \in Days /\ part \in Pending(day)
        /\ copies' = copies /\ faults' = faults /\ pc' = "loop"
        /\ recorded' = [recorded EXCEPT ![day] = @ \union {part}]
    BY <1>2 DEF MarkPartSent, LocalsTyped, TickHoldsADate, LoopInv, Sending, outside
  <2>2. k \in recorded'[d] <=> k \in recorded[d] \/ (day = d /\ part = k)
    BY <2>1 DEF TypeOK
  <2>3. QED
    BY <1>2, <1>t, <2>1, <2>2 DEF MarkPartSent
<1>3. CASE Crash
  BY <1>3, <1>t DEF Crash, tables, Leave
<1>4. CASE /\ UNCHANGED <<copies, recorded, faults>>
           /\ pc = "mark" => UNCHANGED <<pc, day, part>>
  BY <1>4, <1>t
<1>5. CASE TickStart \/ TickRetry \/ Prepare \/ ListItems \/ SnapshotNotification
           \/ LoadParts \/ NextPart \/ Attempt \/ Wake \/ Fail \/ Finish
  BY <1>4, <1>5
     DEF TickStart, TickRetry, Prepare, ListItems, SnapshotNotification, LoadParts,
         NextPart, Attempt, Wake, Fail, Finish, tables, outside
<1>6. CASE Transient \/ Permanent \/ Restart \/ Advance \/ Bind \/ UNCHANGED vars
  BY <1>4, <1>6
     DEF Transient, Permanent, Restart, Advance, Bind, vars, tables, outside, locals
<1>7. QED
  BY <1>1, <1>2, <1>3, <1>5, <1>6 DEF Next, Scheduler, Reply

LEMMA StepDuplicates ==
    IInv /\ DuplicatesNeedFaults /\ [Next]_vars => DuplicatesNeedFaults'
<1> SUFFICES ASSUME IInv, DuplicatesNeedFaults, [Next]_vars,
                    NEW d \in Days, NEW k \in PartIds
             PROVE  Unexplained(d, k)' <= 0
  BY DEF DuplicatesNeedFaults
<1>1. Unexplained(d, k) <= 0
  BY DEF DuplicatesNeedFaults
<1>2. QED
  BY <1>1, NothingUnexplained

\* Beyond the recorded copy of a part, every further copy in the chat is
\* paid for by a crash or a lost reply.
THEOREM DuplicatesAreExplained == Spec => []DuplicatesNeedFaults
<1>1. Init => DuplicatesNeedFaults
  BY DEF Init, DuplicatesNeedFaults, Unexplained
<1>2. QED
  BY InductiveInvariant, StepDuplicates, <1>1, PTL DEF Spec

LEMMA AttemptInWindow ==
    IInv /\ [Next]_vars =>
        [pc # "inflight" /\ pc' = "inflight" => WindowOpen(day)]_vars
<1> SUFFICES ASSUME IInv, Next, pc # "inflight", pc' = "inflight"
             PROVE  WindowOpen(day)
  BY DEF vars
<1>1. Attempt
  BY DEF Next, Scheduler, Reply, TickStart, TickRetry, Prepare, ListItems,
         SnapshotNotification, LoadParts, NextPart, Accepted, LostReply,
         Transient, Permanent, Backoff, Wake, Fail, MarkPartSent, Finish, Crash,
         Restart, Advance, Bind, Goto, Leave
<1>2. clock < Closes(day)
  BY <1>1 DEF Attempt, Goto
<1>3. Opens(day) <= now /\ now <= clock /\ day \in Days /\ now \in Nat /\ clock \in Nat
  BY <1>1 DEF Attempt, IInv, TypeInv, TypeOK, LoopInv, LocalsTyped, TickHoldsADate
<1>4. QED
  BY <1>2, <1>3, WindowTypes DEF WindowOpen

\* No attempt to send a part starts before the window of its date opens or
\* once it has closed.
THEOREM AttemptsStayInWindow == Spec => NoAttemptOutsideWindow
BY InductiveInvariant, AttemptInWindow, PTL DEF Spec, NoAttemptOutsideWindow

-----------------------------------------------------------------------------
(* Refinement: the tables and the chat behave as DigestDelivery says. *)

Closed == {d \in Days : runs[d].status = "sent"}

\* The steps that leave all that DigestDelivery sees as it is.
Invisible == UNCHANGED <<snapshot, copies, recorded, Closed>>

LEMMA PhasesAreInvisible ==
    ASSUME UNCHANGED <<snapshot, recorded, copies>>,
           \A d \in Days : KeepsPhase(runs[d], runs'[d])
    PROVE  Invisible
  BY DEF Invisible, Closed, KeepsPhase

LEMMA StepRefines ==
    IInv /\ InOrder /\ [Next]_vars =>
        \/ Invisible
        \/ \E d \in Days :
             \/ \E parts \in Digests : Delivery!Publish(d, parts)
             \/ \E k \in PartIds : Delivery!Deliver(d, k)
             \/ \E k \in PartIds : Delivery!Record(d, k)
             \/ Delivery!Close(d)
<1> SUFFICES ASSUME IInv, InOrder, [Next]_vars
             PROVE  \/ Invisible
                    \/ \E d \in Days :
                         \/ \E parts \in Digests : Delivery!Publish(d, parts)
                         \/ \E k \in PartIds : Delivery!Deliver(d, k)
                         \/ \E k \in PartIds : Delivery!Record(d, k)
                         \/ Delivery!Close(d)
  OBVIOUS
<1> USE DEF IInv, TypeInv
<1>d. pc \notin {"idle", "down"} => day \in Days /\ now \in Nat
  BY DEF LocalsTyped, TickHoldsADate
<1>r. clock \in Nat /\ \A d \in Days : runs[d] \in Run
  BY DEF TypeOK
<1>1. CASE TickStart
  BY <1>1, <1>r, RowPhases, PhasesAreInvisible DEF TickStart, outside
<1>2. CASE TickRetry
  <2>1. KeepsPhase(runs[day], RetryFailed(runs[day], now))
    BY <1>2, <1>d, <1>r, RowPhases DEF TickRetry
  <2>2. \A d \in Days : KeepsPhase(runs[d], runs'[d])
    BY <1>2, <2>1 DEF TickRetry, TypeOK, KeepsPhase
  <2>3. QED
    BY <1>2, <2>2, PhasesAreInvisible DEF TickRetry, outside
<1>3. CASE Prepare
  <2>1. KeepsPhase(runs[day], EnsureRun(runs[day], now))
    BY <1>3, <1>d, <1>r, RowPhases DEF Prepare
  <2>2. \A d \in Days : KeepsPhase(runs[d], runs'[d])
    BY <1>3, <2>1 DEF Prepare, TypeOK, KeepsPhase
  <2>3. QED
    BY <1>3, <2>2, PhasesAreInvisible DEF Prepare, outside
<1>4. CASE SnapshotNotification
  <2>1. /\ day \in Days /\ now \in Nat /\ listed \in Digests
        /\ snapshot[day] = <<>> /\ runs[day].status = "pending"
    BY <1>4, <1>d DEF SnapshotNotification, LocalsTyped, LoopInv
  <2>2. /\ snapshot' = [snapshot EXCEPT ![day] = listed]
        /\ runs' = [runs EXCEPT ![day] = BeginSending(@, now)]
        /\ UNCHANGED <<recorded, copies>>
    BY <1>4, <2>1, InsertIntoEmpty DEF SnapshotNotification, outside
  <2>3. BeginSending(runs[day], now).status = "sending"
    BY <2>1, <1>r, RowPhases
  <2>4. Closed' = Closed
    BY <2>1, <2>2, <2>3 DEF Closed, TypeOK
  <2>5. Delivery!Publish(day, listed)
    BY <2>1, <2>2, <2>4 DEF Delivery!Publish, Closed
  <2>6. QED
    BY <2>1, <2>5
<1>5. CASE Accepted \/ LostReply
  <2>1. /\ day \in Days /\ part \in PartIds
        /\ copies' = [copies EXCEPT ![day][part] = @ + 1]
        /\ UNCHANGED <<snapshot, recorded, runs>>
    BY <1>5, <1>d DEF Accepted, LostReply, AcceptCopy, LocalsTyped, tables
  <2>2. /\ part \in Pending(day) /\ \A j \in Pending(day) : part <= j
        /\ snapshot[day] \in Digests
    BY <1>5, <2>1 DEF Accepted, LostReply, LoopInv, Sending, TypeOK
  <2>3. \A j \in DOMAIN snapshot[day] : j < part => j \in recorded[day]
    BY <2>1, <2>2, DigestDomain DEF Pending, PartIds
  <2>4. Delivery!Deliver(day, part)
    BY <2>1, <2>2, <2>3 DEF Delivery!Deliver, Pending
  <2>5. QED
    BY <2>1, <2>4
<1>6. CASE MarkPartSent
  <2>1. /\ day \in Days /\ part \in Pending(day) /\ copies[day][part] > 0
        /\ part \in PartIds
    BY <1>6, <1>d DEF MarkPartSent, LoopInv, Sending, LocalsTyped
  <2>2. /\ recorded' = [recorded EXCEPT ![day] = @ \union {part}]
        /\ UNCHANGED <<runs, snapshot, copies>>
    BY <1>6, <2>1 DEF MarkPartSent, outside
  <2>3. Delivery!Record(day, part)
    BY <2>1, <2>2 DEF Delivery!Record, Pending
  <2>4. QED
    BY <2>1, <2>3
<1>7. CASE Fail
  <2>1. day \in Days /\ ~NotStarted(runs[day])
    BY <1>7, <1>d DEF Fail, LoopInv, TablesInv
  <2>2. KeepsPhase(runs[day], FailRun(runs[day], clock))
    BY <2>1, <1>r, RowPhases
  <2>3. \A d \in Days : KeepsPhase(runs[d], runs'[d])
    BY <1>7, <2>2 DEF Fail, TypeOK, KeepsPhase
  <2>4. QED
    BY <1>7, <2>3, PhasesAreInvisible DEF Fail, outside
<1>8. CASE Finish
  <2>1. /\ day \in Days /\ Pending(day) = {} /\ snapshot[day] # <<>>
        /\ runs[day] \in Run
    BY <1>8, <1>d, <1>r DEF Finish, LoopInv
  <2>2. /\ runs' = [runs EXCEPT ![day] = MarkSent(@, clock)]
        /\ UNCHANGED <<recorded, snapshot, copies>>
    BY <1>8, <2>1 DEF Finish, outside
  <2>3. CASE runs[day].status \in {"pending", "sending"}
    <3>1. runs'[day].status = "sent" /\ day \notin Closed
      BY <2>1, <2>2, <2>3 DEF MarkSent, TypeOK, Run, Closed
    <3>2. Closed' = Closed \union {day}
      BY <2>1, <2>2, <3>1 DEF Closed, TypeOK
    <3>3. Delivery!Close(day)
      BY <2>1, <2>2, <3>1, <3>2 DEF Delivery!Close, Closed, Pending
    <3>4. \E d \in Days : Delivery!Close(d)
      BY <2>1, <3>3 DEF Delivery!Close
    <3>5. QED
      BY <3>4
  <2>4. CASE runs[day].status \notin {"pending", "sending"}
    <3>1. runs' = runs
      BY <2>1, <2>2, <2>4 DEF MarkSent, TypeOK
    <3>2. QED
      BY <2>2, <3>1 DEF Invisible, Closed
  <2>5. QED
    BY <2>3, <2>4
<1>9. CASE UNCHANGED <<tables, copies>>
  BY <1>9 DEF tables, Invisible, Closed
<1>10. CASE \/ ListItems \/ LoadParts \/ NextPart \/ Attempt \/ Wake
            \/ Transient \/ Permanent \/ Crash \/ Restart \/ Advance \/ Bind
            \/ UNCHANGED vars
  BY <1>9, <1>10
     DEF ListItems, LoadParts, NextPart, Attempt, Wake, Transient, Permanent,
         Crash, Restart, Advance, Bind, outside, vars
<1>11. QED
  BY <1>1, <1>2, <1>3, <1>4, <1>5, <1>6, <1>7, <1>8, <1>10
     DEF Next, Scheduler, Reply

\* The scheduler and its tables implement the delivery contract: one digest
\* per date, never recomputed, its parts delivered in order and at least once.
THEOREM Refinement == Spec => ImplementsDelivery
<1>1. Init => Delivery!Init
  BY DEF Init, Delivery!Init, Delivery!PartIds, PartIds, NoRun
<1>2. IInv /\ InOrder /\ [Next]_vars => [Delivery!Next]_(Delivery!vars)
  <2>1. Delivery!PartIds = PartIds /\ Delivery!Digests = Digests
    BY DEF Delivery!PartIds, PartIds, Delivery!Digests, Digests
  <2>2. QED
    BY StepRefines, <2>1 DEF Delivery!Next, Delivery!vars, Invisible, Closed
<1>3. QED
  BY InductiveInvariant, PartsArriveInOrder, <1>1, <1>2, PTL
     DEF Spec, ImplementsDelivery, Delivery!Spec

=============================================================================
