---------------------------- MODULE Notification ----------------------------
(***************************************************************************)
(* The morning digest: Scheduler.Tick, the notification service it calls   *)
(* and the notification_runs and notification_parts tables, one step per  *)
(* statement that writes the database and per call to Telegram.  Around   *)
(* the scheduler's goroutine run the clock, the polling goroutine that    *)
(* binds the chat, the Telegram server, and a process that may stop       *)
(* between any two steps and be started again.                            *)
(*                                                                         *)
(* Only the scheduler writes the two tables and Store opens one            *)
(* connection, so a statement is atomic and a read of these tables is     *)
(* folded into the step that uses it.  A database error makes Tick return *)
(* it, Run return it and main exit: that is Crash.                         *)
(***************************************************************************)
EXTENDS Integers, FiniteSets

CONSTANTS
    Days,         \* local dates, numbered from 0
    DayLength,    \* clock units from one local midnight to the next
    Scheduled,    \* offset of NOTIFICATION_TIME in its day
    Cutoff,       \* offset of 12:00
    StaleAfter,   \* age at which a 'sending' run is taken for abandoned
    RetryWindow,  \* notificationRetryWindow
    MaxAttempts,  \* failures after which a run is not promoted again
    SendAttempts, \* sends of one part within one call of sendFuncWithRetry
    Delays,       \* what retryDelay may return: backoff and Retry-After
    Items,        \* backlog items
    Limit,        \* RECOMMENDATION_LIMIT
    MaxClock,     \* bound: the clock stops here
    MaxFaults     \* bound: crashes and lost replies in a behaviour

\* NOTIFICATION_HOUR may be past the cutoff: no attempt is ever made then.
ASSUME CalendarAssumption ==
    /\ Days \subseteq Nat
    /\ DayLength \in Nat /\ Scheduled \in Nat /\ Cutoff \in Nat
    /\ Scheduled < DayLength /\ Cutoff <= DayLength

ASSUME PolicyAssumption ==
    /\ StaleAfter \in Nat /\ RetryWindow \in Nat
    /\ MaxAttempts \in Nat \ {0} /\ SendAttempts \in Nat \ {0}
    /\ Delays \subseteq Nat
    /\ Limit \in Nat \ {0}
    /\ MaxClock \in Nat /\ MaxFaults \in Nat

VARIABLES
    clock,      \* the wall clock
    bound,      \* Bot.bound, reloaded from authorized_chat at startup
    runs,       \* runs[d]: the notification_runs row of d
    snapshot,   \* snapshot[d]: payloads in notification_parts, by index
    recorded,   \* recorded[d]: indexes of the parts whose status is 'sent'
    copies,     \* copies[d][k]: messages Telegram accepted for part k
    faults,     \* crashes and lost replies so far
    pc,         \* where Tick is, "idle" between ticks, "down" without process
    day,        \* Tick's date, and the cutoff it computes from it
    now,        \* Tick's now
    listed,     \* Prepare's parts
    queue,      \* indexes in work.Parts that Tick has not passed yet
    part,       \* index of the part being sent
    attempt,    \* sendFuncWithRetry's attempt
    wake        \* when sleepUntil returns

tables == <<runs, snapshot, recorded>>
outside == <<clock, bound, copies, faults>>
locals == <<day, now, listed, queue, part, attempt, wake>>
vars == <<tables, outside, pc, locals>>

NoTime == -1
PartIds == 1..Limit
Digests == UNION {[1..n -> SUBSET Items] : n \in PartIds}

Midnight(d) == d * DayLength
Opens(d) == Midnight(d) + Scheduled
Closes(d) == Midnight(d) + Cutoff
WindowOpen(d) == Opens(d) <= clock /\ clock < Closes(d)

Statuses == {"none", "pending", "sending", "sent", "failed"}
Times == Nat \union {NoTime}
Run == [status : Statuses, attempts : Nat, retryAt : Times, updatedAt : Times]
NoRun == [status |-> "none", attempts |-> 0,
          retryAt |-> NoTime, updatedAt |-> NoTime]

-----------------------------------------------------------------------------
(* Statements on notification_runs, as functions of the row. *)

\* The UPDATE shared by recovery of a stale run and by a failed delivery.
Failed(run, t) ==
    [status |-> "failed", attempts |-> run.attempts + 1, updatedAt |-> t,
     retryAt |-> IF run.attempts + 1 < MaxAttempts
                 THEN t + RetryWindow ELSE NoTime]

\* Mutant: recovery as it was before retry_at existed.
RecoverStale_NoRetry(run, t) ==
    IF run.status = "sending" /\ run.updatedAt < t - StaleAfter
    THEN [run EXCEPT !.status = "failed", !.updatedAt = t] ELSE run

RecoverStale(run, t) ==
    IF run.status = "sending" /\ run.updatedAt < t - StaleAfter
    THEN Failed(run, t) ELSE run

RetryFailed(run, t) ==
    IF /\ run.status = "failed" /\ run.attempts < MaxAttempts
       /\ run.retryAt # NoTime /\ run.retryAt <= t
    THEN [run EXCEPT !.status = "sending", !.retryAt = NoTime, !.updatedAt = t]
    ELSE run

FailRun(run, t) ==
    IF run.status \in {"sending", "pending"} THEN Failed(run, t) ELSE run

MarkSent(run, t) ==
    IF run.status \in {"pending", "sending"}
    THEN [run EXCEPT !.status = "sent", !.updatedAt = t] ELSE run

EnsureRun(run, t) ==
    IF run.status = "none"
    THEN [run EXCEPT !.status = "pending", !.updatedAt = t] ELSE run

BeginSending(run, t) == [run EXCEPT !.status = "sending", !.updatedAt = t]

\* INSERT OR IGNORE of the new parts: a row already there is kept.
InsertOrIgnore(old, new) ==
    [k \in DOMAIN old \union DOMAIN new |->
        IF k \in DOMAIN old THEN old[k] ELSE new[k]]

Pending(d) == DOMAIN snapshot[d] \ recorded[d]

\* What RenderParts makes of the selected items: parts that share no item,
\* in the order of their best item; the single empty part for no items.
Renderings ==
    {p \in Digests :
        /\ DOMAIN p # {1} => \A k \in DOMAIN p : p[k] # {}
        /\ \A j, k \in DOMAIN p : j # k => p[j] \cap p[k] = {}
        /\ Cardinality(UNION {p[k] : k \in DOMAIN p}) <= Limit}

-----------------------------------------------------------------------------
Init ==
    /\ clock = 0 /\ bound \in BOOLEAN
    /\ runs = [d \in Days |-> NoRun]
    /\ snapshot = [d \in Days |-> <<>>]
    /\ recorded = [d \in Days |-> {}]
    /\ copies = [d \in Days |-> [k \in PartIds |-> 0]]
    /\ faults = 0
    /\ pc = "idle"
    /\ day = NoTime /\ now = NoTime /\ listed = <<>> /\ queue = {}
    /\ part = 0 /\ attempt = 0 /\ wake = NoTime

\* Tick is over, or the process is: its local variables are gone.
Leave(where) ==
    /\ pc' = where
    /\ day' = NoTime /\ now' = NoTime /\ listed' = <<>> /\ queue' = {}
    /\ part' = 0 /\ attempt' = 0 /\ wake' = NoTime

Goto(where) == pc' = where /\ UNCHANGED locals

\* Tick reads the clock and recovers the runs of every date left 'sending'.
TickStart ==
    /\ pc = "idle"
    /\ \E d \in Days :
        /\ Midnight(d) <= clock /\ clock < Midnight(d + 1)
        /\ day' = d
    /\ now' = clock
    /\ runs' = [d \in Days |-> RecoverStale(runs[d], clock)]
    /\ pc' = "retry"
    /\ UNCHANGED <<snapshot, recorded, outside, listed, queue, part, attempt, wake>>

\* Then it promotes today's run if its retry is due, and goes on in the window.
TickRetry ==
    /\ pc = "retry"
    /\ runs' = [runs EXCEPT ![day] = RetryFailed(@, now)]
    /\ IF Opens(day) <= now /\ now < Closes(day)
       THEN Goto("prepare") ELSE Leave("idle")
    /\ UNCHANGED <<snapshot, recorded, outside>>

\* Mutant: a failed run is left alone until it is promoted.
Prepare_WaitForRetry ==
    /\ pc = "prepare"
    /\ IF runs[day].status \in {"sent", "failed"}
       THEN UNCHANGED runs /\ Leave("idle")
       ELSE /\ runs' = [runs EXCEPT ![day] = EnsureRun(@, now)]
            /\ Goto(IF snapshot[day] = <<>> THEN "list" ELSE "load")
    /\ UNCHANGED <<snapshot, recorded, outside>>

Prepare ==
    /\ pc = "prepare"
    /\ IF runs[day].status = "sent"
       THEN UNCHANGED runs /\ Leave("idle")
       ELSE /\ runs' = [runs EXCEPT ![day] = EnsureRun(@, now)]
            /\ Goto(IF snapshot[day] = <<>> THEN "list" ELSE "load")
    /\ UNCHANGED <<snapshot, recorded, outside>>

\* The user edits the backlog from the other goroutine at any time, so what
\* ListItems returns, and Select keeps, may be any selection.
ListItems ==
    /\ pc = "list"
    /\ listed' \in Renderings
    /\ pc' = "snapshot"
    /\ UNCHANGED <<tables, outside, day, now, queue, part, attempt, wake>>

SnapshotNotification ==
    /\ pc = "snapshot"
    /\ IF runs[day].status = "pending"
       THEN /\ snapshot' = [snapshot EXCEPT ![day] = InsertOrIgnore(@, listed)]
            /\ runs' = [runs EXCEPT ![day] = BeginSending(@, now)]
       ELSE UNCHANGED <<runs, snapshot>>
    /\ Goto("load")
    /\ UNCHANGED <<recorded, outside>>

\* Mutant: the query of the pending parts without its status condition.
LoadParts_All ==
    /\ pc = "load"
    /\ queue' = DOMAIN snapshot[day]
    /\ pc' = "loop"
    /\ UNCHANGED <<tables, outside, day, now, listed, part, attempt, wake>>

LoadParts ==
    /\ pc = "load"
    /\ queue' = Pending(day)
    /\ pc' = "loop"
    /\ UNCHANGED <<tables, outside, day, now, listed, part, attempt, wake>>

\* Mutant: the query of the pending parts without ORDER BY.
NextPart_Unordered ==
    /\ pc = "loop"
    /\ queue # {}
    /\ IF clock < Closes(day)
       THEN /\ part' \in queue
            /\ attempt' = 0 /\ pc' = "attempt"
            /\ UNCHANGED <<day, now, listed, queue, wake>>
       ELSE Leave("idle")
    /\ UNCHANGED <<tables, outside>>

\* The head of Tick's loop: the parts come ordered by index.
NextPart ==
    /\ pc = "loop"
    /\ queue # {}
    /\ IF clock < Closes(day)
       THEN /\ \E k \in queue : part' = k /\ \A j \in queue : k <= j
            /\ attempt' = 0 /\ pc' = "attempt"
            /\ UNCHANGED <<day, now, listed, queue, wake>>
       ELSE Leave("idle")
    /\ UNCHANGED <<tables, outside>>

\* Mutant: only the head of Tick's loop looks at the cutoff.
Attempt_NoCutoff ==
    /\ pc = "attempt"
    /\ Goto("inflight")
    /\ UNCHANGED <<tables, outside>>

Attempt ==
    /\ pc = "attempt"
    /\ Goto(IF clock < Closes(day) THEN "inflight" ELSE "fail")
    /\ UNCHANGED <<tables, outside>>

-----------------------------------------------------------------------------
(* What a call to Telegram may come to. *)

AcceptCopy == copies' = [copies EXCEPT ![day][part] = @ + 1]

Accepted ==
    /\ pc = "inflight" /\ bound
    /\ AcceptCopy
    /\ Goto("mark")
    /\ UNCHANGED <<tables, clock, bound, faults>>

\* A retryable error: sleep, unless the sleep would reach the cutoff.
Backoff(d) ==
    IF d >= Closes(day) - clock
    THEN Goto("fail")
    ELSE /\ wake' = clock + d /\ pc' = "sleep"
         /\ UNCHANGED <<day, now, listed, queue, part, attempt>>

\* Telegram accepted the message, but the reply is lost: a network error.
LostReply ==
    /\ pc = "inflight" /\ bound /\ faults < MaxFaults
    /\ AcceptCopy
    /\ faults' = faults + 1
    /\ \E d \in Delays : Backoff(d)
    /\ UNCHANGED <<tables, clock, bound>>

\* 429 with its Retry-After, 5xx, a network error, or no chat bound yet.
Transient ==
    /\ pc = "inflight"
    /\ \E d \in Delays : Backoff(d)
    /\ UNCHANGED <<tables, outside>>

\* Mutant: a permanent error passes for a delivery.
Permanent_Swallowed ==
    /\ pc = "inflight" /\ bound
    /\ Goto("mark")
    /\ UNCHANGED <<tables, outside>>

\* A 4xx other than 429.
Permanent ==
    /\ pc = "inflight" /\ bound
    /\ Goto("fail")
    /\ UNCHANGED <<tables, outside>>

\* Mutant: one attempt too many.
Wake_OneMore ==
    /\ pc = "sleep" /\ clock >= wake
    /\ attempt' = attempt + 1 /\ wake' = NoTime
    /\ pc' = IF attempt + 1 <= SendAttempts THEN "attempt" ELSE "fail"
    /\ UNCHANGED <<tables, outside, day, now, listed, queue, part>>

Wake ==
    /\ pc = "sleep" /\ clock >= wake
    /\ attempt' = attempt + 1 /\ wake' = NoTime
    /\ pc' = IF attempt + 1 < SendAttempts THEN "attempt" ELSE "fail"
    /\ UNCHANGED <<tables, outside, day, now, listed, queue, part>>

-----------------------------------------------------------------------------
Fail ==
    /\ pc = "fail"
    /\ runs' = [runs EXCEPT ![day] = FailRun(@, clock)]
    /\ Leave("idle")
    /\ UNCHANGED <<snapshot, recorded, outside>>

\* Mutant: the UPDATE without its part_index condition.
MarkPartSent_AllParts ==
    /\ pc = "mark"
    /\ recorded' = [recorded EXCEPT ![day] = DOMAIN snapshot[day]]
    /\ queue' = {}
    /\ pc' = "loop"
    /\ UNCHANGED <<day, now, listed, part, attempt, wake, runs, snapshot, outside>>

\* A part that is not pending any more is an error, which ends the process.
MarkPartSent ==
    /\ pc = "mark"
    /\ IF part \in Pending(day)
       THEN /\ recorded' = [recorded EXCEPT ![day] = @ \union {part}]
            /\ queue' = queue \ {part}
            /\ pc' = "loop"
            /\ UNCHANGED <<day, now, listed, part, attempt, wake>>
       ELSE UNCHANGED recorded /\ Leave("down")
    /\ UNCHANGED <<runs, snapshot, outside>>

\* After the loop MarkSent: parts still pending are an error.
Finish ==
    /\ pc = "loop"
    /\ queue = {}
    /\ IF Pending(day) = {}
       THEN runs' = [runs EXCEPT ![day] = MarkSent(@, clock)] /\ Leave("idle")
       ELSE UNCHANGED runs /\ Leave("down")
    /\ UNCHANGED <<snapshot, recorded, outside>>

-----------------------------------------------------------------------------
(* The process and its surroundings. *)

Crash ==
    /\ pc # "down" /\ faults < MaxFaults
    /\ faults' = faults + 1
    /\ Leave("down")
    /\ UNCHANGED <<tables, clock, bound, copies>>

Restart ==
    /\ pc = "down"
    /\ Goto("idle")
    /\ UNCHANGED <<tables, outside>>

Advance ==
    /\ clock < MaxClock
    /\ clock' = clock + 1
    /\ UNCHANGED <<tables, bound, copies, faults, pc, locals>>

\* The polling goroutine handles the owner's /start.
Bind ==
    /\ pc # "down" /\ ~bound
    /\ bound' = TRUE
    /\ UNCHANGED <<tables, clock, copies, faults, pc, locals>>

Reply == Accepted \/ LostReply \/ Transient \/ Permanent

Scheduler ==
    \/ TickStart \/ TickRetry \/ Prepare \/ ListItems \/ SnapshotNotification
    \/ LoadParts \/ NextPart \/ Attempt \/ Wake \/ Fail \/ MarkPartSent
    \/ Finish

Next == Scheduler \/ Reply \/ Crash \/ Restart \/ Advance \/ Bind

Spec == Init /\ [][Next]_vars

-----------------------------------------------------------------------------
(* Properties. *)

PCs == {"idle", "retry", "prepare", "list", "snapshot", "load", "loop",
        "attempt", "inflight", "sleep", "mark", "fail", "down"}

\* The rows and Tick's local variables have their types; sendFuncWithRetry
\* never counts past SendAttempts.
TypeOK ==
    /\ clock \in Nat /\ bound \in BOOLEAN /\ faults \in Nat
    /\ runs \in [Days -> Run]
    /\ snapshot \in [Days -> Digests \union {<<>>}]
    /\ recorded \in [Days -> SUBSET PartIds]
    /\ copies \in [Days -> [PartIds -> Nat]]
    /\ pc \in PCs
    /\ day \in Days \union {NoTime} /\ now \in Times
    /\ listed \in Digests \union {<<>>} /\ queue \in SUBSET PartIds
    /\ part \in PartIds \union {0} /\ attempt \in 0..SendAttempts
    /\ wake \in Times

\* Copies of a part beyond the one that was recorded, or is about to be, and
\* beyond one for each crash and lost reply.
Unexplained(d, k) ==
    LET kept == IF k \in recorded[d] \/ (pc = "mark" /\ day = d /\ part = k) THEN 1 ELSE 0
    IN  copies[d][k] - kept - faults

\* At least once, and no more often than the crash window explains: beyond
\* the copy that was recorded, or is about to be, the chat holds a further
\* copy of a part only for a crash or a lost reply, over every retry of
\* sendFuncWithRetry, of Tick and of a restarted process.
DuplicatesNeedFaults == \A d \in Days, k \in PartIds : Unexplained(d, k) <= 0

\* A run whose status is 'sent', which Prepare never looks at again, has a
\* snapshot of which every part was accepted by Telegram.
SentMeansDelivered ==
    \A d \in Days : runs[d].status = "sent" =>
        /\ snapshot[d] # <<>>
        /\ \A k \in DOMAIN snapshot[d] : copies[d][k] > 0

\* Retries resume from the first part that is not recorded: the chat never
\* shows a part before the parts ahead of it are recorded, whatever crashed
\* or failed in between.
InOrder ==
    \A d \in Days, k \in PartIds :
        copies[d][k] > 0 => \A j \in PartIds : j < k => j \in recorded[d]

\* A failed run is either due for a retry or out of attempts, whichever of
\* Fail and RecoverStale failed it, and no other run is out of attempts.
WithinBudget(run) ==
    /\ run.attempts <= MaxAttempts
    /\ run.status = "failed" =>
          (run.retryAt = NoTime <=> run.attempts = MaxAttempts)
    /\ run.status # "failed" => run.attempts < MaxAttempts

RetryBudget == \A d \in Days : WithinBudget(runs[d])

\* No attempt starts outside its date's window, however long the sends and
\* sleeps before it took since Tick looked at the clock.
NoAttemptOutsideWindow ==
    [][pc # "inflight" /\ pc' = "inflight" => WindowOpen(day)]_vars

\* The tables and the chat behave as DigestDelivery says.
Delivery == INSTANCE DigestDelivery WITH
    MaxParts <- Limit, Payloads <- SUBSET Items,
    digest <- snapshot, delivered <- copies,
    closed <- {d \in Days : runs[d].status = "sent"}
ImplementsDelivery == Delivery!Spec

\* Documented, and not so in the code.  After a failed run "a maintenance
\* tick every 15 minutes retries it": no attempt before it is promoted.
NoAttemptWhileFailed ==
    [][pc # "inflight" /\ pc' = "inflight" => runs[day].status # "failed"]_vars

\* Documented, and not so in the code.  "MarkSent marks a run sent after all
\* parts have been recorded as delivered."
MarkSentTakesEffect ==
    [][pc = "loop" /\ pc' = "idle" /\ snapshot[day] # <<>> /\ Pending(day) = {}
         => runs'[day].status = "sent"]_vars
=============================================================================
