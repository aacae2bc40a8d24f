------------------------------ MODULE Runtime ------------------------------
(***************************************************************************)
(* The process around the scheduler: main starts the heartbeat, the        *)
(* polling loop and the scheduler's, both loops write one pulse, and the   *)
(* heartbeat ends the process once the pulse is older than PulseLimit.     *)
(* Compose starts it again.  The scheduler is Notification's, with calls   *)
(* to Telegram that may never return: the HTTP client has no timeout.      *)
(*                                                                         *)
(* The polling loop's part is the pulse it writes when an update arrives   *)
(* and the binding; Polling has the rest.  A heartbeat that cannot be      *)
(* written and a failed integrity check end the process: Crash.            *)
(***************************************************************************)
EXTENDS Notification

CONSTANTS
    PulseLimit,   \* age of the pulse at which the heartbeat gives up
    MaxUpdates    \* bound: updates that arrive

ASSUME HeartbeatAssumption == PulseLimit \in Nat /\ MaxUpdates \in Nat

VARIABLES
    pulse,     \* main's pulse: when a loop last came round; NoTime without process
    updates,   \* updates the polling loop has taken
    asked,     \* until when Telegram's last Retry-After asks to wait, 0 if over
    hung       \* the call to Telegram under way will never return

runtimeVars == <<vars, pulse, updates, asked, hung>>

RuntimeInit == Init /\ pulse = clock /\ updates = 0 /\ asked = 0 /\ hung = FALSE

-----------------------------------------------------------------------------
(* Scheduler.Run: Alive and then Tick, on start and at every tick.          *)
Round ==
    /\ Scheduler
    /\ pulse' = IF pc = "idle" THEN clock ELSE pulse
    /\ UNCHANGED <<updates, asked, hung>>

\* What a call to Telegram comes to, a 429 and its Retry-After apart; without
\* a chat, ErrChatNotBound and no call at all.
SendReturns ==
    /\ ~hung /\ Reply
    /\ \/ UNCHANGED asked
       \/ /\ bound /\ Transient /\ pc' = "sleep" /\ wake' > clock
          /\ asked' = wake'
    /\ UNCHANGED <<pulse, updates, hung>>

\* The connection is there and no reply comes, now or later.  (A message that
\* was taken all the same: Accepted, and the process ends before MarkPartSent.)
Hang ==
    /\ pc = "inflight" /\ bound /\ ~hung
    /\ hung' = TRUE
    /\ UNCHANGED <<vars, pulse, updates, asked>>

\* Bot.Poll takes an update, the one that binds the chat among them.  While a
\* handler hangs in a call to Telegram none is taken.
Poll ==
    /\ pc # "down" /\ updates < MaxUpdates
    /\ updates' = updates + 1
    /\ pulse' = clock
    /\ Bind \/ UNCHANGED vars
    /\ UNCHANGED <<asked, hung>>

\* Mutant: a pulse at its limit is stale.
PulseIsStale_AtLimit == clock - pulse >= PulseLimit

PulseIsStale == clock - pulse > PulseLimit

\* Mutant: the heartbeat writes the pulse as well.
Heartbeat_OwnPulse ==
    /\ pc # "down" /\ PulseIsStale
    /\ pulse' = clock
    /\ UNCHANGED <<vars, updates, asked, hung>>

\* heartbeat returns an error and main exits, whatever Tick is at.
Heartbeat ==
    /\ pc # "down" /\ PulseIsStale
    /\ Leave("down") /\ pulse' = NoTime /\ hung' = FALSE
    /\ UNCHANGED <<tables, outside, updates, asked>>

\* The process dies for another reason, a graceful stop among them: main
\* does not wait for its loops.
Die == Crash /\ pulse' = NoTime /\ hung' = FALSE /\ UNCHANGED <<updates, asked>>

\* main: the pulse starts with the process.
Main == Restart /\ pulse' = clock /\ UNCHANGED <<updates, asked, hung>>

\* A clock unit is longer than the 15 seconds of the tickers: in it the
\* heartbeat looks at the pulse, an idle scheduler comes round, a sleep that is
\* over ends and a send without a chat is refused.
Pass ==
    /\ Advance
    /\ pc # "down" => ~PulseIsStale
    /\ pc = "idle" => pulse = clock
    /\ pc = "sleep" => clock < wake
    /\ pc = "inflight" => bound
    /\ asked' = IF clock' < asked THEN asked ELSE 0
    /\ UNCHANGED <<pulse, updates, hung>>

RuntimeNext ==
    \/ Round \/ SendReturns \/ Hang \/ Poll
    \/ Heartbeat \/ Die \/ Main \/ Pass

RuntimeSpec == RuntimeInit /\ [][RuntimeNext]_runtimeVars

\* The goroutines take their next step, compose restarts the process, and
\* the clock goes on while the scheduler waits.  Without a chat the scheduler
\* needs nobody to go on; with one, nothing says that a call to Telegram
\* returns: it may hang instead, and then only the end of the process ends it.
RuntimeFairness ==
    /\ WF_runtimeVars(Round)
    /\ WF_runtimeVars(~bound /\ SendReturns)
    /\ WF_runtimeVars(Heartbeat)
    /\ WF_runtimeVars(Main)
    /\ WF_runtimeVars(pc \in {"sleep", "inflight"} /\ Pass)

RuntimeFairSpec == RuntimeSpec /\ RuntimeFairness

\* What the digest needs of Telegram: a message that is offered again and
\* again, by calls that do not hang, is accepted in the end.
TelegramAccepts == SF_runtimeVars(Accepted /\ SendReturns)

-----------------------------------------------------------------------------
(* Properties. *)

\* If Telegram accepts what it is offered again and again, then with a chat
\* bound and the window open the digest is delivered in full or the window
\* closes.  Nothing else ends it: no failure, exhausted retry budget, crash,
\* abandoned 'sending' row, hung call or end by the heartbeat.
DeliveredWhileOpen ==
    TelegramAccepts =>
        \A d \in Days :
            (bound /\ WindowOpen(d)) ~>
                ((snapshot[d] # <<>> /\ Pending(d) = {}) \/ ~WindowOpen(d))

\* A call to Telegram that never returns does not stop the digest for good:
\* once no update comes to keep the pulse fresh, the heartbeat ends the process,
\* and a new one begins its tick from the tables.
HungCallEnds ==
    (hung /\ updates = MaxUpdates /\ clock + PulseLimit < MaxClock)
        ~> pc = "retry"

\* The heartbeat, too, ends processes between the acceptance of a copy and
\* MarkPartSent: duplicates that no crash and no lost reply explains.  Each of
\* them takes a silence of its own, longer than PulseLimit: a process that was
\* started again, or heard of an update, is given the whole of it.
DuplicatesNeedSilence ==
    \A d \in Days, k \in PartIds : Unexplained(d, k) * (PulseLimit + 1) <= clock

\* Documented, and not so in the code.  "Telegram 429 honors `Retry-After`
\* when it remains inside the 12:00 cutoff": no attempt before it is over.
RetryAfterHonored ==
    [][pc # "inflight" /\ pc' = "inflight" => clock >= asked]_runtimeVars
=============================================================================
