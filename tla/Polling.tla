------------------------------ MODULE Polling ------------------------------
(***************************************************************************)
(* How an update comes from Telegram to a handler, and what binds the      *)
(* chat.  Telegram keeps the updates from `confirmed' on.  The goroutine   *)
(* of GetUpdatesChan asks for updates, which confirms the ones before its  *)
(* offset whether or not they are handled, and puts them in a channel;     *)
(* Bot.Poll takes them out and handles them one at a time.                 *)
(*                                                                         *)
(* Updates are numbered as they are posted, and a channel keeps their      *)
(* order: the handler has update `taken' or is done with it, the channel   *)
(* holds taken+1 .. offset-1, and offset .. fetched were fetched and wait  *)
(* for room in the channel.  The process may die, or be stopped, between   *)
(* any two steps: main returns without waiting for its loops.              *)
(***************************************************************************)
EXTENDS Integers, Sequences

CONSTANTS
    Chats,        \* private chats with the authorized user
    Explicit,     \* values TELEGRAM_AUTHORIZED_CHAT_ID may have
    None,         \* no chat
    Buffer,       \* capacity of the channel
    MaxUpdates,   \* bound: updates posted
    MaxDeaths     \* bound: deaths of the process

ASSUME ChatsAssumption == Explicit \subseteq Chats /\ None \notin Chats
ASSUME BoundsAssumption ==
    Buffer \in Nat \ {0} /\ MaxUpdates \in Nat /\ MaxDeaths \in Nat

VARIABLES
    posted,      \* updates, by number
    confirmed,   \* the first update Telegram still keeps
    pc,          \* what Bot.Poll is at; "down" without process
    offset,      \* the library's offset: the next update to put
    fetched,     \* the last update of the library's answer
    taken,       \* the last update taken from the channel
    bound,       \* Bot.chatID if Bot.bound, None otherwise
    stored,      \* the row in authorized_chat_binding
    processed,   \* processed_updates
    runs,        \* runs[i]: how often a handler ran for update i
    seen,        \* updates Bot.handle has returned from: handled, ignored, or given
                 \* up with an error, even before a handler ran
    deaths       \* how often the process died

telegram == <<posted, confirmed>>
library == <<offset, fetched>>
tables == <<stored, processed>>
vars == <<telegram, library, tables, pc, taken, bound, runs, seen, deaths>>

Kinds == {"start", "text", "callback"}
Update == [kind : Kinds, chat : Chats]
UpdateIds == 1..MaxUpdates
Hand == posted[taken]

Init ==
    /\ posted = <<>> /\ confirmed = 1
    /\ pc = "down"
    /\ offset = 1 /\ fetched = 0 /\ taken = 0
    /\ bound = None /\ stored = None
    /\ processed = {} /\ runs = [i \in UpdateIds |-> 0] /\ seen = {}
    /\ deaths = 0

-----------------------------------------------------------------------------
(* Telegram and the library. *)

Post ==
    /\ Len(posted) < MaxUpdates
    /\ \E u \in Update : posted' = Append(posted, u)
    /\ UNCHANGED <<confirmed, library, tables, pc, taken, bound, runs, seen, deaths>>

\* The answer has some of the updates from the offset on, and none if it is
\* lost or there are none: the library asks again.
GetUpdates ==
    /\ pc # "down" /\ offset > fetched
    /\ confirmed' = offset
    /\ fetched' \in (offset - 1)..Len(posted)
    /\ UNCHANGED <<posted, offset, tables, pc, taken, bound, runs, seen, deaths>>

Put ==
    /\ pc # "down" /\ offset <= fetched
    /\ offset - 1 - taken < Buffer
    /\ offset' = offset + 1
    /\ UNCHANGED <<telegram, fetched, tables, pc, taken, bound, runs, seen, deaths>>

-----------------------------------------------------------------------------
(* Bot.Poll and Bot.handle. *)

\* Mutant: the loop does not wait for an update in the channel.
Take_NoWait ==
    /\ pc = "poll" /\ taken < Len(posted)
    /\ taken' = taken + 1
    /\ pc' = "route"
    /\ UNCHANGED <<telegram, library, tables, bound, runs, seen, deaths>>

Take ==
    /\ pc = "poll" /\ taken + 1 < offset
    /\ taken' = taken + 1
    /\ pc' = "route"
    /\ UNCHANGED <<telegram, library, tables, bound, runs, seen, deaths>>

\* handle returns and Poll goes on with the next update, error or not.
Return == pc' = "poll" /\ seen' = seen \union {taken}

\* Mutant: the loop handles an update again until there is no error.
Fail_Retry ==
    /\ pc \in {"route", "lookup", "mark"}
    /\ pc' = "route"
    /\ UNCHANGED <<telegram, library, tables, taken, bound, runs, seen, deaths>>

\* A statement or a call to Telegram fails: the error is logged.  What the
\* handler has stored by then stays.
Fail ==
    /\ pc \in {"route", "lookup", "mark"}
    /\ Return
    /\ UNCHANGED <<telegram, library, tables, taken, bound, runs, deaths>>

\* BindAuthorizedChat: ON CONFLICT DO NOTHING, and then what the row says.
BindAuthorizedChat(chat) == stored' = IF stored = None THEN chat ELSE stored

Bindable == bound = None /\ Hand.kind = "start"

\* The first exact /start binds its chat and is then handled as any text.
BindStart ==
    /\ pc = "route" /\ Bindable
    /\ BindAuthorizedChat(Hand.chat)
    /\ IF stored' = Hand.chat
       THEN bound' = Hand.chat /\ pc' = "lookup" /\ UNCHANGED seen
       ELSE Return /\ UNCHANGED bound
    /\ UNCHANGED <<telegram, library, taken, processed, runs, deaths>>

\* Mutant: an early return leaves Bot.mu locked.
Ignore_Locked ==
    /\ pc = "route" /\ Hand.kind = "callback" /\ bound # Hand.chat
    /\ Return
    /\ UNCHANGED <<telegram, library, tables, taken, bound, runs, deaths>>

Ignore ==
    /\ pc = "route" /\ ~Bindable /\ bound # Hand.chat
    /\ Return
    /\ UNCHANGED <<telegram, library, tables, taken, bound, runs, deaths>>

Route ==
    /\ pc = "route" /\ bound = Hand.chat
    /\ pc' = IF Hand.kind = "callback" THEN "handle" ELSE "lookup"
    /\ UNCHANGED <<telegram, library, tables, taken, bound, runs, seen, deaths>>

\* Only a message is looked up in processed_updates.
IsProcessed ==
    /\ pc = "lookup"
    /\ IF taken \in processed
       THEN Return
       ELSE pc' = "handle" /\ UNCHANGED seen
    /\ UNCHANGED <<telegram, library, tables, taken, bound, runs, deaths>>

Handle ==
    /\ pc = "handle"
    /\ runs' = [runs EXCEPT ![taken] = @ + 1]
    /\ pc' = "mark"
    /\ UNCHANGED <<telegram, library, tables, taken, bound, seen, deaths>>

MarkProcessed ==
    /\ pc = "mark"
    /\ processed' = processed \union {taken}
    /\ Return
    /\ UNCHANGED <<telegram, library, taken, bound, stored, runs, deaths>>

-----------------------------------------------------------------------------
(* main and the end of the process. *)

\* Mutant: an explicit chat replaces the one that is stored.
InitializeBinding_Overwrites(explicit) ==
    IF explicit # None
    THEN stored' = explicit /\ bound' = explicit
    ELSE bound' = stored /\ UNCHANGED stored

\* Mutant: an explicit chat is taken without comparing it.
InitializeBinding_Trusting(explicit) ==
    IF explicit # None
    THEN BindAuthorizedChat(explicit) /\ bound' = explicit
    ELSE bound' = stored /\ UNCHANGED stored

\* A chat that does not match the stored one keeps the process from starting.
InitializeBinding(explicit) ==
    IF explicit # None
    THEN stored \in {None, explicit} /\ BindAuthorizedChat(explicit) /\ bound' = explicit
    ELSE bound' = stored /\ UNCHANGED stored

\* Mutant: polling starts from the latest update.
PollFrom_Latest == IF Len(posted) < confirmed THEN confirmed ELSE Len(posted)

\* Offset 0: everything Telegram still keeps.
PollFrom == confirmed

Main ==
    /\ pc = "down"
    /\ \E explicit \in Explicit \union {None} : InitializeBinding(explicit)
    /\ pc' = "poll"
    /\ offset' = PollFrom /\ fetched' = PollFrom - 1 /\ taken' = PollFrom - 1
    /\ UNCHANGED <<telegram, processed, runs, seen, deaths>>

\* A crash, a failed heartbeat, or SIGTERM.
Die ==
    /\ pc # "down" /\ deaths < MaxDeaths
    /\ deaths' = deaths + 1
    /\ pc' = "down" /\ bound' = None
    /\ UNCHANGED <<telegram, library, tables, taken, runs, seen>>

-----------------------------------------------------------------------------
Bot == BindStart \/ Ignore \/ Route \/ IsProcessed \/ Handle \/ MarkProcessed

Next == Post \/ GetUpdates \/ Put \/ Take \/ Bot \/ Fail \/ Main \/ Die

Spec == Init /\ [][Next]_vars

\* Telegram answers in the end, every call of a handler returns, the two
\* goroutines take their next step, and compose restarts the process until
\* the operator's settings let it start.
Fairness ==
    /\ WF_vars(GetUpdates /\ fetched' = Len(posted))
    /\ WF_vars(Put)
    /\ WF_vars(Take)
    /\ WF_vars(Bot)
    /\ WF_vars(Main)

FairSpec == Spec /\ Fairness

-----------------------------------------------------------------------------
(* Properties. *)

\* The channel lies between what was taken and what was fetched, and
\* Telegram keeps every update that was not put.
TypeOK ==
    /\ posted \in Seq(Update) /\ Len(posted) <= MaxUpdates
    /\ confirmed \in 1..Len(posted) + 1
    /\ pc \in {"poll", "route", "lookup", "handle", "mark", "down"}
    /\ offset \in Nat /\ fetched \in 0..Len(posted) /\ taken \in 0..Len(posted)
    /\ pc # "down" => /\ taken < offset /\ offset <= fetched + 1
                      /\ confirmed <= offset /\ offset - 1 - taken <= Buffer
    /\ pc \notin {"poll", "down"} => taken # 0
    /\ bound \in Chats \union {None} /\ stored \in Chats \union {None}
    /\ processed \subseteq UpdateIds /\ seen \subseteq UpdateIds
    /\ runs \in [UpdateIds -> Nat]
    /\ deaths \in 0..MaxDeaths

\* The process still has update i before it.
InProcess(i) ==
    /\ pc # "down"
    /\ i \in taken + 1..fetched \/ (i = taken /\ pc # "poll")

Lost == {i \in 1..confirmed - 1 : i \notin seen /\ ~InProcess(i)}

\* An update is lost, that is, confirmed but neither seen by Bot.handle nor
\* going to be, only in the moment the process dies with it: not by a full
\* channel, a lost answer, or a restart.  One whose lookup, handler or
\* MarkProcessed failed was seen: its error is logged, and nobody retries it.
LostOnlyAtDeath == [][Lost' # Lost => pc # "down" /\ pc' = "down"]_vars

\* A handler runs again for an update, a callback or a text that was not
\* marked, only in another process: once for each time the process died.
RepeatsNeedDeaths == \A i \in UpdateIds : runs[i] <= 1 + deaths

\* The chat that was bound first stays, whatever is configured later.
BindingIsKept == [][stored # None => stored' = stored]_vars

\* No handler runs for an update of a chat that is not the stored one.
ServesTheStoredChat == [][runs' # runs => posted[taken].chat = stored]_vars

\* Every update is handled, ignored or given up with an error in the end, or
\* lost.
EveryUpdateIsSeen ==
    \A i \in UpdateIds : Len(posted) >= i ~> i \in seen \union Lost
=============================================================================
