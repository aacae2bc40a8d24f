---------------------------- MODULE PollingProofs ----------------------------
(***************************************************************************)
(* Proofs about Polling.  The invariant relates the numbers of one life of *)
(* the process (what was confirmed, taken, put and fetched) to what was    *)
(* seen and run before and in it, and the memory's chat to the stored one. *)
(***************************************************************************)
EXTENDS Polling, TLAPS

\* In this life every update before the hand was seen.
SeenInv ==
    pc # "down" => \A i \in Nat :
        confirmed <= i /\ (i < taken \/ (i = taken /\ pc = "poll")) => i \in seen

\* What was not run in this life ran at most once in each earlier one.
RunInv ==
    \A i \in UpdateIds :
        /\ runs[i] <= 1 + deaths
        /\ pc = "down" \/ i > taken \/ (i = taken /\ pc \in {"route", "lookup", "handle"})
             => runs[i] <= deaths

\* The memory's chat is the row's, and past the check the update is its.
BoundInv ==
    /\ bound # None => bound = stored
    /\ pc \in {"lookup", "handle", "mark"} => Hand.chat = bound

IInv == TypeOK /\ SeenInv /\ RunInv /\ BoundInv

LEMMA HandType ==
    ASSUME TypeOK, pc \notin {"poll", "down"}
    PROVE  /\ taken \in 1..Len(posted) /\ Hand \in Update
           /\ Hand.chat \in Chats /\ Hand.chat # None /\ taken \in UpdateIds
<1>1. taken \in 1..Len(posted) /\ taken \in UpdateIds
  BY BoundsAssumption DEF TypeOK, UpdateIds
<1>2. Hand \in Update
  BY <1>1 DEF TypeOK, Hand
<1>3. Hand.chat \in Chats /\ Hand.chat # None
  BY <1>2, ChatsAssumption DEF Update
<1> QED  BY <1>1, <1>2, <1>3

\* What every step of the bot has in common.
LEMMA BotFrame ==
    ASSUME TypeOK, Bot \/ Fail
    PROVE  /\ UNCHANGED <<telegram, library, taken, deaths>>
           /\ pc \in {"route", "lookup", "handle", "mark"} /\ pc' # "down"
           /\ pc' # "poll" => seen' = seen
           /\ pc' = "poll" => seen' = seen \union {taken}
BY DEF Bot, Fail, BindStart, Ignore, Route, IsProcessed, Handle, MarkProcessed, Return, TypeOK

-----------------------------------------------------------------------------
LEMMA InitIInv ==
    ASSUME Init
    PROVE  IInv
<1>1. TypeOK
  <2>1. posted \in Seq(Update) /\ Len(posted) = 0
    BY DEF Init
  <2>2. confirmed \in 1..Len(posted) + 1 /\ fetched \in 0..Len(posted)
        /\ taken \in 0..Len(posted)
    BY <2>1 DEF Init
  <2>3. runs \in [UpdateIds -> Nat] /\ deaths \in 0..MaxDeaths /\ Len(posted) <= MaxUpdates
    BY <2>1, BoundsAssumption DEF Init
  <2>4. /\ posted \in Seq(Update) /\ Len(posted) <= MaxUpdates
        /\ confirmed \in 1..Len(posted) + 1 /\ offset \in Nat
        /\ fetched \in 0..Len(posted) /\ taken \in 0..Len(posted)
    BY <2>1, <2>2, <2>3 DEF Init
  <2> QED  BY <2>2, <2>3, <2>4 DEF Init, TypeOK
<1>2. SeenInv /\ RunInv /\ BoundInv
  BY DEF Init, SeenInv, RunInv, BoundInv
<1> QED  BY <1>1, <1>2 DEF IInv

LEMMA StepType ==
    ASSUME TypeOK, [Next]_vars
    PROVE  TypeOK'
<1> USE ChatsAssumption, BoundsAssumption
<1>1. CASE Post
  <2>1. PICK u \in Update : posted' = Append(posted, u)
    BY <1>1 DEF Post
  <2>2. posted' \in Seq(Update) /\ Len(posted') = Len(posted) + 1 /\ Len(posted) \in Nat
    BY <2>1 DEF TypeOK
  <2>3. /\ UNCHANGED <<confirmed, offset, fetched, stored, processed, pc, taken, bound>>
        /\ UNCHANGED <<runs, seen, deaths>>
        /\ Len(posted) < MaxUpdates
    BY <1>1 DEF Post, library, tables
  <2>4. /\ Len(posted') <= MaxUpdates /\ confirmed' \in 1..Len(posted') + 1
        /\ fetched' \in 0..Len(posted') /\ taken' \in 0..Len(posted')
    BY <2>2, <2>3 DEF TypeOK
  <2> QED  BY <2>2, <2>3, <2>4 DEF TypeOK
<1>2. CASE GetUpdates
  <2>1. /\ UNCHANGED <<posted, offset, stored, processed, pc, taken, bound>>
        /\ UNCHANGED <<runs, seen, deaths>>
        /\ pc # "down" /\ offset > fetched /\ confirmed' = offset
        /\ fetched' \in offset - 1..Len(posted)
    BY <1>2 DEF GetUpdates, tables
  <2>2. /\ Len(posted) \in Nat /\ fetched \in 0..Len(posted) /\ offset \in Nat
        /\ offset = fetched + 1 /\ 1 <= offset
    BY <2>1 DEF TypeOK
  <2>3. posted' = posted /\ offset' = offset
    BY <2>1
  <2>4. confirmed' \in 1..Len(posted) + 1 /\ confirmed' <= offset
    BY <2>1, <2>2
  <2>5. fetched' \in Int /\ offset - 1 <= fetched' /\ fetched' <= Len(posted)
    BY <2>1, <2>2
  <2>6. fetched' \in 0..Len(posted)
    BY <2>2, <2>5
  <2>7. offset <= fetched' + 1
    <3>1. \A m, n \in Int : m - 1 <= n => m <= n + 1
      OBVIOUS
    <3>2. offset \in Int
      BY <2>2
    <3>3. fetched' \in Int
      BY <2>5
    <3>4. offset - 1 <= fetched'
      BY <2>5
    <3> QED  BY ONLY <3>1, <3>2, <3>3, <3>4
  <2> QED  BY <2>1, <2>3, <2>4, <2>6, <2>7 DEF TypeOK
<1>3. CASE Put
  BY <1>3 DEF Put, TypeOK, telegram, tables
<1>4. CASE Take
  BY <1>4 DEF Take, TypeOK, telegram, library, tables
<1>5. CASE Bot \/ Fail
  <2>1. /\ taken \in 1..Len(posted) /\ taken \in UpdateIds /\ Hand.chat \in Chats
    BY <1>5, BotFrame, HandType
  <2>2. UNCHANGED <<telegram, library, taken, deaths>>
    BY <1>5, BotFrame
  <2>3. CASE Fail \/ Ignore
    BY <2>1, <2>3 DEF Fail, Ignore, Return, TypeOK, telegram, library, tables
  <2>4. CASE BindStart
    BY <2>1, <2>4 DEF BindStart, BindAuthorizedChat, Return, TypeOK, telegram, library
  <2>5. CASE Route \/ IsProcessed
    BY <2>1, <2>5 DEF Route, IsProcessed, Return, TypeOK, telegram, library, tables
  <2>6. CASE Handle
    <3>1. runs' \in [UpdateIds -> Nat]
      BY <2>1, <2>6 DEF Handle, TypeOK
    <3> QED  BY <2>1, <2>6, <3>1 DEF Handle, TypeOK, telegram, library, tables
  <2>7. CASE MarkProcessed
    BY <2>1, <2>7 DEF MarkProcessed, Return, TypeOK, telegram, library
  <2> QED  BY <1>5, <2>3, <2>4, <2>5, <2>6, <2>7 DEF Bot
<1>6. CASE Main
  BY <1>6 DEF Main, InitializeBinding, BindAuthorizedChat, PollFrom, TypeOK, telegram
<1>7. CASE Die
  BY <1>7 DEF Die, TypeOK, telegram, library, tables
<1>8. CASE UNCHANGED vars
  BY <1>8 DEF vars, TypeOK, telegram, library, tables
<1> QED  BY <1>1, <1>2, <1>3, <1>4, <1>5, <1>6, <1>7, <1>8 DEF Next

LEMMA StepSeen ==
    ASSUME TypeOK, SeenInv, [Next]_vars
    PROVE  SeenInv'
<1>1. CASE Post \/ Put \/ UNCHANGED vars
  BY <1>1 DEF Post, Put, vars, SeenInv, telegram, library
<1>2. CASE GetUpdates
  BY <1>2 DEF GetUpdates, SeenInv, TypeOK
<1>3. CASE Take
  BY <1>3 DEF Take, SeenInv, TypeOK, telegram
<1>4. CASE Bot \/ Fail
  BY <1>4, BotFrame DEF SeenInv, TypeOK, telegram
<1>5. CASE Main
  BY <1>5 DEF Main, PollFrom, SeenInv, TypeOK, telegram
<1>6. CASE Die
  BY <1>6 DEF Die, SeenInv
<1> QED  BY <1>1, <1>2, <1>3, <1>4, <1>5, <1>6 DEF Next

LEMMA StepRun ==
    ASSUME TypeOK, RunInv, [Next]_vars
    PROVE  RunInv'
<1>1. CASE Post \/ Put \/ GetUpdates \/ UNCHANGED vars
  BY <1>1 DEF Post, Put, GetUpdates, vars, RunInv
<1>2. CASE Take
  BY <1>2 DEF Take, RunInv, TypeOK, UpdateIds
<1>3. CASE Handle
  <2>1. taken \in UpdateIds /\ taken' = taken /\ deaths' = deaths
    BY <1>3, HandType DEF Handle
  <2>2. /\ runs'[taken] = runs[taken] + 1
        /\ \A i \in UpdateIds \ {taken} : runs'[i] = runs[i]
    BY <1>3, <2>1 DEF Handle, TypeOK
  <2> QED  BY <1>3, <2>1, <2>2 DEF Handle, RunInv, TypeOK, UpdateIds
<1>4. CASE BindStart \/ Ignore \/ Route \/ IsProcessed \/ MarkProcessed \/ Fail
  BY <1>4 DEF BindStart, Ignore, Route, IsProcessed, MarkProcessed, Fail, Return, RunInv
<1>5. CASE Main
  BY <1>5 DEF Main, RunInv
<1>6. CASE Die
  BY <1>6 DEF Die, RunInv, TypeOK, UpdateIds
<1> QED  BY <1>1, <1>2, <1>3, <1>4, <1>5, <1>6 DEF Next, Bot

LEMMA StepBound ==
    ASSUME TypeOK, BoundInv, [Next]_vars
    PROVE  BoundInv'
<1>1. CASE Post
  <2>1. \A i \in 1..Len(posted) : posted'[i] = posted[i]
    BY <1>1 DEF Post, TypeOK
  <2>2. pc \in {"lookup", "handle", "mark"} => taken \in 1..Len(posted)
    BY HandType
  <2> QED  BY <1>1, <2>1, <2>2 DEF Post, BoundInv, Hand, tables
<1>2. CASE Put \/ GetUpdates \/ Take \/ UNCHANGED vars
  BY <1>2 DEF Put, GetUpdates, Take, vars, BoundInv, Hand, telegram, tables
<1>3. CASE BindStart
  BY <1>3 DEF BindStart, Bindable, BindAuthorizedChat, Return, BoundInv, Hand, telegram
<1>4. CASE Ignore \/ Route \/ IsProcessed \/ Handle \/ MarkProcessed \/ Fail
  BY <1>4 DEF Ignore, Route, IsProcessed, Handle, MarkProcessed, Fail, Return, BoundInv, Hand,
              telegram, tables
<1>5. CASE Main
  BY <1>5 DEF Main, InitializeBinding, BindAuthorizedChat, BoundInv, Hand
<1>6. CASE Die
  BY <1>6 DEF Die, BoundInv
<1> QED  BY <1>1, <1>2, <1>3, <1>4, <1>5, <1>6 DEF Next, Bot

\* The invariant from which the rest follows.
THEOREM Invariant == Spec => []IInv
<1>1. Init => IInv
  BY InitIInv
<1>2. IInv /\ [Next]_vars => IInv'
  BY StepType, StepSeen, StepRun, StepBound DEF IInv
<1> QED  BY <1>1, <1>2, PTL DEF Spec

\* The numbers of the queue stay in order: taken, put, fetched, posted.
THEOREM TypeCorrect == Spec => []TypeOK
<1>1. IInv => TypeOK
  BY DEF IInv
<1> QED  BY <1>1, Invariant, PTL

\* A handler runs for an update at most once in each life of the process.
THEOREM OneRunPerLife == Spec => []RepeatsNeedDeaths
<1>1. IInv => RepeatsNeedDeaths
  BY DEF IInv, RunInv, RepeatsNeedDeaths
<1> QED  BY <1>1, Invariant, PTL

-----------------------------------------------------------------------------
(* What a step may not do. *)

\* No step but the death of the process changes what is lost.
LEMMA StepLost ==
    ASSUME IInv, [Next]_vars, ~Die
    PROVE  Lost' = Lost
<1> USE DEF IInv, TypeOK, Lost, InProcess
<1>1. CASE Post \/ Put
  BY <1>1 DEF Post, Put, telegram, library
<1>2. CASE GetUpdates
  <2>1. offset = fetched + 1 /\ confirmed' = offset /\ confirmed <= offset
        /\ fetched' >= fetched
        /\ taken \in Nat /\ fetched \in Nat /\ fetched' \in Nat
        /\ pc # "down" /\ UNCHANGED <<pc, taken, seen>>
    BY <1>2 DEF GetUpdates
  <2> DEFINE Stays(i) == i \in taken + 1..fetched \/ (i = taken /\ pc # "poll")
  <2>2. \A i \in 1..offset - 1 : Stays(i) <=> (i \in taken + 1..fetched' \/ (i = taken /\ pc # "poll"))
    <3> TAKE i \in 1..offset - 1
    <3>1. i \in taken + 1..fetched <=> i \in taken + 1..fetched'
      BY <2>1
    <3> QED  BY <3>1
  <2>3. Lost = {i \in 1..confirmed - 1 : i \notin seen /\ ~Stays(i)}
    BY <2>1
  <2>4. Lost' = {i \in 1..offset - 1 : i \notin seen /\ ~Stays(i)}
    BY <2>1, <2>2
  <2>5. \A i \in 1..offset - 1 : confirmed <= i => i \in seen \/ Stays(i)
    BY <2>1 DEF SeenInv
  <2> QED  BY <2>1, <2>3, <2>4, <2>5
<1>3. CASE Take
  BY <1>3 DEF Take, telegram, library
<1>4. CASE Bot \/ Fail
  <2>1. /\ UNCHANGED <<confirmed, fetched, taken>>
        /\ pc \notin {"poll", "down"} /\ pc' # "down"
        /\ pc' # "poll" => seen' = seen
        /\ pc' = "poll" => seen' = seen \union {taken}
    BY <1>4, BotFrame DEF telegram, library
  <2> QED  BY <2>1
<1>5. CASE Main
  BY <1>5 DEF Main, PollFrom, telegram
<1>6. CASE UNCHANGED vars
  BY <1>6 DEF vars, telegram, library
<1> QED  BY <1>1, <1>2, <1>3, <1>4, <1>5, <1>6 DEF Next

\* An update that Telegram has forgotten and no handler has seen was in the
\* process when it died.
THEOREM LossNeedsADeath == Spec => LostOnlyAtDeath
<1>1. ASSUME IInv, [Next]_vars
      PROVE  [Lost' # Lost => pc # "down" /\ pc' = "down"]_vars
  BY <1>1, StepLost DEF Die
<1> QED  BY <1>1, Invariant, PTL DEF Spec, LostOnlyAtDeath

\* The binding is written once.
THEOREM BindingIsWrittenOnce == Spec => BindingIsKept
<1>1. ASSUME [Next]_vars
      PROVE  [stored # None => stored' = stored]_vars
  BY <1>1 DEF Next, Post, GetUpdates, Put, Take, Bot, Fail, BindStart, BindAuthorizedChat, Ignore,
              Route, IsProcessed, Handle, MarkProcessed, Main, InitializeBinding, Die, vars, tables
<1> QED  BY <1>1, PTL DEF Spec, BindingIsKept

\* A handler runs only for updates of the chat in the database, whatever the
\* memory and the settings say.
THEOREM OnlyTheStoredChat == Spec => ServesTheStoredChat
<1>1. ASSUME IInv, [Next]_vars, runs' # runs
      PROVE  posted[taken].chat = stored
  <2>1. Handle
    BY <1>1 DEF Next, Post, GetUpdates, Put, Take, Bot, Fail, BindStart, Ignore, Route,
                IsProcessed, MarkProcessed, Main, Die, vars
  <2>2. Hand.chat = bound /\ Hand.chat # None
    BY <1>1, <2>1, HandType DEF Handle, IInv, BoundInv
  <2> QED  BY <1>1, <2>2 DEF IInv, BoundInv, Hand
<1>2. ASSUME IInv, [Next]_vars
      PROVE  [runs' # runs => posted[taken].chat = stored]_vars
  BY <1>1, <1>2
<1> QED  BY <1>2, Invariant, PTL DEF Spec, ServesTheStoredChat
=============================================================================
