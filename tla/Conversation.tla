---------------------------- MODULE Conversation ----------------------------
(***************************************************************************)
(* The wizards: the one draft of conversation_states, the buttons that     *)
(* steps have put on the user's screens, and the texts the user sends.     *)
(*                                                                         *)
(* The user may press any button that was ever shown, any number of times  *)
(* and in any order: a callback is not looked up in processed_updates, so  *)
(* one delivered again is one pressed again.  A text is looked up there,   *)
(* and is delivered again only if its handling ended before MarkProcessed. *)
(* saveDraft writes the draft and then sends the prompt of the next step;  *)
(* sending may fail and the process may die in between.                    *)
(*                                                                         *)
(* Updates are handled one at a time under Bot.mu and nothing else writes  *)
(* the table, so reading the draft and writing it is one step and the      *)
(* version SaveStateVersion compares is always the one that was read.      *)
(* A service's answer is stored or refused, whichever; BacklogServices has *)
(* the reasons.  A button too long for Telegram is a token of 24 hours,    *)
(* made with the step it belongs to and so valid for as long as its draft. *)
(***************************************************************************)
EXTENDS Naturals

CONSTANTS
    Nonces,      \* nonces NewID and callbackNonce may return
    Texts,       \* the updates that carry a text
    Chosen,      \* an answer given with a button
    Unset,       \* no answer
    None,        \* no draft, no content
    MaxFaults    \* bound: prompts that are not sent, processes that die

ASSUME ValuesAssumption ==
    /\ Chosen # Unset /\ Chosen \notin Texts /\ Unset \notin Texts
    /\ MaxFaults \in Nat

VARIABLES
    draft,      \* the row in conversation_states
    shown,      \* buttons on the user's screens
    previewed,  \* previewed[n]: what the latest preview under n showed
    saved,      \* saved[n]: what was stored under the receipt of n
    processed,  \* texts in processed_updates
    taken,      \* taken[t]: how often text t was taken for an answer
    unmarked,   \* texts whose handling ended before MarkProcessed
    faults      \* prompts not sent and processes that died

vars == <<draft, shown, previewed, saved, processed, taken, unmarked, faults>>

Fields == {"name", "description", "title", "project", "quadrant", "deadline",
           "notes", "value"}
Answers == Texts \union {Chosen, Unset}
NoAnswers == [f \in Fields |-> Unset]

Steps(flow) ==
    CASE flow = "project" -> {"name", "description", "confirm"}
      [] flow = "backlog" -> {"title", "project", "quadrant", "deadline", "date",
                              "notes", "confirm"}
      [] flow = "edit" -> {"value", "input", "confirm"}
Flows == {"project", "backlog", "edit"}
Creates == {"project", "backlog"}

Draft == [flow : Flows, step : UNION {Steps(f) : f \in Flows}, nonce : Nonces,
          data : [Fields -> Answers], expired : BOOLEAN]

Acts == {"skipdesc", "saveproject", "pickproject", "quadrant", "date", "custom",
         "skipnotes", "savebacklog", "editvalue", "moveproject", "editproject",
         "editdraft", "saveedit"}
Button == [act : Acts, nonce : Nonces]

Content == [flow : Flows, data : [Fields -> Answers]]
ContentOf(d) == [flow |-> d.flow, data |-> d.data]

ASSUME NoneAssumption == None \notin Draft /\ None \notin Content

\* The buttons a step's prompt has, the ones without a nonce aside.  The
\* preview of an edit offers moveproject, which only the first step accepts.
KeysOf(d) ==
    LET acts == CASE d.step = "description" -> {"skipdesc"}
                  [] d.step = "project" -> {"pickproject"}
                  [] d.step = "quadrant" -> {"quadrant"}
                  [] d.step = "deadline" -> {"date", "custom"}
                  [] d.step = "notes" -> {"skipnotes"}
                  [] d.step = "value" -> {"editvalue", "moveproject"}
                  [] d.flow = "project" /\ d.step = "confirm" -> {"saveproject"}
                  [] d.flow = "backlog" /\ d.step = "confirm" -> {"savebacklog"}
                  [] d.flow = "edit" /\ d.step = "confirm" ->
                        {"saveedit", "editdraft", "moveproject"}
                  [] OTHER -> {}
    IN  [act : acts, nonce : {d.nonce}]

Init ==
    /\ draft = None
    /\ shown = {}
    /\ previewed = [n \in Nonces |-> None]
    /\ saved = [n \in Nonces |-> None]
    /\ processed = {}
    /\ taken = [t \in Texts |-> 0]
    /\ unmarked = {}
    /\ faults = 0

-----------------------------------------------------------------------------
(* saveDraft. *)

\* The draft is stored for 24 hours from now.
Store(d) == draft' = [d EXCEPT !.expired = FALSE]

\* Its prompt reaches the user.
Prompt(d) ==
    /\ shown' = shown \union KeysOf(d)
    /\ previewed' = IF d.step = "confirm"
                    THEN [previewed EXCEPT ![d.nonce] = ContentOf(d)]
                    ELSE previewed

Fault == faults < MaxFaults /\ faults' = faults + 1

\* Handling a callback: nothing comes of a prompt that is not sent.
SaveDraft(d) ==
    /\ Store(d)
    /\ \/ Prompt(d) /\ UNCHANGED faults
       \/ Fault /\ UNCHANGED <<shown, previewed>>
    /\ UNCHANGED <<saved, processed, taken, unmarked>>

\* Handling a text: a prompt that is not sent, or a process that dies before
\* MarkProcessed, leaves an update that may come again.
SaveDraftFromText(d, t) ==
    /\ Store(d)
    /\ taken' = [taken EXCEPT ![t] = @ + 1]
    /\ \/ /\ Prompt(d)
          /\ processed' = processed \union {t}
          /\ UNCHANGED <<unmarked, faults>>
       \/ /\ Fault
          /\ Prompt(d) \/ UNCHANGED <<shown, previewed>>
          /\ unmarked' = unmarked \union {t}
          /\ UNCHANGED processed
    /\ UNCHANGED saved

Fresh(n) ==
    /\ draft # None => draft.nonce # n
    /\ saved[n] = None
    /\ \A b \in shown : b.nonce # n

-----------------------------------------------------------------------------
(* The wizards begin, and end without being saved. *)

NewDraft(flow, step, n, data) ==
    [flow |-> flow, step |-> step, nonce |-> n, data |-> data, expired |-> FALSE]

StartProject(n) == Fresh(n) /\ SaveDraft(NewDraft("project", "name", n, NoAnswers))

\* The backlog wizard's answers stay in the payload; nothing reads them again.
StartNestedProject(n) ==
    /\ draft # None /\ draft.flow = "backlog"
    /\ Fresh(n)
    /\ SaveDraft(NewDraft("project", "name", n, draft.data))

StartBacklog(n) == Fresh(n) /\ SaveDraft(NewDraft("backlog", "title", n, NoAnswers))

\* The draft of an item's edit has its project, that of a project's has none.
StartEdit(n) ==
    /\ Fresh(n)
    /\ \E project \in {Chosen, Unset} :
        SaveDraft(NewDraft("edit", "value", n, [NoAnswers EXCEPT !["project"] = project]))

Cancel ==
    /\ draft # None
    /\ draft' = None
    /\ UNCHANGED <<shown, previewed, saved, processed, taken, unmarked, faults>>

\* 24 hours have gone by.
Expire ==
    /\ draft # None /\ ~draft.expired
    /\ draft' = [draft EXCEPT !.expired = TRUE]
    /\ UNCHANGED <<shown, previewed, saved, processed, taken, unmarked, faults>>

-----------------------------------------------------------------------------
(* Handler.message. *)

Move(field, value, step) == [draft EXCEPT !.data[field] = value, !.step = step]

AtText(flow, step) ==
    draft # None /\ draft.flow = flow /\ draft.step = step /\ ~draft.expired

\* A text that is valid for the step at hand.
TextStep(t) ==
    \/ AtText("project", "name")
        /\ SaveDraftFromText(Move("name", t, "description"), t)
    \/ AtText("project", "description")
        /\ SaveDraftFromText(Move("description", t, "confirm"), t)
    \/ AtText("edit", "input")
        /\ SaveDraftFromText(Move("value", t, "confirm"), t)
    \/ AtText("backlog", "title")
        /\ SaveDraftFromText(Move("title", t, "project"), t)
    \/ AtText("backlog", "date")
        /\ SaveDraftFromText(Move("deadline", t, "notes"), t)
    \/ AtText("backlog", "notes")
        /\ SaveDraftFromText(Move("notes", t, "confirm"), t)

\* One that is not, or finds no draft or another step: the user is told.
TextRefused(t) ==
    /\ processed' = processed \union {t}
    /\ UNCHANGED <<draft, shown, previewed, saved, taken, unmarked, faults>>

\* Mutant: the update is not looked up in processed_updates.
Message_NotLookedUp(t) == TextStep(t) \/ TextRefused(t)

Message(t) ==
    /\ t \notin processed
    /\ TextStep(t) \/ TextRefused(t)

-----------------------------------------------------------------------------
(* Handler.callbackV2: the steps taken with a button.  A project picked may *)
(* have been archived since: the button is answered as stale, as any that   *)
(* does not fit the draft.                                                  *)

Pressed(act, n) == [act |-> act, nonce |-> n] \in shown

\* Mutant: the button is for any draft of its flow.
VerifyDraft_AnyDraft(flow, step, n) == draft # None /\ draft.flow = flow /\ ~draft.expired

\* Mutant: the draft's expiry is not compared.
VerifyDraft_Expired(flow, step, n) ==
    draft # None /\ draft.flow = flow /\ draft.step = step /\ draft.nonce = n

VerifyDraft(flow, step, n) ==
    draft # None /\ draft.flow = flow /\ draft.step = step /\ draft.nonce = n /\ ~draft.expired

SkipV2(n) ==
    \/ /\ Pressed("skipdesc", n) /\ VerifyDraft("project", "description", n)
       /\ SaveDraft(Move("description", Chosen, "confirm"))
    \/ /\ Pressed("skipnotes", n) /\ VerifyDraft("backlog", "notes", n)
       /\ SaveDraft(Move("notes", Chosen, "confirm"))

PickV2Project(n) ==
    /\ Pressed("pickproject", n) /\ VerifyDraft("backlog", "project", n)
    /\ SaveDraft(Move("project", Chosen, "quadrant"))

PickV2Quadrant(n) ==
    /\ Pressed("quadrant", n) /\ VerifyDraft("backlog", "quadrant", n)
    /\ SaveDraft(Move("quadrant", Chosen, "deadline"))

\* Mutant: the step that asks for a date is not the one message answers.
PickV2Date_OtherStep(n) ==
    \/ /\ Pressed("date", n) /\ VerifyDraft("backlog", "deadline", n)
       /\ SaveDraft(Move("deadline", Chosen, "notes"))
    \/ /\ Pressed("custom", n) /\ VerifyDraft("backlog", "deadline", n)
       /\ SaveDraft([draft EXCEPT !.step = "custom"])

\* Mutant: the step is read from the button, not from the draft.
PickV2Date_AnyStep(n) ==
    /\ Pressed("date", n) \/ Pressed("custom", n)
    /\ draft # None /\ draft.flow = "backlog" /\ draft.nonce = n /\ ~draft.expired
    /\ \/ SaveDraft(Move("deadline", Chosen, "notes"))
       \/ SaveDraft([draft EXCEPT !.step = "date"])

PickV2Date(n) ==
    \/ /\ Pressed("date", n) /\ VerifyDraft("backlog", "deadline", n)
       /\ SaveDraft(Move("deadline", Chosen, "notes"))
    \/ /\ Pressed("custom", n) /\ VerifyDraft("backlog", "deadline", n)
       /\ SaveDraft([draft EXCEPT !.step = "date"])

\* The button's nonce is compared with itself and becomes the draft's.
EditValue(n) ==
    /\ draft # None /\ draft.flow = "edit" /\ draft.step = "value" /\ ~draft.expired
    /\ \/ /\ Pressed("editvalue", n)
          /\ SaveDraft([draft EXCEPT !.step = "input", !.nonce = n])
       \/ /\ Pressed("editproject", n)
          /\ SaveDraft([draft EXCEPT !.step = "confirm", !.nonce = n,
                                     !.data = [@ EXCEPT !["project"] = Chosen,
                                                        !["value"] = Chosen]])

EditDraft(n) ==
    /\ Pressed("editdraft", n) /\ VerifyDraft("edit", "confirm", n)
    /\ SaveDraft([draft EXCEPT !.step = "input"])

\* Shows the projects an item can move to; the draft stays as it is.
MoveProject(n) ==
    /\ Pressed("moveproject", n) /\ VerifyDraft("edit", "value", n)
    /\ draft.data["project"] # Unset
    /\ shown' = shown \union {[act |-> "editproject", nonce |-> n]}
    /\ UNCHANGED <<draft, previewed, saved, processed, taken, unmarked, faults>>

-----------------------------------------------------------------------------
(* The saves: the receipt, then the draft, whose expiry is not looked at. *)

\* Mutant: the button's nonce is not compared with the draft's.
SaveDraftOf_AnyNonce(flow, n) ==
    /\ draft # None /\ draft.flow = flow /\ draft.step = "confirm"
    /\ saved[n] = None
    /\ saved' = [saved EXCEPT ![n] = ContentOf(draft)]
    /\ draft' = None
    /\ UNCHANGED <<shown, previewed, processed, taken, unmarked, faults>>

\* What was stored under n goes with its receipt and the draft's deletion, in
\* one transaction.
SaveDraftOf(flow, n) ==
    /\ draft # None /\ draft.flow = flow /\ draft.step = "confirm" /\ draft.nonce = n
    /\ saved[n] = None
    /\ saved' = [saved EXCEPT ![n] = ContentOf(draft)]
    /\ draft' = None
    /\ UNCHANGED <<shown, previewed, processed, taken, unmarked, faults>>

SaveV2Project(n) == Pressed("saveproject", n) /\ SaveDraftOf("project", n)
SaveV2Backlog(n) == Pressed("savebacklog", n) /\ SaveDraftOf("backlog", n)
SaveEdit(n) == Pressed("saveedit", n) /\ SaveDraftOf("edit", n)

-----------------------------------------------------------------------------
Begin(n) == StartProject(n) \/ StartNestedProject(n) \/ StartBacklog(n) \/ StartEdit(n)

Press(n) ==
    \/ SkipV2(n) \/ PickV2Project(n) \/ PickV2Quadrant(n) \/ PickV2Date(n)
    \/ EditValue(n) \/ EditDraft(n) \/ MoveProject(n)
    \/ SaveV2Project(n) \/ SaveV2Backlog(n) \/ SaveEdit(n)

Next ==
    \/ \E n \in Nonces : Begin(n) \/ Press(n)
    \/ \E t \in Texts : Message(t)
    \/ Cancel \/ Expire

Spec == Init /\ [][Next]_vars

-----------------------------------------------------------------------------
(* Properties. *)

TypeOK ==
    /\ draft \in Draft \union {None}
    /\ draft # None => draft.step \in Steps(draft.flow)
    /\ shown \subseteq Button
    /\ previewed \in [Nonces -> Content \union {None}]
    /\ saved \in [Nonces -> Content \union {None}]
    /\ processed \subseteq Texts
    /\ taken \in [Texts -> Nat]
    /\ unmarked \subseteq Texts
    /\ faults \in 0..MaxFaults

\* The questions a wizard has had answered by the time it is at a step.
Asked(flow, step) ==
    CASE flow = "project" /\ step = "description" -> {"name"}
      [] flow = "project" /\ step = "confirm" -> {"name", "description"}
      [] flow = "backlog" /\ step = "project" -> {"title"}
      [] flow = "backlog" /\ step = "quadrant" -> {"title", "project"}
      [] flow = "backlog" /\ step \in {"deadline", "date"} -> {"title", "project", "quadrant"}
      [] flow = "backlog" /\ step = "notes" -> {"title", "project", "quadrant", "deadline"}
      [] flow = "backlog" /\ step = "confirm" ->
            {"title", "project", "quadrant", "deadline", "notes"}
      [] flow = "edit" /\ step = "confirm" -> {"value"}
      [] OTHER -> {}

\* No question is skipped: whatever old buttons are pressed and whatever is
\* delivered again, a draft at a step has an answer to every question before
\* it, and one at its preview to all of them.
NoQuestionSkipped ==
    draft # None => \A f \in Asked(draft.flow, draft.step) : draft.data[f] # Unset

\* An answer given in a wizard that creates is not taken back or given again
\* by a button of an earlier step or a text that comes again: such a wizard
\* only goes forward.
AnswersStay ==
    [][draft # None /\ draft' # None /\ draft'.nonce = draft.nonce
            /\ draft.flow \in Creates /\ draft'.step # draft.step =>
        /\ \A f \in Fields : draft.data[f] # Unset => draft'.data[f] = draft.data[f]
        /\ draft'.data # draft.data \/ draft'.step = "date"]_vars

\* What is stored as a new project or item is what the latest preview under
\* its nonce showed the user, even if prompts were lost and drafts replaced.
SavedWasPreviewed ==
    \A n \in Nonces :
        saved[n] # None /\ saved[n].flow \in Creates => saved[n] = previewed[n]

\* A text answers one question.  Only if its handling ended before
\* MarkProcessed can it come again and answer the next one as well.
TextAnswersOnce ==
    \A t \in Texts : taken[t] > 1 => t \in unmarked

\* A draft that has expired takes no more answers: it stays as it is until it
\* is saved, cancelled or replaced by a draft at its first step.
ExpiredTakesNoAnswer ==
    [][draft # None /\ draft' # None /\ draft.expired /\ draft' # draft =>
        draft'.step \in {"name", "title", "value"}]_vars
=============================================================================
