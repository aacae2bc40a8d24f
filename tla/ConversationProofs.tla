------------------------- MODULE ConversationProofs -------------------------
(***************************************************************************)
(* Proofs about Conversation.  A step begins a wizard, answers a question  *)
(* of a wizard that creates, takes an edit on, stores a draft, or leaves   *)
(* the draft's answers as they are; the forms below say what each may do,  *)
(* and the invariants follow from the forms.                               *)
(***************************************************************************)
EXTENDS Conversation, TLAPS

EditActs == {"editvalue", "moveproject", "editproject", "editdraft", "saveedit"}
SaveActs == {"saveproject", "savebacklog"}
FirstSteps == {"name", "title", "value"}

\* The questions of a wizard that creates.
Questions(flow) ==
    IF flow = "project" THEN {"name", "description"}
    ELSE {"title", "project", "quadrant", "deadline", "notes"}

\* What is not asked yet is not answered, neither in the wizard at hand nor in
\* a project's wizard begun from within it.
AheadIsUnset ==
    draft # None /\ draft.flow \in Creates =>
        /\ \A f \in Questions(draft.flow) \ Asked(draft.flow, draft.step) :
            draft.data[f] = Unset
        /\ draft.flow = "backlog" => \A f \in Questions("project") : draft.data[f] = Unset

\* A nonce is an edit's or a creating wizard's, and all its buttons are.
NoncesHaveOneUse ==
    /\ \A b, c \in shown : b.nonce = c.nonce => (b.act \in EditActs <=> c.act \in EditActs)
    /\ draft # None => \A b \in shown : b.nonce = draft.nonce =>
        (b.act \in EditActs <=> draft.flow = "edit")

\* The button that saves a creating wizard is on screen only with a preview of
\* the draft as it is.
SaveFollowsPreview ==
    draft # None /\ draft.flow \in Creates =>
        \A b \in shown : b.nonce = draft.nonce /\ b.act \in SaveActs =>
            draft.step = "confirm" /\ previewed[draft.nonce] = ContentOf(draft)

\* The nonce of a wizard that was stored is not used again.
StoredIsDone ==
    \A n \in Nonces : saved[n] # None /\ saved[n].flow \in Creates =>
        /\ draft # None => draft.nonce # n
        /\ \A b \in shown : b.nonce = n => b.act \notin EditActs

\* A text that was taken is marked, or its handling ended before that.
TextInv ==
    \A t \in Texts :
        /\ taken[t] > 0 => t \in processed \/ t \in unmarked
        /\ taken[t] > 1 => t \in unmarked

DraftInv ==
    /\ NoQuestionSkipped /\ AheadIsUnset /\ NoncesHaveOneUse /\ SaveFollowsPreview
    /\ StoredIsDone /\ SavedWasPreviewed
IInv == TypeOK /\ DraftInv /\ TextInv

-----------------------------------------------------------------------------
(* The forms of a step. *)

\* The prompt of the draft d that is stored is sent, or not.
Saves(d) ==
    /\ ~d.expired
    /\ Prompt(d) \/ UNCHANGED <<shown, previewed>>
    /\ UNCHANGED saved

Starts(d) ==
    /\ Fresh(d.nonce)
    /\ d.step \in FirstSteps
    /\ Asked(d.flow, d.step) = {}
    /\ d.flow \in Creates => \A f \in Questions(d.flow) : d.data[f] = Unset
    /\ d.flow = "backlog" => \A f \in Questions("project") : d.data[f] = Unset

Advances(d) ==
    /\ draft # None /\ ~draft.expired
    /\ draft.flow \in Creates /\ d.flow = draft.flow /\ d.nonce = draft.nonce
    /\ draft.step # "confirm"
    /\ \/ \E f \in Questions(d.flow) \ Asked(draft.flow, draft.step), a \in Answers \ {Unset} :
            /\ d.data = [draft.data EXCEPT ![f] = a]
            /\ Asked(d.flow, d.step) = Asked(draft.flow, draft.step) \union {f}
       \/ /\ d.data = draft.data /\ d.step = "date"
          /\ Asked(d.flow, d.step) = Asked(draft.flow, draft.step)

Edits(d) ==
    /\ draft # None /\ ~draft.expired
    /\ draft.flow = "edit" /\ d.flow = "edit"
    /\ \/ d.nonce = draft.nonce
       \/ \E act \in EditActs : Pressed(act, d.nonce)
    /\ d.step = "confirm" => d.data["value"] # Unset

Stores(n) ==
    /\ draft # None /\ draft.nonce = n /\ draft' = None
    /\ saved' = [saved EXCEPT ![n] = ContentOf(draft)]
    /\ draft.flow \in Creates => \E act \in SaveActs : Pressed(act, n)
    /\ UNCHANGED <<shown, previewed>>

Rests ==
    /\ \/ draft' \in {None, draft}
       \/ draft # None /\ ~draft.expired /\ draft' = [draft EXCEPT !.expired = TRUE]
    /\ \/ shown' = shown
       \/ \E n \in Nonces : /\ Pressed("moveproject", n)
                            /\ shown' = shown \union {[act |-> "editproject", nonce |-> n]}
    /\ UNCHANGED <<previewed, saved>>

Typed(d) == d \in Draft /\ d # None /\ d.step \in Steps(d.flow)

\* What a step does to texts and faults.
TextsKept == UNCHANGED <<processed, taken, unmarked>>
TextMarked(t) ==
    /\ t \notin processed /\ processed' = processed \union {t} /\ UNCHANGED unmarked
    /\ taken' = taken \/ taken' = [taken EXCEPT ![t] = @ + 1]
TextUnmarked(t) ==
    /\ t \notin processed /\ unmarked' = unmarked \union {t} /\ UNCHANGED processed
    /\ taken' = [taken EXCEPT ![t] = @ + 1]
Texting == TextsKept \/ \E t \in Texts : TextMarked(t) \/ TextUnmarked(t)
Faulting == faults' = faults \/ Fault

Form ==
    \/ /\ Typed(draft') /\ Saves(draft')
       /\ Starts(draft') \/ Advances(draft') \/ Edits(draft')
    \/ \E n \in Nonces : Stores(n)
    \/ Rests

-----------------------------------------------------------------------------
(* Every step has one of the forms. *)

\* What saving a typed, unexpired draft does, from a callback and from a text.
LEMMA CallbackSaves ==
    ASSUME NEW d, Typed(d), ~d.expired, SaveDraft(d)
    PROVE  draft' = d /\ Saves(draft') /\ TextsKept /\ Faulting
<1>1. draft' = d
  BY DEF SaveDraft, Store, Typed, Draft
<1>2. Prompt(d) \/ UNCHANGED <<shown, previewed>>
  BY DEF SaveDraft
<1> QED  BY <1>1, <1>2 DEF SaveDraft, Saves, Prompt, TextsKept, Faulting

LEMMA TextSaves ==
    ASSUME NEW d, Typed(d), ~d.expired, NEW t \in Texts, t \notin processed,
           SaveDraftFromText(d, t)
    PROVE  draft' = d /\ Saves(draft') /\ Texting /\ Faulting
<1>1. draft' = d
  BY DEF SaveDraftFromText, Store, Typed, Draft
<1>2. Prompt(d) \/ UNCHANGED <<shown, previewed>>
  BY DEF SaveDraftFromText
<1>3. TextMarked(t) \/ TextUnmarked(t)
  BY DEF SaveDraftFromText, TextMarked, TextUnmarked
<1> QED  BY <1>1, <1>2, <1>3 DEF SaveDraftFromText, Saves, Prompt, Texting, Faulting

LEMMA DraftType ==
    ASSUME TypeOK, draft # None
    PROVE  /\ draft \in Draft /\ draft.flow \in Flows /\ draft.step \in Steps(draft.flow)
           /\ draft.nonce \in Nonces /\ draft.data \in [Fields -> Answers]
           /\ draft.expired \in BOOLEAN
BY DEF TypeOK, Draft

LEMMA StepsType ==
    /\ Steps("project") = {"name", "description", "confirm"}
    /\ Steps("backlog") = {"title", "project", "quadrant", "deadline", "date", "notes", "confirm"}
    /\ Steps("edit") = {"value", "input", "confirm"}
    /\ \A flow \in Flows : \A step \in Steps(flow) : step \in UNION {Steps(f) : f \in Flows}
BY DEF Steps, Flows

LEMMA MoveType ==
    ASSUME TypeOK, draft # None, NEW field \in Fields, NEW a \in Answers,
           NEW step \in Steps(draft.flow)
    PROVE  /\ Typed(Move(field, a, step))
           /\ Move(field, a, step).flow = draft.flow
           /\ Move(field, a, step).nonce = draft.nonce
           /\ Move(field, a, step).step = step
           /\ Move(field, a, step).expired = draft.expired
           /\ Move(field, a, step).data = [draft.data EXCEPT ![field] = a]
<1>1. step \in UNION {Steps(f) : f \in Flows}
  BY DraftType, StepsType
<1>2. [draft.data EXCEPT ![field] = a] \in [Fields -> Answers]
  BY DraftType
<1>3. Move(field, a, step) \in Draft
  BY <1>1, <1>2, DraftType DEF Move, Draft
<1>4. /\ Move(field, a, step).flow = draft.flow
      /\ Move(field, a, step).nonce = draft.nonce
      /\ Move(field, a, step).step = step
      /\ Move(field, a, step).expired = draft.expired
      /\ Move(field, a, step).data = [draft.data EXCEPT ![field] = a]
  BY DraftType DEF Move, Draft
<1> QED  BY <1>3, <1>4, NoneAssumption DEF Typed

\* The draft with another step and perhaps another nonce.
LEMMA StepType ==
    ASSUME TypeOK, draft # None, NEW step \in Steps(draft.flow), NEW n \in Nonces
    PROVE  /\ Typed([draft EXCEPT !.step = step])
           /\ Typed([draft EXCEPT !.step = step, !.nonce = n])
<1>1. step \in UNION {Steps(f) : f \in Flows}
  BY DraftType, StepsType
<1>2. /\ [draft EXCEPT !.step = step] \in Draft
      /\ [draft EXCEPT !.step = step, !.nonce = n] \in Draft
  BY <1>1, DraftType DEF Draft
<1>3. /\ [draft EXCEPT !.step = step].step = step
      /\ [draft EXCEPT !.step = step].flow = draft.flow
      /\ [draft EXCEPT !.step = step, !.nonce = n].step = step
      /\ [draft EXCEPT !.step = step, !.nonce = n].flow = draft.flow
  BY DraftType DEF Draft
<1> QED  BY <1>2, <1>3, NoneAssumption DEF Typed

LEMMA AskedValues ==
    /\ Asked("project", "name") = {}
    /\ Asked("project", "description") = {"name"}
    /\ Asked("project", "confirm") = {"name", "description"}
    /\ Asked("backlog", "title") = {}
    /\ Asked("backlog", "project") = {"title"}
    /\ Asked("backlog", "quadrant") = {"title", "project"}
    /\ Asked("backlog", "deadline") = {"title", "project", "quadrant"}
    /\ Asked("backlog", "date") = {"title", "project", "quadrant"}
    /\ Asked("backlog", "notes") = {"title", "project", "quadrant", "deadline"}
    /\ Asked("backlog", "confirm") = {"title", "project", "quadrant", "deadline", "notes"}
    /\ Asked("edit", "value") = {}
    /\ Asked("edit", "input") = {}
    /\ Asked("edit", "confirm") = {"value"}
BY DEF Asked

\* An answer that takes a creating wizard from one step to the next.
LEMMA AnswerAdvances ==
    ASSUME TypeOK, draft # None, ~draft.expired, draft.flow \in Creates,
           draft.step # "confirm", NEW field \in Fields, NEW a \in Answers \ {Unset},
           field \in Questions(draft.flow) \ Asked(draft.flow, draft.step),
           NEW step \in Steps(draft.flow),
           Asked(draft.flow, step) = Asked(draft.flow, draft.step) \union {field}
    PROVE  /\ Typed(Move(field, a, step)) /\ ~Move(field, a, step).expired
           /\ Advances(Move(field, a, step))
<1>1. /\ Typed(Move(field, a, step)) /\ ~Move(field, a, step).expired
      /\ Move(field, a, step).flow = draft.flow
      /\ Move(field, a, step).nonce = draft.nonce
      /\ Move(field, a, step).step = step
      /\ Move(field, a, step).data = [draft.data EXCEPT ![field] = a]
  BY MoveType
<1> QED  BY <1>1 DEF Advances

LEMMA TextForms ==
    ASSUME TypeOK, NEW t \in Texts, t \notin processed, TextStep(t)
    PROVE  Form /\ Texting /\ Faulting
<1> USE AskedValues, StepsType
<1>0. t \in Answers \ {Unset}
  BY ValuesAssumption DEF Answers
<1>1. ASSUME NEW d, Typed(d), ~d.expired, Advances(d) \/ Edits(d), SaveDraftFromText(d, t)
      PROVE  Form /\ Texting /\ Faulting
  <2>1. draft' = d /\ Saves(draft') /\ Texting /\ Faulting
    BY <1>1, TextSaves
  <2> QED  BY <1>1, <2>1 DEF Form
<1>2. CASE AtText("project", "name") /\ SaveDraftFromText(Move("name", t, "description"), t)
  <2>1. Typed(Move("name", t, "description")) /\ ~Move("name", t, "description").expired
        /\ Advances(Move("name", t, "description"))
    BY <1>0, <1>2, AnswerAdvances DEF AtText, Creates, Questions, Fields
  <2> QED  BY <1>1, <1>2, <2>1
<1>3. CASE AtText("project", "description")
            /\ SaveDraftFromText(Move("description", t, "confirm"), t)
  <2>1. Typed(Move("description", t, "confirm")) /\ ~Move("description", t, "confirm").expired
        /\ Advances(Move("description", t, "confirm"))
    BY <1>0, <1>3, AnswerAdvances DEF AtText, Creates, Questions, Fields
  <2> QED  BY <1>1, <1>3, <2>1
<1>4. CASE AtText("backlog", "title") /\ SaveDraftFromText(Move("title", t, "project"), t)
  <2>1. Typed(Move("title", t, "project")) /\ ~Move("title", t, "project").expired
        /\ Advances(Move("title", t, "project"))
    BY <1>0, <1>4, AnswerAdvances DEF AtText, Creates, Questions, Fields
  <2> QED  BY <1>1, <1>4, <2>1
<1>5. CASE AtText("backlog", "date") /\ SaveDraftFromText(Move("deadline", t, "notes"), t)
  <2>1. Typed(Move("deadline", t, "notes")) /\ ~Move("deadline", t, "notes").expired
        /\ Advances(Move("deadline", t, "notes"))
    BY <1>0, <1>5, AnswerAdvances DEF AtText, Creates, Questions, Fields
  <2> QED  BY <1>1, <1>5, <2>1
<1>6. CASE AtText("backlog", "notes") /\ SaveDraftFromText(Move("notes", t, "confirm"), t)
  <2>1. Typed(Move("notes", t, "confirm")) /\ ~Move("notes", t, "confirm").expired
        /\ Advances(Move("notes", t, "confirm"))
    BY <1>0, <1>6, AnswerAdvances DEF AtText, Creates, Questions, Fields
  <2> QED  BY <1>1, <1>6, <2>1
<1>7. CASE AtText("edit", "input") /\ SaveDraftFromText(Move("value", t, "confirm"), t)
  <2> DEFINE d == Move("value", t, "confirm")
  <2>1. /\ Typed(d) /\ ~d.expired /\ d.flow = "edit" /\ d.nonce = draft.nonce
        /\ d.data = [draft.data EXCEPT !["value"] = t]
    BY <1>0, <1>7, MoveType DEF AtText, Fields
  <2>2. d.data["value"] = t
    BY <1>7, <2>1, DraftType DEF AtText, Fields
  <2>3. Edits(d)
    BY <1>0, <1>7, <2>1, <2>2 DEF AtText, Edits
  <2> QED  BY <1>1, <1>7, <2>1, <2>3
<1> QED  BY <1>2, <1>3, <1>4, <1>5, <1>6, <1>7 DEF TextStep

LEMMA MessageForms ==
    ASSUME TypeOK, NEW t \in Texts, Message(t)
    PROVE  Form /\ Texting /\ Faulting
<1>1. CASE TextStep(t)
  BY <1>1, TextForms DEF Message
<1>2. CASE TextRefused(t)
  <2>1. Rests
    BY <1>2 DEF TextRefused, Rests
  <2>2. TextMarked(t)
    BY <1>2 DEF Message, TextRefused, TextMarked
  <2> QED  BY <1>2, <2>1, <2>2 DEF TextRefused, Form, Texting, Faulting
<1> QED  BY <1>1, <1>2 DEF Message

LEMMA NewDraftType ==
    ASSUME NEW flow \in Flows, NEW step \in Steps(flow), NEW n \in Nonces,
           NEW data \in [Fields -> Answers]
    PROVE  /\ Typed(NewDraft(flow, step, n, data)) /\ ~NewDraft(flow, step, n, data).expired
           /\ NewDraft(flow, step, n, data).flow = flow
           /\ NewDraft(flow, step, n, data).step = step
           /\ NewDraft(flow, step, n, data).nonce = n
           /\ NewDraft(flow, step, n, data).data = data
<1> DEFINE d == NewDraft(flow, step, n, data)
<1>1. step \in UNION {Steps(f) : f \in Flows}
  BY StepsType
<1>2. d \in Draft
  BY <1>1 DEF NewDraft, Draft
<1>3. /\ d.flow = flow /\ d.step = step /\ d.nonce = n /\ d.data = data
      /\ d.expired = FALSE
  BY DEF NewDraft
<1>4. d # None
  BY <1>2, NoneAssumption
<1> QED  BY <1>2, <1>3, <1>4 DEF Typed

LEMMA BeginForms ==
    ASSUME TypeOK, AheadIsUnset, NEW n \in Nonces, Begin(n)
    PROVE  Form /\ Texting /\ Faulting
<1> USE AskedValues, StepsType
<1>1. ASSUME NEW d, Typed(d), ~d.expired, Starts(d), SaveDraft(d)
      PROVE  Form /\ Texting /\ Faulting
  <2>1. draft' = d /\ Saves(draft') /\ TextsKept /\ Faulting
    BY <1>1, CallbackSaves
  <2> QED  BY <1>1, <2>1 DEF Form, Texting
<1>2. /\ NoAnswers \in [Fields -> Answers] /\ \A f \in Fields : NoAnswers[f] = Unset
      /\ \A flow \in Flows : Questions(flow) \subseteq Fields
  BY DEF NoAnswers, Answers, Questions, Fields
<1>3. CASE StartProject(n)
  <2> DEFINE d == NewDraft("project", "name", n, NoAnswers)
  <2>1. /\ Typed(d) /\ ~d.expired /\ d.flow = "project" /\ d.step = "name" /\ d.nonce = n
        /\ d.data = NoAnswers
    BY <1>2, NewDraftType DEF Flows
  <2>2. Starts(d)
    BY <1>2, <1>3, <2>1 DEF StartProject, Starts, FirstSteps, Flows
  <2> QED  BY <1>1, <1>3, <2>1, <2>2 DEF StartProject
<1>4. CASE StartBacklog(n)
  <2> DEFINE d == NewDraft("backlog", "title", n, NoAnswers)
  <2>1. /\ Typed(d) /\ ~d.expired /\ d.flow = "backlog" /\ d.step = "title" /\ d.nonce = n
        /\ d.data = NoAnswers
    BY <1>2, NewDraftType DEF Flows
  <2>2. Starts(d)
    BY <1>2, <1>4, <2>1 DEF StartBacklog, Starts, FirstSteps, Flows
  <2> QED  BY <1>1, <1>4, <2>1, <2>2 DEF StartBacklog
<1>5. CASE StartNestedProject(n)
  <2> DEFINE d == NewDraft("project", "name", n, draft.data)
  <2>1. /\ Typed(d) /\ ~d.expired /\ d.flow = "project" /\ d.step = "name" /\ d.nonce = n
        /\ d.data = draft.data
    BY <1>5, NewDraftType, DraftType DEF StartNestedProject, Flows
  <2>2. Starts(d)
    BY <1>5, <2>1 DEF StartNestedProject, Starts, FirstSteps, AheadIsUnset, Creates
  <2> QED  BY <1>1, <1>5, <2>1, <2>2 DEF StartNestedProject
<1>6. CASE StartEdit(n)
  <2>1. PICK project \in {Chosen, Unset} :
          SaveDraft(NewDraft("edit", "value", n, [NoAnswers EXCEPT !["project"] = project]))
    BY <1>6 DEF StartEdit
  <2>2. [NoAnswers EXCEPT !["project"] = project] \in [Fields -> Answers]
    BY <1>2 DEF Answers
  <2>3. PICK data \in [Fields -> Answers] : SaveDraft(NewDraft("edit", "value", n, data))
    BY <2>1, <2>2
  <2> DEFINE d == NewDraft("edit", "value", n, data)
  <2>4. /\ Typed(d) /\ ~d.expired /\ d.flow = "edit" /\ d.step = "value" /\ d.nonce = n
    BY NewDraftType DEF Flows
  <2>5. Starts(d)
    BY <1>6, <2>4 DEF StartEdit, Starts, FirstSteps, Creates
  <2> QED  BY <1>1, <2>3, <2>4, <2>5
<1> QED  BY <1>3, <1>4, <1>5, <1>6 DEF Begin

\* The draft at another step, perhaps with another nonce: its other fields.
LEMMA StepFields ==
    ASSUME TypeOK, draft # None, NEW step, NEW n
    PROVE  /\ [draft EXCEPT !.step = step].flow = draft.flow
           /\ [draft EXCEPT !.step = step].nonce = draft.nonce
           /\ [draft EXCEPT !.step = step].data = draft.data
           /\ [draft EXCEPT !.step = step].step = step
           /\ [draft EXCEPT !.step = step].expired = draft.expired
           /\ [draft EXCEPT !.step = step, !.nonce = n].flow = draft.flow
           /\ [draft EXCEPT !.step = step, !.nonce = n].nonce = n
           /\ [draft EXCEPT !.step = step, !.nonce = n].step = step
           /\ [draft EXCEPT !.step = step, !.nonce = n].expired = draft.expired
BY DraftType DEF Draft

LEMMA PressForms ==
    ASSUME TypeOK, NEW n \in Nonces, Press(n)
    PROVE  Form /\ TextsKept /\ Faulting
<1> USE AskedValues, StepsType
<1>0. Chosen \in Answers \ {Unset}
  BY ValuesAssumption DEF Answers
<1>1. ASSUME NEW d, Typed(d), ~d.expired, Advances(d) \/ Edits(d), SaveDraft(d)
      PROVE  Form /\ TextsKept /\ Faulting
  <2>1. draft' = d /\ Saves(draft') /\ TextsKept /\ Faulting
    BY <1>1, CallbackSaves
  <2> QED  BY <1>1, <2>1 DEF Form
<1>2. CASE SkipV2(n)
  <2>1. CASE VerifyDraft("project", "description", n)
              /\ SaveDraft(Move("description", Chosen, "confirm"))
    <3>1. /\ Typed(Move("description", Chosen, "confirm"))
          /\ ~Move("description", Chosen, "confirm").expired
          /\ Advances(Move("description", Chosen, "confirm"))
      BY <1>0, <2>1, AnswerAdvances DEF VerifyDraft, Creates, Questions, Fields
    <3> QED  BY <1>1, <2>1, <3>1
  <2>2. CASE VerifyDraft("backlog", "notes", n) /\ SaveDraft(Move("notes", Chosen, "confirm"))
    <3>1. /\ Typed(Move("notes", Chosen, "confirm"))
          /\ ~Move("notes", Chosen, "confirm").expired
          /\ Advances(Move("notes", Chosen, "confirm"))
      BY <1>0, <2>2, AnswerAdvances DEF VerifyDraft, Creates, Questions, Fields
    <3> QED  BY <1>1, <2>2, <3>1
  <2> QED  BY <1>2, <2>1, <2>2 DEF SkipV2
<1>3. CASE PickV2Project(n)
  <2>1. /\ Typed(Move("project", Chosen, "quadrant"))
        /\ ~Move("project", Chosen, "quadrant").expired
        /\ Advances(Move("project", Chosen, "quadrant"))
    BY <1>0, <1>3, AnswerAdvances DEF PickV2Project, VerifyDraft, Creates, Questions, Fields
  <2> QED  BY <1>1, <1>3, <2>1 DEF PickV2Project
<1>4. CASE PickV2Quadrant(n)
  <2>1. /\ Typed(Move("quadrant", Chosen, "deadline"))
        /\ ~Move("quadrant", Chosen, "deadline").expired
        /\ Advances(Move("quadrant", Chosen, "deadline"))
    BY <1>0, <1>4, AnswerAdvances DEF PickV2Quadrant, VerifyDraft, Creates, Questions, Fields
  <2> QED  BY <1>1, <1>4, <2>1 DEF PickV2Quadrant
<1>5. CASE PickV2Date(n)
  <2>0. VerifyDraft("backlog", "deadline", n)
    BY <1>5 DEF PickV2Date
  <2>1. CASE SaveDraft(Move("deadline", Chosen, "notes"))
    <3>1. /\ Typed(Move("deadline", Chosen, "notes"))
          /\ ~Move("deadline", Chosen, "notes").expired
          /\ Advances(Move("deadline", Chosen, "notes"))
      BY <1>0, <2>0, AnswerAdvances DEF VerifyDraft, Creates, Questions, Fields
    <3> QED  BY <1>1, <2>1, <3>1
  <2>2. CASE SaveDraft([draft EXCEPT !.step = "date"])
    <3> DEFINE d == [draft EXCEPT !.step = "date"]
    <3>1. Typed(d)
      BY <2>0, StepType DEF VerifyDraft
    <3>2. /\ d.flow = draft.flow /\ d.nonce = draft.nonce /\ d.data = draft.data
          /\ d.step = "date" /\ d.expired = draft.expired
      BY <2>0, StepFields DEF VerifyDraft
    <3>3. Advances(d)
      BY <2>0, <3>2 DEF VerifyDraft, Advances, Creates
    <3> HIDE DEF d
    <3>4. SaveDraft(d)
      BY <2>2 DEF d
    <3> QED  BY <1>1, <2>0, <3>1, <3>2, <3>3, <3>4 DEF VerifyDraft
  <2> QED  BY <1>5, <2>1, <2>2 DEF PickV2Date
<1>6. CASE EditValue(n)
  <2>0. /\ draft # None /\ draft.flow = "edit" /\ draft.step = "value" /\ ~draft.expired
    BY <1>6 DEF EditValue
  <2>1. CASE Pressed("editvalue", n)
              /\ SaveDraft([draft EXCEPT !.step = "input", !.nonce = n])
    <3> DEFINE d == [draft EXCEPT !.step = "input", !.nonce = n]
    <3>1. Typed(d)
      BY <2>0, StepType
    <3>2. /\ d.flow = draft.flow /\ d.nonce = n /\ d.step = "input"
          /\ d.expired = draft.expired
      BY <2>0, StepFields
    <3>3. Edits(d)
      BY <2>0, <2>1, <3>2 DEF Edits, EditActs
    <3> HIDE DEF d
    <3>4. SaveDraft(d)
      BY <2>1 DEF d
    <3> QED  BY <1>1, <2>0, <3>1, <3>2, <3>3, <3>4
  <2>2. CASE /\ Pressed("editproject", n)
             /\ SaveDraft([draft EXCEPT !.step = "confirm", !.nonce = n,
                                        !.data = [@ EXCEPT !["project"] = Chosen,
                                                           !["value"] = Chosen]])
    <3> DEFINE data == [draft.data EXCEPT !["project"] = Chosen, !["value"] = Chosen]
               d == [draft EXCEPT !.step = "confirm", !.nonce = n, !.data = data]
    <3>1. data \in [Fields -> Answers] /\ data["value"] # Unset
      BY <1>0, <2>0, DraftType DEF Fields
    <3>2. SaveDraft(d)
      BY <2>2
    <3>3. d \in Draft
      <4> HIDE DEF data
      <4> QED  BY <2>0, <3>1, DraftType DEF Draft, Flows
    <3>4. /\ d.flow = draft.flow /\ d.nonce = n /\ d.step = "confirm"
          /\ d.expired = draft.expired /\ d.data = data
      <4> HIDE DEF data
      <4> QED  BY <2>0, DraftType DEF Draft
    <3> HIDE DEF data, d
    <3>5. Typed(d)
      BY <2>0, <3>3, <3>4, NoneAssumption DEF Typed
    <3>6. Edits(d)
      BY <2>0, <2>2, <3>1, <3>4 DEF Edits, EditActs
    <3> QED  BY <1>1, <2>0, <3>2, <3>4, <3>5, <3>6
  <2> QED  BY <1>6, <2>1, <2>2 DEF EditValue
<1>7. CASE EditDraft(n)
  <2> DEFINE d == [draft EXCEPT !.step = "input"]
  <2>0. VerifyDraft("edit", "confirm", n)
    BY <1>7 DEF EditDraft
  <2>1. Typed(d)
    BY <2>0, StepType DEF VerifyDraft
  <2>2. /\ d.flow = draft.flow /\ d.nonce = draft.nonce /\ d.step = "input"
        /\ d.expired = draft.expired
    BY <2>0, StepFields DEF VerifyDraft
  <2>3. Edits(d)
    BY <2>0, <2>2 DEF VerifyDraft, Edits
  <2>4. SaveDraft(d)
    BY <1>7 DEF EditDraft
  <2> HIDE DEF d
  <2> QED  BY <1>1, <2>0, <2>1, <2>2, <2>3, <2>4 DEF VerifyDraft
<1>8. CASE MoveProject(n)
  <2>1. Rests
    BY <1>8 DEF MoveProject, Rests
  <2> QED  BY <1>8, <2>1 DEF MoveProject, Form, TextsKept, Faulting
<1>9. CASE SaveV2Project(n) \/ SaveV2Backlog(n) \/ SaveEdit(n)
  <2>1. Stores(n)
    BY <1>9 DEF SaveV2Project, SaveV2Backlog, SaveEdit, SaveDraftOf, Stores, SaveActs, Creates
  <2> QED  BY <1>9, <2>1 DEF SaveV2Project, SaveV2Backlog, SaveEdit, SaveDraftOf, Form,
                             TextsKept, Faulting
<1> QED  BY <1>2, <1>3, <1>4, <1>5, <1>6, <1>7, <1>8, <1>9 DEF Press

LEMMA StepForms ==
    ASSUME TypeOK, AheadIsUnset, [Next]_vars
    PROVE  Form /\ Texting /\ Faulting
<1>1. CASE \E n \in Nonces : Begin(n)
  BY <1>1, BeginForms
<1>2. CASE \E n \in Nonces : Press(n)
  BY <1>2, PressForms DEF Texting
<1>3. CASE \E t \in Texts : Message(t)
  BY <1>3, MessageForms
<1>4. CASE Cancel \/ Expire \/ UNCHANGED vars
  <2>1. Rests /\ TextsKept /\ faults' = faults
    BY <1>4 DEF Cancel, Expire, vars, Rests, TextsKept
  <2> QED  BY <2>1 DEF Form, Texting, Faulting
<1> QED  BY <1>1, <1>2, <1>3, <1>4 DEF Next

-----------------------------------------------------------------------------
(* The buttons of a prompt. *)

LEMMA KeyFacts ==
    ASSUME NEW d, Typed(d), NEW b \in KeysOf(d)
    PROVE  /\ b \in Button /\ b.nonce = d.nonce
           /\ b.act \in EditActs <=> d.flow = "edit"
           /\ b.act \in SaveActs => d.step = "confirm"
<1>1. d.flow \in Flows /\ d.step \in Steps(d.flow) /\ d.nonce \in Nonces
  BY DEF Typed, Draft
<1>2. CASE d.flow = "project"
  <2>1. d.step \in {"name", "description", "confirm"}
    BY <1>1, <1>2, StepsType
  <2> QED  BY <1>1, <1>2, <2>1 DEF KeysOf, Button, Acts, EditActs, SaveActs
<1>3. CASE d.flow = "backlog"
  <2>1. d.step \in {"title", "project", "quadrant", "deadline", "date", "notes", "confirm"}
    BY <1>1, <1>3, StepsType
  <2> QED  BY <1>1, <1>3, <2>1 DEF KeysOf, Button, Acts, EditActs, SaveActs
<1>4. CASE d.flow = "edit"
  <2>1. d.step \in {"value", "input", "confirm"}
    BY <1>1, <1>4, StepsType
  <2> QED  BY <1>1, <1>4, <2>1 DEF KeysOf, Button, Acts, EditActs, SaveActs
<1> QED  BY <1>1, <1>2, <1>3, <1>4 DEF Flows

LEMMA ContentType ==
    ASSUME NEW d \in Draft
    PROVE  ContentOf(d) \in Content
BY DEF ContentOf, Content, Draft

-----------------------------------------------------------------------------
(* Types. *)

LEMMA DraftStepType ==
    ASSUME TypeOK, Form
    PROVE  /\ draft' \in Draft \union {None}
           /\ draft' # None => draft'.step \in Steps(draft'.flow)
           /\ shown' \subseteq Button
           /\ previewed' \in [Nonces -> Content \union {None}]
           /\ saved' \in [Nonces -> Content \union {None}]
<1>1. CASE Typed(draft') /\ Saves(draft')
  <2>1. draft' \in Draft /\ draft'.step \in Steps(draft'.flow)
    BY <1>1 DEF Typed
  <2>2. saved' \in [Nonces -> Content \union {None}]
    BY <1>1 DEF Saves, TypeOK
  <2>3. CASE Prompt(draft')
    <3>1. shown' \subseteq Button
      BY <1>1, <2>3, KeyFacts DEF Prompt, TypeOK
    <3>2. ContentOf(draft') \in Content
      BY <2>1, ContentType
    <3>3. previewed' \in [Nonces -> Content \union {None}]
      BY <2>3, <3>2 DEF Prompt, TypeOK
    <3> QED  BY <2>1, <2>2, <3>1, <3>3
  <2>4. CASE UNCHANGED <<shown, previewed>>
    BY <2>1, <2>2, <2>4 DEF TypeOK
  <2> QED  BY <1>1, <2>3, <2>4 DEF Saves
<1>2. CASE \E n \in Nonces : Stores(n)
  <2>1. PICK n \in Nonces : Stores(n)
    BY <1>2
  <2>2. ContentOf(draft) \in Content
    BY <2>1, DraftType, ContentType DEF Stores
  <2>3. saved' \in [Nonces -> Content \union {None}]
    BY <2>1, <2>2 DEF Stores, TypeOK
  <2> QED  BY <2>1, <2>3 DEF Stores, TypeOK
<1>3. CASE Rests
  <2>1. previewed' = previewed /\ saved' = saved
    BY <1>3 DEF Rests
  <2>2. shown' \subseteq Button
    BY <1>3 DEF Rests, TypeOK, Button, Acts
  <2>3. draft' \in Draft \union {None} /\ (draft' # None => draft'.step \in Steps(draft'.flow))
    <3>1. CASE draft' \in {None, draft}
      BY <3>1 DEF TypeOK
    <3>2. CASE draft # None /\ draft' = [draft EXCEPT !.expired = TRUE]
      <4>1. draft' \in Draft /\ draft'.step = draft.step /\ draft'.flow = draft.flow
        BY <3>2, DraftType DEF Draft
      <4> QED  BY <3>2, <4>1, DraftType
    <3> QED  BY <1>3, <3>1, <3>2 DEF Rests
  <2> QED  BY <2>1, <2>2, <2>3 DEF TypeOK
<1> QED  BY <1>1, <1>2, <1>3 DEF Form

LEMMA TextStepType ==
    ASSUME TypeOK, Texting, Faulting
    PROVE  /\ processed' \subseteq Texts /\ taken' \in [Texts -> Nat]
           /\ unmarked' \subseteq Texts /\ faults' \in 0..MaxFaults
<1>1. faults' \in 0..MaxFaults
  BY ValuesAssumption DEF TypeOK, Faulting, Fault
<1>2. CASE TextsKept
  BY <1>1, <1>2 DEF TextsKept, TypeOK
<1>3. ASSUME NEW t \in Texts, TextMarked(t) \/ TextUnmarked(t)
      PROVE  processed' \subseteq Texts /\ taken' \in [Texts -> Nat] /\ unmarked' \subseteq Texts
  <2>1. taken' = taken \/ taken' = [taken EXCEPT ![t] = @ + 1]
    BY <1>3 DEF TextMarked, TextUnmarked
  <2>2. taken' \in [Texts -> Nat]
    BY <2>1 DEF TypeOK
  <2> QED  BY <1>3, <2>2 DEF TextMarked, TextUnmarked, TypeOK
<1> QED  BY <1>1, <1>2, <1>3 DEF Texting

LEMMA StepTypeOK ==
    ASSUME TypeOK, Form, Texting, Faulting
    PROVE  TypeOK'
BY DraftStepType, TextStepType DEF TypeOK

LEMMA TextStepInv ==
    ASSUME TypeOK, TextInv, Texting
    PROVE  TextInv'
<1>1. CASE TextsKept
  BY <1>1 DEF TextsKept, TextInv
<1>2. ASSUME NEW t \in Texts, TextMarked(t)
      PROVE  TextInv'
  <2> SUFFICES ASSUME NEW u \in Texts
               PROVE  /\ taken'[u] > 0 => u \in processed' \/ u \in unmarked'
                      /\ taken'[u] > 1 => u \in unmarked'
    BY DEF TextInv
  <2>1. CASE u = t
    <3>1. taken'[t] = taken[t] \/ taken'[t] = taken[t] + 1
      BY <1>2 DEF TextMarked, TypeOK
    <3> QED  BY <1>2, <2>1, <3>1 DEF TextMarked, TextInv, TypeOK
  <2>2. CASE u # t
    <3>1. taken'[u] = taken[u]
      BY <1>2, <2>2 DEF TextMarked, TypeOK
    <3> QED  BY <1>2, <3>1 DEF TextMarked, TextInv
  <2> QED  BY <2>1, <2>2
<1>3. ASSUME NEW t \in Texts, TextUnmarked(t)
      PROVE  TextInv'
  <2>1. \A u \in Texts \ {t} : taken'[u] = taken[u]
    BY <1>3 DEF TextUnmarked, TypeOK
  <2> QED  BY <1>3, <2>1 DEF TextUnmarked, TextInv
<1> QED  BY <1>1, <1>2, <1>3 DEF Texting

-----------------------------------------------------------------------------
(* Drafts: a step that saves one. *)

\* The buttons already on screen under the nonce of the draft that is saved
\* are of its kind, and the nonce was not stored under.
LEMMA SavedNonce ==
    ASSUME TypeOK, DraftInv, NEW d, Typed(d), Starts(d) \/ Advances(d) \/ Edits(d)
    PROVE  /\ \A b \in shown : b.nonce = d.nonce => (b.act \in EditActs <=> d.flow = "edit")
           /\ \A n \in Nonces : saved[n] # None /\ saved[n].flow \in Creates => d.nonce # n
           /\ d.flow \in Creates => \A b \in shown : b.nonce = d.nonce => b.act \notin SaveActs
<1>1. d.nonce \in Nonces
  BY DEF Typed, Draft
<1>2. CASE Starts(d)
  BY <1>1, <1>2 DEF Starts, Fresh
<1>3. CASE Advances(d)
  BY <1>3 DEF Advances, DraftInv, NoncesHaveOneUse, StoredIsDone, SaveFollowsPreview, Creates
<1>4. CASE Edits(d)
  <2>1. CASE d.nonce = draft.nonce
    BY <1>4, <2>1 DEF Edits, DraftInv, NoncesHaveOneUse, StoredIsDone, Creates
  <2>2. CASE \E act \in EditActs : Pressed(act, d.nonce)
    <3>1. PICK c \in shown : c.act \in EditActs /\ c.nonce = d.nonce
      BY <2>2 DEF Pressed
    <3> QED  BY <1>1, <1>4, <3>1 DEF Edits, DraftInv, NoncesHaveOneUse, StoredIsDone, Creates
  <2> QED  BY <1>4, <2>1, <2>2 DEF Edits
<1> QED  BY <1>2, <1>3, <1>4

\* The answers of the draft that is saved.
LEMMA SavedAnswers ==
    ASSUME TypeOK, NoQuestionSkipped, AheadIsUnset, Typed(draft'),
           Starts(draft') \/ Advances(draft') \/ Edits(draft')
    PROVE  NoQuestionSkipped' /\ AheadIsUnset'
<1> DEFINE d == draft'
<1>0. d.flow \in Flows /\ d.step \in Steps(d.flow)
  BY DEF Typed, Draft
<1>1. CASE Starts(d)
  BY <1>1 DEF Starts, NoQuestionSkipped, AheadIsUnset
<1>2. CASE Advances(d)
  <2>1. d.flow = draft.flow /\ draft # None /\ draft.flow \in Creates
        /\ draft.data \in [Fields -> Answers]
    BY <1>2, DraftType DEF Advances
  <2>2. CASE d.data = draft.data /\ Asked(d.flow, d.step) = Asked(draft.flow, draft.step)
    BY <2>1, <2>2 DEF NoQuestionSkipped, AheadIsUnset
  <2>3. ASSUME NEW f \in Questions(d.flow) \ Asked(draft.flow, draft.step),
               NEW a \in Answers \ {Unset},
               d.data = [draft.data EXCEPT ![f] = a],
               Asked(d.flow, d.step) = Asked(draft.flow, draft.step) \union {f}
        PROVE  NoQuestionSkipped' /\ AheadIsUnset'
    <3>1. f \in Fields /\ Questions(d.flow) \subseteq Fields /\ Questions("project") \subseteq Fields
      BY <2>3 DEF Questions, Fields
    <3>2. \A g \in Fields : d.data[g] = IF g = f THEN a ELSE draft.data[g]
      BY <2>1, <2>3, <3>1
    <3>3. \A g \in Asked(draft.flow, draft.step) : g \in Fields
      BY <2>1, DraftType, AskedValues, StepsType DEF Creates, Fields
    <3>4. NoQuestionSkipped'
      BY <2>1, <2>3, <3>1, <3>2, <3>3 DEF NoQuestionSkipped
    <3>5. d.flow = "backlog" => \A g \in Questions("project") : g # f
      BY <2>3 DEF Questions
    <3>6. AheadIsUnset'
      BY <2>1, <2>3, <3>1, <3>2, <3>5 DEF AheadIsUnset
    <3> QED  BY <3>4, <3>6
  <2> QED  BY <1>2, <2>2, <2>3 DEF Advances
<1>3. CASE Edits(d)
  <2>1. d.flow = "edit" /\ (d.step = "confirm" => d.data["value"] # Unset)
        /\ d.step \in {"value", "input", "confirm"}
    BY <1>0, <1>3, StepsType DEF Edits
  <2>2. Asked("edit", d.step) = {} \/ (d.step = "confirm" /\ Asked("edit", d.step) = {"value"})
    BY <2>1, AskedValues
  <2> QED  BY <2>1, <2>2 DEF NoQuestionSkipped, AheadIsUnset, Creates
<1> QED  BY <1>1, <1>2, <1>3

LEMMA SaveStepInv ==
    ASSUME TypeOK, DraftInv, Typed(draft'), Saves(draft'),
           Starts(draft') \/ Advances(draft') \/ Edits(draft')
    PROVE  DraftInv'
<1> DEFINE d == draft'
<1>1. /\ \A b \in shown : b.nonce = d.nonce => (b.act \in EditActs <=> d.flow = "edit")
      /\ \A n \in Nonces : saved[n] # None /\ saved[n].flow \in Creates => d.nonce # n
      /\ d.flow \in Creates => \A b \in shown : b.nonce = d.nonce => b.act \notin SaveActs
  BY SavedNonce
<1>2. d \in Draft /\ d # None /\ d.flow \in Flows /\ d.nonce \in Nonces /\ saved' = saved
  BY DEF Typed, Draft, Saves
<1>3. \A b \in KeysOf(d) : /\ b.nonce = d.nonce
                           /\ b.act \in EditActs <=> d.flow = "edit"
                           /\ b.act \in SaveActs => d.step = "confirm"
  BY KeyFacts
<1>4. shown' = shown \/ shown' = shown \union KeysOf(d)
  BY DEF Saves, Prompt
<1>5. \A n \in Nonces \ {d.nonce} : previewed'[n] = previewed[n]
  BY DEF Saves, Prompt, TypeOK
<1>6. NoQuestionSkipped' /\ AheadIsUnset'
  BY SavedAnswers DEF DraftInv
<1>7. NoncesHaveOneUse'
  <2>1. \A b \in shown' : b \in shown
            \/ (b.nonce = d.nonce /\ (b.act \in EditActs <=> d.flow = "edit"))
    BY <1>3, <1>4
  <2>2. \A b, c \in shown : b.nonce = c.nonce => (b.act \in EditActs <=> c.act \in EditActs)
    BY DEF DraftInv, NoncesHaveOneUse
  <2>3. \A b \in shown' : b.nonce = d.nonce => (b.act \in EditActs <=> d.flow = "edit")
    BY <1>1, <2>1
  <2>4. \A b, c \in shown' : b.nonce = c.nonce => (b.act \in EditActs <=> c.act \in EditActs)
    BY <2>1, <2>2, <2>3
  <2> QED  BY <2>3, <2>4 DEF NoncesHaveOneUse
<1>8. SaveFollowsPreview'
  <2>1. SUFFICES ASSUME d.flow \in Creates, NEW b \in shown', b.nonce = d.nonce,
                        b.act \in SaveActs
                 PROVE  d.step = "confirm" /\ previewed'[d.nonce] = ContentOf(d)
    BY DEF SaveFollowsPreview, ContentOf
  <2>2. b \notin shown
    BY <1>1, <2>1
  <2>3. b \in KeysOf(d) /\ Prompt(d)
    BY <2>1, <2>2 DEF Saves, Prompt
  <2>4. d.step = "confirm"
    BY <1>3, <2>1, <2>3
  <2> QED  BY <1>2, <2>3, <2>4 DEF Prompt, TypeOK
<1>9. StoredIsDone'
  BY <1>1, <1>2, <1>3, <1>4 DEF DraftInv, StoredIsDone
<1>10. SavedWasPreviewed'
  BY <1>1, <1>2, <1>5 DEF DraftInv, SavedWasPreviewed
<1> QED  BY <1>6, <1>7, <1>8, <1>9, <1>10 DEF DraftInv

-----------------------------------------------------------------------------
(* Drafts: the other steps. *)

LEMMA StoreStepInv ==
    ASSUME TypeOK, DraftInv, NEW n \in Nonces, Stores(n)
    PROVE  DraftInv'
<1>1. /\ draft' = None /\ shown' = shown /\ previewed' = previewed
      /\ saved'[n] = ContentOf(draft) /\ draft # None /\ draft.nonce = n
      /\ \A m \in Nonces \ {n} : saved'[m] = saved[m]
  BY DEF Stores, TypeOK
<1>2. ContentOf(draft).flow = draft.flow
  BY DEF ContentOf
<1>3. NoQuestionSkipped' /\ AheadIsUnset' /\ NoncesHaveOneUse' /\ SaveFollowsPreview'
  BY <1>1 DEF DraftInv, NoQuestionSkipped, AheadIsUnset, NoncesHaveOneUse, SaveFollowsPreview
<1>4. StoredIsDone'
  BY <1>1, <1>2 DEF DraftInv, StoredIsDone, NoncesHaveOneUse, Creates
<1>5. draft.flow \in Creates => previewed[n] = ContentOf(draft)
  <2>1. SUFFICES ASSUME draft.flow \in Creates
                 PROVE  previewed[n] = ContentOf(draft)
    OBVIOUS
  <2>2. PICK b \in shown : b.nonce = n /\ b.act \in SaveActs
    BY <2>1 DEF Stores, Pressed
  <2> QED  BY <1>1, <2>1, <2>2 DEF DraftInv, SaveFollowsPreview
<1>6. SavedWasPreviewed'
  BY <1>1, <1>2, <1>5 DEF DraftInv, SavedWasPreviewed
<1> QED  BY <1>3, <1>4, <1>6 DEF DraftInv

LEMMA RestStepInv ==
    ASSUME TypeOK, DraftInv, Rests
    PROVE  DraftInv'
<1>1. previewed' = previewed /\ saved' = saved
  BY DEF Rests
<1>2. draft' = None
      \/ /\ draft # None /\ draft' # None
         /\ draft'.flow = draft.flow /\ draft'.step = draft.step
         /\ draft'.nonce = draft.nonce /\ draft'.data = draft.data
  <2>1. CASE draft # None /\ draft' = [draft EXCEPT !.expired = TRUE]
    <3>1. draft' \in Draft /\ draft'.flow = draft.flow /\ draft'.step = draft.step
          /\ draft'.nonce = draft.nonce /\ draft'.data = draft.data
      BY <2>1, DraftType DEF Draft
    <3> QED  BY <2>1, <3>1, NoneAssumption
  <2>2. CASE draft' \in {None, draft}
    BY <2>2
  <2> QED  BY <2>1, <2>2 DEF Rests
<1>3. \A b \in shown' : b \in shown
        \/ (b.act = "editproject" /\ \E c \in shown : c.act = "moveproject" /\ c.nonce = b.nonce)
  <2>1. CASE shown' = shown
    BY <2>1
  <2>2. ASSUME NEW n \in Nonces, Pressed("moveproject", n),
               shown' = shown \union {[act |-> "editproject", nonce |-> n]}
        PROVE  \A b \in shown' : b \in shown
                \/ (b.act = "editproject"
                        /\ \E c \in shown : c.act = "moveproject" /\ c.nonce = b.nonce)
    <3>1. PICK c \in shown : c.act = "moveproject" /\ c.nonce = n
      BY <2>2 DEF Pressed
    <3> QED  BY <2>2, <3>1
  <2> QED  BY <2>1, <2>2 DEF Rests
<1>4. \A b \in shown' : \E c \in shown : /\ c.nonce = b.nonce
                                         /\ b.act \in EditActs <=> c.act \in EditActs
                                         /\ b.act \in SaveActs => c = b
  BY <1>3 DEF EditActs, SaveActs
<1>5. NoQuestionSkipped' /\ AheadIsUnset'
  BY <1>2 DEF DraftInv, NoQuestionSkipped, AheadIsUnset
<1>6. NoncesHaveOneUse'
  <2>1. \A b, c \in shown' : b.nonce = c.nonce => (b.act \in EditActs <=> c.act \in EditActs)
    BY <1>4 DEF DraftInv, NoncesHaveOneUse
  <2>2. draft' # None => \A b \in shown' : b.nonce = draft'.nonce =>
            (b.act \in EditActs <=> draft'.flow = "edit")
    BY <1>2, <1>4 DEF DraftInv, NoncesHaveOneUse
  <2> QED  BY <2>1, <2>2 DEF NoncesHaveOneUse
<1>7. SaveFollowsPreview'
  <2>1. draft' # None => ContentOf(draft') = ContentOf(draft)
    BY <1>2 DEF ContentOf
  <2> QED  BY <1>1, <1>2, <1>4, <2>1 DEF DraftInv, SaveFollowsPreview
<1>8. StoredIsDone'
  BY <1>1, <1>2, <1>4 DEF DraftInv, StoredIsDone
<1>9. SavedWasPreviewed'
  BY <1>1 DEF DraftInv, SavedWasPreviewed
<1> QED  BY <1>5, <1>6, <1>7, <1>8, <1>9 DEF DraftInv

-----------------------------------------------------------------------------
(* The inductive invariant. *)

LEMMA InitIInv ==
    ASSUME Init
    PROVE  IInv
<1>1. TypeOK
  BY ValuesAssumption DEF Init, TypeOK
<1>2. DraftInv
  BY DEF Init, DraftInv, NoQuestionSkipped, AheadIsUnset, NoncesHaveOneUse,
         SaveFollowsPreview, StoredIsDone, SavedWasPreviewed
<1>3. TextInv
  BY DEF Init, TextInv
<1> QED  BY <1>1, <1>2, <1>3 DEF IInv

LEMMA StepIInv ==
    ASSUME IInv, [Next]_vars
    PROVE  IInv'
<1>1. Form /\ Texting /\ Faulting
  BY StepForms DEF IInv, DraftInv
<1>2. TypeOK' /\ TextInv'
  BY <1>1, StepTypeOK, TextStepInv DEF IInv
<1>3. DraftInv'
  BY <1>1, SaveStepInv, StoreStepInv, RestStepInv DEF IInv, Form
<1> QED  BY <1>2, <1>3 DEF IInv

\* The invariant from which the rest follows.
THEOREM Invariant == Spec => []IInv
BY InitIInv, StepIInv, PTL DEF Spec

\* The variables have their types: a draft is at a step of its own flow.
THEOREM TypeCorrect == Spec => []TypeOK
<1>1. IInv => TypeOK
  BY DEF IInv
<1> QED  BY <1>1, Invariant, PTL

\* Whatever old buttons are pressed, whatever prompts are lost and texts
\* delivered again, no wizard is at a step before which a question is open.
THEOREM QuestionsAreAnswered == Spec => []NoQuestionSkipped
<1>1. IInv => NoQuestionSkipped
  BY DEF IInv, DraftInv
<1> QED  BY <1>1, Invariant, PTL

\* A new project or item is stored only as the user saw it in the preview.
THEOREM PreviewIsKept == Spec => []SavedWasPreviewed
<1>1. IInv => SavedWasPreviewed
  BY DEF IInv, DraftInv
<1> QED  BY <1>1, Invariant, PTL

\* A text answers more than one question only if its handling ended before
\* MarkProcessed.
THEOREM OneAnswerPerText == Spec => []TextAnswersOnce
<1>1. IInv => TextAnswersOnce
  BY DEF IInv, TextInv, TextAnswersOnce
<1> QED  BY <1>1, Invariant, PTL

-----------------------------------------------------------------------------
(* What a step may not do. *)

LEMMA StepAnswersStay ==
    ASSUME IInv, [Next]_vars,
           draft # None, draft' # None, draft'.nonce = draft.nonce,
           draft.flow \in Creates, draft'.step # draft.step
    PROVE  /\ \A f \in Fields : draft.data[f] # Unset => draft'.data[f] = draft.data[f]
           /\ draft'.data # draft.data \/ draft'.step = "date"
<1>1. Form
  BY StepForms DEF IInv, DraftInv
<1>2. ~Starts(draft')
  BY DEF Starts, Fresh
<1>3. ~Edits(draft')
  BY DEF Edits, Creates
<1>4. ~Rests
  <2>1. [draft EXCEPT !.expired = TRUE].step = draft.step
    BY DraftType DEF IInv, Draft
  <2> QED  BY <2>1 DEF Rests
<1>5. Advances(draft')
  BY <1>1, <1>2, <1>3, <1>4 DEF Form, Stores
<1>6. draft.data \in [Fields -> Answers]
  BY DraftType DEF IInv
<1>7. CASE draft'.data = draft.data /\ draft'.step = "date"
  BY <1>7
<1>8. ASSUME NEW f \in Questions(draft'.flow) \ Asked(draft.flow, draft.step),
             NEW a \in Answers \ {Unset}, draft'.data = [draft.data EXCEPT ![f] = a]
      PROVE  /\ \A g \in Fields : draft.data[g] # Unset => draft'.data[g] = draft.data[g]
             /\ draft'.data # draft.data
  <2>1. f \in Fields
    BY DEF Questions, Fields
  <2>2. draft.data[f] = Unset
    BY <1>5 DEF Advances, IInv, DraftInv, AheadIsUnset
  <2>3. draft'.data[f] = a /\ \A g \in Fields \ {f} : draft'.data[g] = draft.data[g]
    BY <1>6, <1>8, <2>1
  <2> QED  BY <2>2, <2>3
<1> QED  BY <1>5, <1>7, <1>8 DEF Advances

\* A wizard that creates only goes forward: no step takes back or gives again
\* an answer.
THEOREM NoAnswerIsTakenBack == Spec => AnswersStay
<1>1. ASSUME IInv, [Next]_vars
      PROVE  [draft # None /\ draft' # None /\ draft'.nonce = draft.nonce
                /\ draft.flow \in Creates /\ draft'.step # draft.step =>
                /\ \A f \in Fields : draft.data[f] # Unset => draft'.data[f] = draft.data[f]
                /\ draft'.data # draft.data \/ draft'.step = "date"]_vars
  BY <1>1, StepAnswersStay
<1> QED  BY <1>1, Invariant, PTL DEF Spec, AnswersStay

LEMMA StepExpired ==
    ASSUME IInv, [Next]_vars, draft # None, draft' # None, draft.expired, draft' # draft
    PROVE  draft'.step \in FirstSteps
<1>1. Form
  BY StepForms DEF IInv, DraftInv
<1>2. ~Advances(draft') /\ ~Edits(draft')
  BY DEF Advances, Edits
<1> QED  BY <1>1, <1>2 DEF Form, Starts, Stores, Rests

\* A draft older than 24 hours takes no more answers.
THEOREM NoAnswerAfterExpiry == Spec => ExpiredTakesNoAnswer
<1>1. ASSUME IInv, [Next]_vars
      PROVE  [draft # None /\ draft' # None /\ draft.expired /\ draft' # draft =>
                draft'.step \in {"name", "title", "value"}]_vars
  BY <1>1, StepExpired DEF FirstSteps
<1> QED  BY <1>1, Invariant, PTL DEF Spec, ExpiredTakesNoAnswer
=============================================================================
