--------------------------- MODULE BacklogServices ---------------------------
(***************************************************************************)
(* Projects and backlog items: the nine operations of ProjectService and   *)
(* BacklogService on the tables they write, with the receipts that make a *)
(* confirmation count once and the versions that refuse a stale one.       *)
(*                                                                         *)
(* A nonce belongs to one button (an operation on one entity) or to a      *)
(* wizard's draft; an edit may take over the nonce of an earlier edit.     *)
(* Pressing a button opens a confirmation that carries the entity's        *)
(* version of that moment; a draft carries the version of the moment it    *)
(* was started.  A Telegram update delivers one confirmation and           *)
(* may be delivered again after a restart; the same confirmation may also *)
(* be pressed again, in a later update.  Updates are handled one at a time *)
(* under Bot.mu and an operation is one SQLite transaction, so handling an *)
(* update is one step.                                                     *)
(*                                                                         *)
(* The confirmations of archive, restore, complete, reopen and delete put  *)
(* the version in the callback as RFC 3339 text, and the callback is split *)
(* on ":" again.  Colons is the number of colons in that text: 2 for the   *)
(* times the repositories return.  With Colons = 0 the five services are   *)
(* reached as their signatures have it, which is how the code that follows *)
(* the split is explored.                                                  *)
(***************************************************************************)
EXTENDS Integers, FiniteSets

CONSTANTS
    ProjectIds, ItemIds,   \* ids NewID may return
    Names,                 \* normalized project names
    Nonces,                \* nonces callbackNonce may return
    Updates,               \* Telegram update ids
    None,                  \* no value
    Colons,                \* colons in the text of a version
    MaxClock               \* bound: committed mutations in a behaviour

\* NewID returns no id twice.
ASSUME IdsAssumption == ProjectIds \intersect ItemIds = {}

ASSUME NoneAssumption ==
    /\ None \notin ProjectIds /\ None \notin ItemIds /\ None \notin Names
    /\ None \notin Nonces /\ None \notin Nonces \X Nat
    /\ Colons \in Nat /\ MaxClock \in Nat

VARIABLES
    projects,   \* the projects table
    items,      \* the backlog_items table
    receipts,   \* receipts[n]: action and entity in mutation_receipts
    processed,  \* update ids in processed_updates
    draft,      \* nonce of the row in conversation_states
    clock,      \* the time of the latest mutation
    buttons,    \* buttons[n]: the operation a nonce stands for
    confirms,   \* confirmations offered: a nonce and the version shown
    sent,       \* sent[u]: the confirmation update u delivers
    answer      \* what the update just handled told the user, and for what

db == <<projects, items, receipts, draft, clock>>
chat == <<buttons, confirms>>
vars == <<db, processed, chat, sent, answer>>

ProjectOps == {"project.update", "project.archive", "project.restore"}
ItemOps == {"backlog.update", "backlog.complete", "backlog.reopen", "backlog.delete"}
Creates == {"project.create", "backlog.create"}
Ops == ProjectOps \union ItemOps \union Creates

\* Operations confirmed at the end of a wizard, from its draft.
Edits == {"project.update", "backlog.update"}
DraftOps == Creates \union Edits

\* updated_at: the time of the mutation that wrote the row, 0 if none has.
Versions == 0..MaxClock

Project == [name : Names \union {None}, status : {"none", "active", "archived"},
            version : Versions]
\* A deleted item keeps its id from being used again: NewID never repeats.
Item == [project : ProjectIds \union {None},
         status : {"none", "active", "done", "deleted"}, version : Versions]

\* An operation, the entity it is on (None for a create), and what an edit
\* or a create puts there: a name, or the project an item is in.
Button == [op : Ops, id : ProjectIds \union ItemIds \union {None},
           name : Names \union {None}, project : ProjectIds \union {None}]
Receipt == [action : Ops, entity : ProjectIds \union ItemIds]

\* "failed": the handler returned an error and the user was told nothing.
Outcomes == {"saved", "replayed", "refused", "stale", "failed"}
Answer == [update : Updates, nonce : Nonces, expected : Versions, outcome : Outcomes]

ASSUME NoneIsNoRecord ==
    None \notin Project \union Item \union Button \union Receipt \union Answer

ProjectExists(p) == projects[p].status # "none"
ItemExists(i) == items[i].status \in {"active", "done"}
InArchived(i) == projects[items[i].project].status = "archived"

\* ActiveProjectNameConflict, and the index projects_active_name_idx.
NameTaken(name, p) ==
    \E q \in ProjectIds \ {p} : projects[q].status = "active" /\ projects[q].name = name

-----------------------------------------------------------------------------
(* The database as earlier use may have left it, with nothing on screen. *)

Init ==
    /\ projects \in [ProjectIds -> {p \in Project : p.version = 0 /\
                        (p.status = "none" <=> p.name = None)}]
    /\ \A p \in ProjectIds :
        projects[p].status = "active" => ~NameTaken(projects[p].name, p)
    /\ items \in [ItemIds -> {i \in Item : i.version = 0 /\ i.status # "deleted" /\
                    (i.status = "none" <=> i.project = None)}]
    /\ \A i \in ItemIds : ItemExists(i) => ProjectExists(items[i].project)
    /\ receipts = [n \in Nonces |-> None]
    /\ processed = {}
    /\ draft = None
    /\ clock = 0
    /\ buttons = [n \in Nonces |-> None]
    /\ confirms = {}
    /\ sent = [u \in Updates |-> None]
    /\ answer = None

-----------------------------------------------------------------------------
(* The screens that make nonces and confirmations. *)

\* projectDetail and itemDetail: the buttons an entity's state calls for.
DetailButtons ==
    {b \in Button : b.name = None /\ b.project = None /\
        \/ /\ b.id \in ProjectIds
           /\ \/ b.op = "project.archive" /\ projects[b.id].status = "active"
              \/ b.op = "project.restore" /\ projects[b.id].status = "archived"
        \/ /\ b.id \in ItemIds /\ ItemExists(b.id)
           /\ \/ b.op = "backlog.complete" /\ items[b.id].status = "active"
              \/ b.op = "backlog.reopen" /\ items[b.id].status = "done" /\ ~InArchived(b.id)
              \/ b.op = "backlog.delete" /\ ~InArchived(b.id)}

ShowDetail(n) ==
    /\ buttons[n] = None
    /\ \E b \in DetailButtons : buttons' = [buttons EXCEPT ![n] = b]
    /\ answer' = None
    /\ UNCHANGED <<db, processed, confirms, sent>>

\* actionV2 and deleteV2: a button, new or old, opens its confirmation with
\* the button's nonce and the version the entity has now.
OpenConfirmation(n) ==
    /\ buttons[n] # None /\ buttons[n].op \notin DraftOps
    /\ \/ /\ buttons[n].id \in ProjectIds
          /\ confirms' = confirms \union {<<n, projects[buttons[n].id].version>>}
       \/ /\ buttons[n].id \in ItemIds /\ ItemExists(buttons[n].id)
          /\ confirms' = confirms \union {<<n, items[buttons[n].id].version>>}
    /\ answer' = None
    /\ UNCHANGED <<db, processed, buttons, sent>>

\* A wizard run to its preview: saveDraft's first version replaces any draft.
\* The button that saves it has the nonce alone, so every such button of this
\* nonce, sent or not, now stands for this draft.
FinishWizard(n, b, version) ==
    /\ buttons' = [buttons EXCEPT ![n] = b]
    /\ draft' = n
    /\ confirms' = {c \in confirms : c[1] # n} \union {<<n, version>>}
    /\ sent' = [u \in Updates |-> IF sent[u] # None /\ sent[u][1] = n
                                 THEN <<n, version>> ELSE sent[u]]
    /\ answer' = None
    /\ UNCHANGED <<projects, items, receipts, clock, processed>>

\* chooseProject lists the active projects only.
ActiveProjects == {p \in ProjectIds : projects[p].status = "active"}

DraftCreate(n) ==
    /\ buttons[n] = None
    /\ \/ \E name \in Names :
            FinishWizard(n, [op |-> "project.create", id |-> None,
                             name |-> name, project |-> None], 0)
       \/ \E p \in ActiveProjects :
            FinishWizard(n, [op |-> "backlog.create", id |-> None,
                             name |-> None, project |-> p], 0)

\* startEdit: a project whatever its status, an active item of an active
\* project; the preview may name the same project or another.  The draft takes
\* the nonce of the button that chose the field, which editValueCallback
\* accepts from any earlier edit too.
DraftEdit(n) ==
    /\ buttons[n] # None => buttons[n].op \in Edits
    /\ \/ \E p \in ProjectIds, name \in Names :
            /\ ProjectExists(p)
            /\ FinishWizard(n, [op |-> "project.update", id |-> p,
                                name |-> name, project |-> None], projects[p].version)
       \/ \E i \in ItemIds :
            /\ items[i].status = "active" /\ ~InArchived(i)
            /\ \E p \in ActiveProjects :
                FinishWizard(n, [op |-> "backlog.update", id |-> i,
                                 name |-> None, project |-> p], items[i].version)

\* /cancel, the Batal button, or another wizard begun and not yet finished.
CancelDraft ==
    /\ draft # None
    /\ draft' = None
    /\ answer' = None
    /\ UNCHANGED <<projects, items, receipts, clock, processed, chat, sent>>

-----------------------------------------------------------------------------
(* MutationRepository.mutate, and the answers. *)

\* Update u arrives, for the first time or again, with confirmation <<n, v>>.
Receive(u, n, v, op) ==
    /\ <<n, v>> \in confirms /\ buttons[n].op = op
    /\ sent[u] \in {None, <<n, v>>}
    /\ sent' = [sent EXCEPT ![u] = <<n, v>>]
    /\ UNCHANGED chat

Tell(u, n, v, outcome) ==
    answer' = [update |-> u, nonce |-> n, expected |-> v, outcome |-> outcome]

\* The handler returns an error: no answer, and no MarkProcessed.
Fail(u, n, v) ==
    /\ Tell(u, n, v, "failed")
    /\ UNCHANGED <<db, processed>>

\* Nothing is written but, unless sending the answer fails or the process
\* dies first, the row MarkProcessed inserts after the handler.
NoWrite(u, n, v, outcome) ==
    /\ Tell(u, n, v, outcome)
    /\ processed' \in {processed, processed \union {u}}
    /\ UNCHANGED db

\* Mutant: the receipt of the nonce is not looked up.
Mutate_NoReceiptCheck(u, n, v, entity, clearState, refused, change) ==
    IF u \in processed THEN NoWrite(u, n, v, "replayed")
    ELSE IF refused THEN NoWrite(u, n, v, "refused")
    ELSE /\ change
         /\ receipts' = [receipts EXCEPT ![n] = [action |-> buttons[n].op, entity |-> entity]]
         /\ processed' = processed \union {u}
         /\ draft' = IF clearState THEN None ELSE draft
         /\ clock' = clock + 1
         /\ Tell(u, n, v, "saved")

\* Mutant: the update is left for the caller to mark, in a later statement.
Mutate_LeaveUpdate(u, n, v, entity, clearState, refused, change) ==
    LET mine == [action |-> buttons[n].op, entity |-> entity]
    IN  IF receipts[n] # None
        THEN NoWrite(u, n, v, IF receipts[n] = mine THEN "replayed" ELSE "refused")
        ELSE IF u \in processed THEN NoWrite(u, n, v, "replayed")
        ELSE IF refused THEN NoWrite(u, n, v, "refused")
        ELSE /\ change
             /\ receipts' = [receipts EXCEPT ![n] = mine]
             /\ processed' = processed
             /\ draft' = IF clearState THEN None ELSE draft
             /\ clock' = clock + 1
             /\ Tell(u, n, v, "saved")

\* Mutant: the draft is left for the caller to delete, in a later statement.
Mutate_KeepDraft(u, n, v, entity, clearState, refused, change) ==
    LET mine == [action |-> buttons[n].op, entity |-> entity]
    IN  IF receipts[n] # None
        THEN NoWrite(u, n, v, IF receipts[n] = mine THEN "replayed" ELSE "refused")
        ELSE IF u \in processed THEN NoWrite(u, n, v, "replayed")
        ELSE IF refused THEN NoWrite(u, n, v, "refused")
        ELSE /\ change
             /\ receipts' = [receipts EXCEPT ![n] = mine]
             /\ processed' = processed \union {u}
             /\ draft' = draft
             /\ clock' = clock + 1
             /\ Tell(u, n, v, "saved")

\* The transaction around an operation: at most one mutation for a nonce and
\* for an update; `refused' is the operation's error, `change' its writes.
Mutate(u, n, v, entity, clearState, refused, change) ==
    LET action == buttons[n].op
        mine == [action |-> action, entity |-> entity]
    IN  IF receipts[n] # None
        THEN NoWrite(u, n, v, IF receipts[n] = mine THEN "replayed" ELSE "refused")
        ELSE IF u \in processed THEN NoWrite(u, n, v, "replayed")
        ELSE IF refused THEN NoWrite(u, n, v, "refused")
        ELSE /\ change
             /\ receipts' = [receipts EXCEPT ![n] = mine]
             /\ processed' = processed \union {u}
             /\ draft' = IF clearState THEN None ELSE draft
             /\ clock' = clock + 1
             /\ Tell(u, n, v, "saved")

\* callbackV2 and deleteConfirmV2: the callback of a detail screen's operation
\* has the version as its last field and must split into five.
Confirm(u, n, v, clearState, refused, change) ==
    IF Colons # 0 THEN NoWrite(u, n, v, "stale")
    ELSE Mutate(u, n, v, buttons[n].id, clearState, refused, change)

PutProject(p, name, status) ==
    /\ projects' = [projects EXCEPT ![p] =
                        [name |-> name, status |-> status, version |-> clock + 1]]
    /\ UNCHANGED items

\* Mutant: updated_at is stored in another unit than the one it is compared in.
PutItem_OtherUnit(i, project, status) ==
    /\ items' = [items EXCEPT ![i] =
            [project |-> project, status |-> status, version |-> 1000 * (clock + 1)]]
    /\ UNCHANGED projects

PutItem(i, project, status) ==
    /\ items' = [items EXCEPT ![i] =
                    [project |-> project, status |-> status, version |-> clock + 1]]
    /\ UNCHANGED projects

Keep == UNCHANGED <<projects, items>>

-----------------------------------------------------------------------------
(* ProjectService. *)

\* saveV2Project: answers a nonce that has a receipt, and needs the draft.
CreateProject(u, n, v) ==
    /\ Receive(u, n, v, "project.create")
    /\ IF receipts[n] # None THEN NoWrite(u, n, v, "replayed")
       ELSE IF draft # n THEN NoWrite(u, n, v, "stale")
       ELSE \E p \in ProjectIds :
            /\ ~ProjectExists(p)
            /\ Mutate(u, n, v, p, TRUE, NameTaken(buttons[n].name, p),
                      PutProject(p, buttons[n].name, "active"))

\* Mutant: the update is not confined to the version confirmed, nor stopped
\* by the index on the names of active projects.
UpdateProject_LastWriteWins(u, n, v) ==
    /\ Receive(u, n, v, "project.update")
    /\ IF draft # n THEN NoWrite(u, n, v, "stale")
       ELSE LET p == buttons[n].id
            IN  Mutate(u, n, v, p, TRUE, FALSE,
                    PutProject(p, buttons[n].name, projects[p].status))

\* saveEdit on a project.
UpdateProject(u, n, v) ==
    /\ Receive(u, n, v, "project.update")
    /\ IF draft # n THEN NoWrite(u, n, v, "stale")
       ELSE LET p == buttons[n].id
            IN  Mutate(u, n, v, p, TRUE,
                    \/ projects[p].version # v
                    \/ projects[p].status = "active" /\ NameTaken(buttons[n].name, p),
                    PutProject(p, buttons[n].name, projects[p].status))

\* An archived project is left as it is, whatever version was confirmed.
ArchiveProject(u, n, v) ==
    /\ Receive(u, n, v, "project.archive")
    /\ LET p == buttons[n].id
           archived == projects[p].status = "archived"
       IN  Confirm(u, n, v, FALSE,
               ~archived /\ projects[p].version # v,
               IF archived THEN Keep ELSE PutProject(p, projects[p].name, "archived"))

RestoreProject(u, n, v) ==
    /\ Receive(u, n, v, "project.restore")
    /\ LET p == buttons[n].id
           active == projects[p].status = "active"
       IN  Confirm(u, n, v, TRUE,
               ~active /\ (projects[p].version # v \/ NameTaken(projects[p].name, p)),
               IF active THEN Keep ELSE PutProject(p, projects[p].name, "active"))

-----------------------------------------------------------------------------
(* BacklogService. *)

\* saveV2Backlog: as saveV2Project, but an error is returned, not told.  The
\* project is read before the transaction, and the deadline checked: one that
\* was today's when it was picked may be past.
CreateItem(u, n, v) ==
    /\ Receive(u, n, v, "backlog.create")
    /\ IF receipts[n] # None THEN NoWrite(u, n, v, "replayed")
       ELSE IF draft # n THEN NoWrite(u, n, v, "stale")
       ELSE IF projects[buttons[n].project].status # "active"
            THEN Fail(u, n, v)
       ELSE \/ Fail(u, n, v)
            \/ \E i \in ItemIds :
                /\ items[i].status = "none"
                /\ Mutate(u, n, v, i, TRUE, FALSE, PutItem(i, buttons[n].project, "active"))

\* Mutant: the destination's status is not read again in the transaction.
UpdateItem_AnyDestination(u, n, v) ==
    /\ Receive(u, n, v, "backlog.update")
    /\ LET i == buttons[n].id
       IN  IF draft # n \/ ~ItemExists(i) THEN NoWrite(u, n, v, "stale")
           ELSE IF InArchived(i) \/ items[i].status = "done"
                THEN NoWrite(u, n, v, "refused")
           ELSE Mutate(u, n, v, i, TRUE, items[i].version # v,
                    PutItem(i, buttons[n].project, items[i].status))

\* saveEdit on an item: the item and its project are read before the
\* transaction, which reads them again along with the destination.
UpdateItem(u, n, v) ==
    /\ Receive(u, n, v, "backlog.update")
    /\ LET i == buttons[n].id
       IN  IF draft # n \/ ~ItemExists(i) THEN NoWrite(u, n, v, "stale")
           ELSE IF InArchived(i) \/ items[i].status = "done"
                THEN NoWrite(u, n, v, "refused")
           ELSE Mutate(u, n, v, i, TRUE,
                    \/ projects[buttons[n].project].status # "active"
                    \/ items[i].version # v,
                    PutItem(i, buttons[n].project, items[i].status))

\* A done item of an archived project is left as it is, whatever version was
\* confirmed; any other done item is written back if its version is current.
CompleteItem(u, n, v) ==
    /\ Receive(u, n, v, "backlog.complete")
    /\ LET i == buttons[n].id
           done == items[i].status = "done"
       IN  Confirm(u, n, v, FALSE,
               ~ItemExists(i) \/ (~(done /\ InArchived(i)) /\ items[i].version # v),
               IF done THEN Keep ELSE PutItem(i, items[i].project, "done"))

ReopenItem(u, n, v) ==
    /\ Receive(u, n, v, "backlog.reopen")
    /\ LET i == buttons[n].id
       IN  Confirm(u, n, v, FALSE,
               ~ItemExists(i) \/ InArchived(i) \/ items[i].version # v,
               IF items[i].status = "active" THEN Keep
               ELSE PutItem(i, items[i].project, "active"))

DeleteItem(u, n, v) ==
    /\ Receive(u, n, v, "backlog.delete")
    /\ LET i == buttons[n].id
       IN  Confirm(u, n, v, TRUE,
               ~ItemExists(i) \/ InArchived(i) \/ items[i].version # v,
               PutItem(i, items[i].project, "deleted"))

-----------------------------------------------------------------------------
ProjectService(u, n, v) ==
    \/ CreateProject(u, n, v) \/ UpdateProject(u, n, v)
    \/ ArchiveProject(u, n, v) \/ RestoreProject(u, n, v)

BacklogService(u, n, v) ==
    \/ CreateItem(u, n, v) \/ UpdateItem(u, n, v) \/ CompleteItem(u, n, v)
    \/ ReopenItem(u, n, v) \/ DeleteItem(u, n, v)

HandleUpdate ==
    /\ clock < MaxClock
    /\ \E u \in Updates : \E c \in confirms :
        ProjectService(u, c[1], c[2]) \/ BacklogService(u, c[1], c[2])

Screen ==
    \E n \in Nonces :
        ShowDetail(n) \/ OpenConfirmation(n) \/ DraftCreate(n) \/ DraftEdit(n)

Next == Screen \/ CancelDraft \/ HandleUpdate

Spec == Init /\ [][Next]_vars

-----------------------------------------------------------------------------
(* Properties. *)

TypeOK ==
    /\ projects \in [ProjectIds -> Project]
    /\ items \in [ItemIds -> Item]
    /\ receipts \in [Nonces -> Receipt \union {None}]
    /\ processed \subseteq Updates
    /\ draft \in Nonces \union {None}
    /\ clock \in Versions
    /\ buttons \in [Nonces -> Button \union {None}]
    /\ confirms \subseteq Nonces \X Versions
    /\ sent \in [Updates -> (Nonces \X Versions) \union {None}]
    /\ answer \in Answer \union {None}

\* A mutation commits together with the receipt of its nonce, once for a nonce
\* however often its update is delivered or its button pressed: mutations and
\* receipts are as many (MutationRepository.mutate).
OneReceiptPerMutation ==
    clock = Cardinality({n \in Nonces : receipts[n] # None})

\* A draft of a new project or item that is on its way has not been saved: the
\* mutation, its receipt and the deletion of the draft are one transaction, so
\* that no crash and no answer leaves one that is spent (MutateAndClearState).
DraftIsUnspent ==
    draft # None /\ buttons[draft].op \in Creates => receipts[draft] = None

\* Two active projects never share a normalized name, whichever of create,
\* rename and restore comes last (ActiveProjectNameConflict and the index).
ActiveNamesDiffer ==
    \A p \in ProjectIds : projects[p].status = "active" => ~NameTaken(projects[p].name, p)

\* A row that changes is at the version the user was shown when confirming:
\* no confirmation, however old, overwrites a change made since
\* (updateProjectIfVersion, updateItemIfVersion and the expected arguments).
NoLostUpdate ==
    [][/\ \A p \in ProjectIds :
            ProjectExists(p) /\ projects'[p] # projects[p] =>
                /\ projects[p].version = answer'.expected
                /\ projects'[p].version > projects[p].version
       /\ \A i \in ItemIds :
            ItemExists(i) /\ items'[i] # items[i] =>
                /\ items[i].version = answer'.expected
                /\ items'[i].version > items[i].version]_vars

\* Completing is all that may happen to an item of an archived project, and no
\* item is created in one or moved into one: the operation matrix, whatever
\* screens were open when the project was archived.
ArchivedIsReadOnly ==
    [][\A i \in ItemIds : items'[i] # items[i] =>
        /\ ItemExists(i) /\ InArchived(i) =>
            /\ items[i].status = "active" /\ items'[i].status = "done"
            /\ items'[i].project = items[i].project
        /\ items'[i].project # items[i].project =>
            projects[items'[i].project].status = "active"]_vars

\* The rows there are, as one table, and the confirmation just answered with
\* success.
Table ==
    [e \in ProjectIds \union ItemIds |->
        IF e \in ProjectIds
        THEN IF ProjectExists(e) THEN projects[e] ELSE None
        ELSE IF ItemExists(e) THEN items[e] ELSE None]

Told == IF answer # None /\ answer.outcome = "saved" THEN answer.nonce ELSE None

\* The tables, the screens and the answers behave as Confirmations says: a
\* confirmation takes effect once, in one step with its receipt, on the row
\* the receipt names and at the version the user saw, and no receipt is ever
\* rewritten, whatever nonces are taken over, updates come again and old
\* screens are pressed.
Confirmation == INSTANCE Confirmations WITH
    Entities <- ProjectIds \union ItemIds, Rows <- Project \union Item,
    Actions <- Ops, rows <- Table, offered <- confirms, told <- Told

ImplementsConfirmations == Confirmation!Spec

\* What the user is told was saved is saved: an answer of success, the first
\* or a replay, has a receipt behind it.
SuccessIsStored ==
    answer # None /\ answer.outcome \in {"saved", "replayed"} =>
        receipts[answer.nonce] # None

\* A replay is of what was stored: the draft whose confirmation is answered from
\* a receipt went with it, and is not still waiting to be saved (saveEdit).
ReplayedDraftIsGone ==
    answer # None /\ answer.outcome = "replayed" /\ receipts[answer.nonce] # None =>
        draft # answer.nonce

\* A confirmation is only turned away as stale for want of its draft.
ConfirmationIsHeard ==
    answer # None /\ answer.outcome = "stale" => buttons[answer.nonce].op \in DraftOps
=============================================================================
