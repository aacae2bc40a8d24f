------------------------ MODULE BacklogServicesProofs ------------------------
(***************************************************************************)
(* Proofs about BacklogServices.  Every handler either writes nothing or   *)
(* commits one mutation that keeps its tables alone, writes one project or *)
(* writes one item; the forms below say under which conditions, and the    *)
(* invariants and action properties follow from the forms alone.           *)
(***************************************************************************)
EXTENDS BacklogServices, FiniteSetTheorems, TLAPS

Spent == {n \in Nonces : receipts[n] # None}

\* A confirmation and a receipt belong to a button, a draft to a wizard's
\* button, and a button is on what its operation is for.
ChatInv ==
    /\ \A c \in confirms : buttons[c[1]] # None
    /\ \A n \in Nonces : receipts[n] # None => buttons[n] # None
    /\ draft # None => buttons[draft] # None /\ buttons[draft].op \in DraftOps
    /\ \A n \in Nonces : buttons[n] # None =>
        /\ buttons[n].op \in ProjectOps =>
            buttons[n].id \in ProjectIds /\ ProjectExists(buttons[n].id)
        /\ buttons[n].op \in ItemOps => buttons[n].id \in ItemIds

\* No row was written later than the latest mutation.
PastInv ==
    /\ \A p \in ProjectIds : projects[p].version <= clock
    /\ \A i \in ItemIds : items[i].version <= clock

CountInv == IsFiniteSet(Spent) /\ clock = Cardinality(Spent)

IInv == TypeOK /\ ChatInv /\ PastInv /\ CountInv /\ DraftIsUnspent /\ ActiveNamesDiffer

-----------------------------------------------------------------------------
(* The forms of a handler. *)

Answered(u, n, v) ==
    /\ <<n, v>> \in confirms
    /\ sent' = [sent EXCEPT ![u] = <<n, v>>]
    /\ UNCHANGED chat
    /\ \E o \in Outcomes : Tell(u, n, v, o)

Quiet(u) ==
    /\ UNCHANGED db
    /\ answer'.outcome # "saved"
    /\ processed' \in {processed, processed \union {u}}

Commit(u, n, entity) ==
    /\ entity \in ProjectIds \union ItemIds
    /\ receipts[n] = None /\ u \notin processed
    /\ answer'.outcome = "saved"
    /\ receipts' = [receipts EXCEPT ![n] = [action |-> buttons[n].op, entity |-> entity]]
    /\ processed' = processed \union {u}
    /\ draft' \in {None, draft} /\ (draft = n => draft' = None)
    /\ clock' = clock + 1

WritesProject(p, v) ==
    /\ p \in ProjectIds
    /\ \E name \in Names \union {None}, status \in {"active", "archived"} :
        /\ ProjectExists(p) => projects[p].version = v
        /\ status = "active" => ~NameTaken(name, p)
        /\ PutProject(p, name, status)

WritesItem(i, v) ==
    /\ i \in ItemIds
    /\ \E project \in ProjectIds \union {None}, status \in {"active", "done", "deleted"} :
        /\ ItemExists(i) => items[i].version = v
        /\ ItemExists(i) /\ InArchived(i) =>
            items[i].status = "active" /\ status = "done" /\ project = items[i].project
        /\ project # items[i].project => projects[project].status = "active"
        /\ PutItem(i, project, status)

Commits(u, n, v) ==
    \E entity \in ProjectIds \union ItemIds :
        /\ Commit(u, n, entity)
        /\ Keep \/ WritesProject(entity, v) \/ WritesItem(entity, v)

Handled(u, n, v) == Answered(u, n, v) /\ (Quiet(u) \/ Commits(u, n, v))

-----------------------------------------------------------------------------
(* Every handler has one of the forms. *)

LEMMA AnswersAreQuiet ==
    ASSUME NEW u, NEW n, NEW v
    PROVE  /\ \A o \in Outcomes \ {"saved"} : NoWrite(u, n, v, o) => Quiet(u)
           /\ Fail(u, n, v) => Quiet(u)
BY DEF NoWrite, Fail, Tell, Quiet, Outcomes

LEMMA ProjectForms ==
    ASSUME TypeOK, ChatInv, NEW u \in Updates, NEW n \in Nonces, NEW v \in Versions,
           buttons[n] # None, ProjectService(u, n, v)
    PROVE  Handled(u, n, v)
<1>0. draft = n => buttons[n].op \in DraftOps
  BY NoneAssumption DEF ChatInv
<1>1. buttons[n] \in Button /\ \A p \in ProjectIds : projects[p] \in Project
  BY DEF TypeOK
<1>2. \A p \in ProjectIds :
        /\ projects[p].name \in Names \union {None}
        /\ projects[p].status \in {"none", "active", "archived"}
  BY <1>1 DEF Project
<1>3. buttons[n].name \in Names \union {None}
  BY <1>1 DEF Button
<1>4. CASE CreateProject(u, n, v)
  <2>1. Answered(u, n, v)
    BY <1>4 DEF CreateProject, Receive, NoWrite, Mutate, Tell, Answered, Outcomes
  <2>2. CASE receipts[n] # None \/ draft # n
    BY <1>4, <2>1, <2>2, AnswersAreQuiet DEF CreateProject, Handled, Outcomes
  <2>3. CASE receipts[n] = None /\ draft = n
    <3>1. PICK p \in ProjectIds :
            /\ ~ProjectExists(p)
            /\ Mutate(u, n, v, p, TRUE, NameTaken(buttons[n].name, p),
                      PutProject(p, buttons[n].name, "active"))
      BY <1>4, <2>3 DEF CreateProject
    <3>2. CASE u \in processed \/ NameTaken(buttons[n].name, p)
      BY <2>1, <2>3, <3>1, <3>2 DEF Mutate, NoWrite, Tell, Handled, Quiet
    <3>3. CASE ~(u \in processed \/ NameTaken(buttons[n].name, p))
      <4>1. Commit(u, n, p) /\ PutProject(p, buttons[n].name, "active")
        BY <2>3, <3>1, <3>3 DEF Mutate, Tell, Commit
      <4>2. WritesProject(p, v)
        BY <1>3, <3>1, <3>3, <4>1 DEF WritesProject
      <4> QED  BY <2>1, <4>1, <4>2 DEF Handled, Commits
    <3> QED  BY <3>2, <3>3
  <2> QED  BY <2>2, <2>3
<1>5. CASE UpdateProject(u, n, v)
  <2> DEFINE p == buttons[n].id
             refused == \/ projects[p].version # v
                        \/ projects[p].status = "active" /\ NameTaken(buttons[n].name, p)
  <2>1. Answered(u, n, v)
    BY <1>5 DEF UpdateProject, Receive, NoWrite, Mutate, Tell, Answered, Outcomes
  <2>2. CASE draft # n \/ receipts[n] # None \/ u \in processed \/ refused
    BY <1>5, <2>1, <2>2 DEF UpdateProject, Mutate, NoWrite, Tell, Handled, Quiet
  <2>3. CASE ~(draft # n \/ receipts[n] # None \/ u \in processed \/ refused)
    <3>1. p \in ProjectIds /\ ProjectExists(p)
      BY <1>5, <2>1 DEF UpdateProject, Receive, ChatInv, ProjectOps
    <3>2. Commit(u, n, p) /\ PutProject(p, buttons[n].name, projects[p].status)
      BY <1>5, <2>3, <3>1 DEF UpdateProject, Mutate, Tell, Commit
    <3>3. WritesProject(p, v)
      BY <1>2, <1>3, <2>3, <3>1, <3>2 DEF WritesProject, ProjectExists
    <3> QED  BY <2>1, <3>1, <3>2, <3>3 DEF Handled, Commits
  <2> QED  BY <2>2, <2>3
<1>6. CASE ArchiveProject(u, n, v)
  <2> DEFINE p == buttons[n].id
             archived == projects[p].status = "archived"
  <2>1. Answered(u, n, v)
    BY <1>6 DEF ArchiveProject, Receive, NoWrite, Confirm, Mutate, Tell, Answered, Outcomes
  <2>2. CASE Quiet(u)
    BY <2>1, <2>2 DEF Handled
  <2>3. CASE ~Quiet(u)
    <3>1. /\ receipts[n] = None /\ u \notin processed
          /\ archived \/ projects[p].version = v
      BY <1>6, <2>3 DEF ArchiveProject, Confirm, Mutate, NoWrite, Tell, Quiet
    <3>2. p \in ProjectIds /\ draft # n
      BY <1>0, <1>6 DEF ArchiveProject, Receive, ChatInv, ProjectOps, DraftOps, Edits, Creates
    <3>3. Commit(u, n, p) /\ IF archived THEN Keep ELSE PutProject(p, projects[p].name, "archived")
      BY <1>6, <2>3, <3>1, <3>2
      DEF ArchiveProject, Confirm, Mutate, NoWrite, Tell, Quiet, Commit
    <3>4. Keep \/ WritesProject(p, v)
      BY <1>2, <3>1, <3>2, <3>3 DEF WritesProject
    <3> QED  BY <2>1, <3>2, <3>3, <3>4 DEF Handled, Commits
  <2> QED  BY <2>2, <2>3
<1>7. CASE RestoreProject(u, n, v)
  <2> DEFINE p == buttons[n].id
             active == projects[p].status = "active"
  <2>1. Answered(u, n, v)
    BY <1>7 DEF RestoreProject, Receive, NoWrite, Confirm, Mutate, Tell, Answered, Outcomes
  <2>2. CASE Quiet(u)
    BY <2>1, <2>2 DEF Handled
  <2>3. CASE ~Quiet(u)
    <3>1. /\ receipts[n] = None /\ u \notin processed
          /\ active \/ (projects[p].version = v /\ ~NameTaken(projects[p].name, p))
      BY <1>7, <2>3 DEF RestoreProject, Confirm, Mutate, NoWrite, Tell, Quiet
    <3>2. p \in ProjectIds
      BY <1>7 DEF RestoreProject, Receive, ChatInv, ProjectOps
    <3>3. Commit(u, n, p) /\ IF active THEN Keep ELSE PutProject(p, projects[p].name, "active")
      BY <1>7, <2>3, <3>1, <3>2
      DEF RestoreProject, Confirm, Mutate, NoWrite, Tell, Quiet, Commit
    <3>4. Keep \/ WritesProject(p, v)
      BY <1>2, <3>1, <3>2, <3>3 DEF WritesProject
    <3> QED  BY <2>1, <3>2, <3>3, <3>4 DEF Handled, Commits
  <2> QED  BY <2>2, <2>3
<1> QED  BY <1>4, <1>5, <1>6, <1>7 DEF ProjectService

LEMMA ItemForms ==
    ASSUME TypeOK, ChatInv, NEW u \in Updates, NEW n \in Nonces, NEW v \in Versions,
           buttons[n] # None, BacklogService(u, n, v)
    PROVE  Handled(u, n, v)
<1>0. draft = n => buttons[n].op \in DraftOps
  BY NoneAssumption DEF ChatInv
<1>1. buttons[n] \in Button /\ \A i \in ItemIds : items[i] \in Item
  BY DEF TypeOK
<1>2. \A i \in ItemIds :
        /\ items[i].project \in ProjectIds \union {None}
        /\ items[i].status \in {"none", "active", "done", "deleted"}
  BY <1>1 DEF Item
<1>3. buttons[n].project \in ProjectIds \union {None}
  BY <1>1 DEF Button
<1>4. CASE CreateItem(u, n, v)
  <2>1. Answered(u, n, v)
    BY <1>4 DEF CreateItem, Receive, NoWrite, Fail, Mutate, Tell, Answered, Outcomes
  <2>2. CASE Quiet(u)
    BY <2>1, <2>2 DEF Handled
  <2>3. CASE ~Quiet(u)
    <3>1. /\ receipts[n] = None /\ draft = n
          /\ projects[buttons[n].project].status = "active"
      BY <1>4, <2>3, AnswersAreQuiet DEF CreateItem, Outcomes
    <3>2. PICK i \in ItemIds :
            /\ items[i].status = "none"
            /\ Mutate(u, n, v, i, TRUE, FALSE, PutItem(i, buttons[n].project, "active"))
      BY <1>4, <2>3, <3>1, AnswersAreQuiet DEF CreateItem
    <3>3. Commit(u, n, i) /\ PutItem(i, buttons[n].project, "active")
      BY <2>3, <3>1, <3>2 DEF Mutate, NoWrite, Tell, Quiet, Commit
    <3>4. WritesItem(i, v)
      BY <1>3, <3>1, <3>2, <3>3 DEF WritesItem, ItemExists
    <3> QED  BY <2>1, <3>3, <3>4 DEF Handled, Commits
  <2> QED  BY <2>2, <2>3
<1>5. CASE UpdateItem(u, n, v)
  <2> DEFINE i == buttons[n].id
  <2>1. Answered(u, n, v)
    BY <1>5 DEF UpdateItem, Receive, NoWrite, Mutate, Tell, Answered, Outcomes
  <2>2. CASE Quiet(u)
    BY <2>1, <2>2 DEF Handled
  <2>3. CASE ~Quiet(u)
    <3>1. /\ receipts[n] = None /\ u \notin processed /\ draft = n
          /\ ItemExists(i) /\ ~InArchived(i) /\ items[i].version = v
          /\ projects[buttons[n].project].status = "active"
      BY <1>5, <2>3 DEF UpdateItem, Mutate, NoWrite, Tell, Quiet
    <3>2. i \in ItemIds
      BY <1>5 DEF UpdateItem, Receive, ChatInv, ItemOps
    <3>3. Commit(u, n, i) /\ PutItem(i, buttons[n].project, items[i].status)
      BY <1>5, <2>3, <3>1, <3>2 DEF UpdateItem, Mutate, NoWrite, Tell, Quiet, Commit
    <3>4. WritesItem(i, v)
      BY <1>3, <3>1, <3>2, <3>3 DEF WritesItem, ItemExists
    <3> QED  BY <2>1, <3>2, <3>3, <3>4 DEF Handled, Commits
  <2> QED  BY <2>2, <2>3
<1>6. CASE CompleteItem(u, n, v)
  <2> DEFINE i == buttons[n].id
             done == items[i].status = "done"
  <2>1. Answered(u, n, v)
    BY <1>6 DEF CompleteItem, Receive, NoWrite, Confirm, Mutate, Tell, Answered, Outcomes
  <2>2. CASE Quiet(u)
    BY <2>1, <2>2 DEF Handled
  <2>3. CASE ~Quiet(u)
    <3>1. /\ receipts[n] = None /\ u \notin processed
          /\ ItemExists(i) /\ (done \/ items[i].version = v)
      BY <1>6, <2>3 DEF CompleteItem, Confirm, Mutate, NoWrite, Tell, Quiet
    <3>2. i \in ItemIds /\ draft # n
      BY <1>0, <1>6 DEF CompleteItem, Receive, ChatInv, ItemOps, DraftOps, Edits, Creates
    <3>3. Commit(u, n, i) /\ IF done THEN Keep ELSE PutItem(i, items[i].project, "done")
      BY <1>6, <2>3, <3>1, <3>2
      DEF CompleteItem, Confirm, Mutate, NoWrite, Tell, Quiet, Commit
    <3>4. Keep \/ WritesItem(i, v)
      BY <1>2, <3>1, <3>2, <3>3 DEF WritesItem, ItemExists
    <3> QED  BY <2>1, <3>2, <3>3, <3>4 DEF Handled, Commits
  <2> QED  BY <2>2, <2>3
<1>7. CASE ReopenItem(u, n, v)
  <2> DEFINE i == buttons[n].id
             active == items[i].status = "active"
  <2>1. Answered(u, n, v)
    BY <1>7 DEF ReopenItem, Receive, NoWrite, Confirm, Mutate, Tell, Answered, Outcomes
  <2>2. CASE Quiet(u)
    BY <2>1, <2>2 DEF Handled
  <2>3. CASE ~Quiet(u)
    <3>1. /\ receipts[n] = None /\ u \notin processed
          /\ ItemExists(i) /\ ~InArchived(i) /\ items[i].version = v
      BY <1>7, <2>3 DEF ReopenItem, Confirm, Mutate, NoWrite, Tell, Quiet
    <3>2. i \in ItemIds /\ draft # n
      BY <1>0, <1>7 DEF ReopenItem, Receive, ChatInv, ItemOps, DraftOps, Edits, Creates
    <3>3. Commit(u, n, i) /\ IF active THEN Keep ELSE PutItem(i, items[i].project, "active")
      BY <1>7, <2>3, <3>1, <3>2
      DEF ReopenItem, Confirm, Mutate, NoWrite, Tell, Quiet, Commit
    <3>4. Keep \/ WritesItem(i, v)
      BY <1>2, <3>1, <3>2, <3>3 DEF WritesItem, ItemExists
    <3> QED  BY <2>1, <3>2, <3>3, <3>4 DEF Handled, Commits
  <2> QED  BY <2>2, <2>3
<1>8. CASE DeleteItem(u, n, v)
  <2> DEFINE i == buttons[n].id
  <2>1. Answered(u, n, v)
    BY <1>8 DEF DeleteItem, Receive, NoWrite, Confirm, Mutate, Tell, Answered, Outcomes
  <2>2. CASE Quiet(u)
    BY <2>1, <2>2 DEF Handled
  <2>3. CASE ~Quiet(u)
    <3>1. /\ receipts[n] = None /\ u \notin processed
          /\ ItemExists(i) /\ ~InArchived(i) /\ items[i].version = v
      BY <1>8, <2>3 DEF DeleteItem, Confirm, Mutate, NoWrite, Tell, Quiet
    <3>2. i \in ItemIds
      BY <1>8 DEF DeleteItem, Receive, ChatInv, ItemOps
    <3>3. Commit(u, n, i) /\ PutItem(i, items[i].project, "deleted")
      BY <1>8, <2>3, <3>1, <3>2
      DEF DeleteItem, Confirm, Mutate, NoWrite, Tell, Quiet, Commit
    <3>4. WritesItem(i, v)
      BY <1>2, <3>1, <3>2, <3>3 DEF WritesItem, ItemExists
    <3> QED  BY <2>1, <3>2, <3>3, <3>4 DEF Handled, Commits
  <2> QED  BY <2>2, <2>3
<1> QED  BY <1>4, <1>5, <1>6, <1>7, <1>8 DEF BacklogService
-----------------------------------------------------------------------------
(* The inductive invariant. *)

\* A step is a screen, a cancelled draft or an update handled in one of the forms.
LEMMA StepForms ==
    ASSUME TypeOK, ChatInv, HandleUpdate
    PROVE  \E u \in Updates, n \in Nonces, v \in Versions :
             clock < MaxClock /\ buttons[n] # None /\ Handled(u, n, v)
<1>1. PICK u \in Updates, c \in confirms :
        ProjectService(u, c[1], c[2]) \/ BacklogService(u, c[1], c[2])
  BY DEF HandleUpdate
<1>2. c[1] \in Nonces /\ c[2] \in Versions /\ buttons[c[1]] # None
  BY DEF TypeOK, ChatInv
<1>3. Handled(u, c[1], c[2])
  BY <1>1, <1>2, ProjectForms, ItemForms
<1> QED  BY <1>2, <1>3 DEF HandleUpdate

LEMMA InitIInv == Init => IInv
<1> SUFFICES ASSUME Init PROVE IInv
  OBVIOUS
<1>1. TypeOK
  BY NoneAssumption DEF Init, TypeOK, Versions
<1>2. ChatInv /\ DraftIsUnspent /\ ActiveNamesDiffer
  BY DEF Init, ChatInv, DraftIsUnspent, ActiveNamesDiffer
<1>3. PastInv
  <2>1. /\ \A p \in ProjectIds : projects[p].version = 0
        /\ \A i \in ItemIds : items[i].version = 0
    BY DEF Init
  <2> QED  BY <2>1 DEF Init, PastInv
<1>4. CountInv
  <2>1. Spent = {}
    BY DEF Init, Spent
  <2> QED  BY <2>1, FS_EmptySet DEF Init, CountInv
<1> QED  BY <1>1, <1>2, <1>3, <1>4 DEF IInv

LEMMA ScreenTypes ==
    ASSUME TypeOK, Screen
    PROVE  TypeOK'
<1> USE NoneAssumption
<1>1. PICK n \in Nonces :
        ShowDetail(n) \/ OpenConfirmation(n) \/ DraftCreate(n) \/ DraftEdit(n)
  BY DEF Screen
<1>2. 0 \in Versions
  BY DEF Versions
<1>3. /\ \A p \in ProjectIds : projects[p].version \in Versions
      /\ \A i \in ItemIds : items[i].version \in Versions
  BY DEF TypeOK, Project, Item
<1>4. CASE ShowDetail(n)
  BY <1>4 DEF ShowDetail, DetailButtons, TypeOK, db
<1>5. CASE OpenConfirmation(n)
  BY <1>3, <1>5 DEF OpenConfirmation, TypeOK, db
<1>6. ASSUME NEW b \in Button, NEW version \in Versions, FinishWizard(n, b, version)
      PROVE  TypeOK'
  <2>1. sent' \in [Updates -> (Nonces \X Versions) \union {None}]
    BY <1>6 DEF FinishWizard, TypeOK
  <2>2. confirms' \subseteq Nonces \X Versions
    BY <1>6 DEF FinishWizard, TypeOK
  <2> QED  BY <1>6, <2>1, <2>2 DEF FinishWizard, TypeOK
<1>7. CASE DraftCreate(n)
  <2>1. CASE \E name \in Names :
                FinishWizard(n, [op |-> "project.create", id |-> None,
                                 name |-> name, project |-> None], 0)
    BY <1>2, <1>6, <2>1 DEF Button, Ops, Creates
  <2>2. CASE \E p \in ActiveProjects :
                FinishWizard(n, [op |-> "backlog.create", id |-> None,
                                 name |-> None, project |-> p], 0)
    BY <1>2, <1>6, <2>2 DEF Button, Ops, Creates, ActiveProjects
  <2> QED  BY <1>7, <2>1, <2>2 DEF DraftCreate
<1>8. CASE DraftEdit(n)
  <2>1. CASE \E p \in ProjectIds, name \in Names :
                FinishWizard(n, [op |-> "project.update", id |-> p,
                                 name |-> name, project |-> None], projects[p].version)
    BY <1>3, <1>6, <2>1 DEF Button, Ops, ProjectOps
  <2>2. CASE \E i \in ItemIds, p \in ActiveProjects :
                FinishWizard(n, [op |-> "backlog.update", id |-> i,
                                 name |-> None, project |-> p], items[i].version)
    BY <1>3, <1>6, <2>2 DEF Button, Ops, ItemOps, ActiveProjects
  <2> QED  BY <1>8, <2>1, <2>2 DEF DraftEdit
<1> QED  BY <1>1, <1>4, <1>5, <1>7, <1>8

LEMMA HandledTypes ==
    ASSUME TypeOK, NEW u \in Updates, NEW n \in Nonces, NEW v \in Versions,
           clock < MaxClock, buttons[n] # None, Handled(u, n, v)
    PROVE  TypeOK'
<1> USE NoneAssumption
<1>1. Answered(u, n, v)
  BY DEF Handled
<1>2. /\ buttons' \in [Nonces -> Button \union {None}]
      /\ confirms' \subseteq Nonces \X Versions
      /\ sent' \in [Updates -> (Nonces \X Versions) \union {None}]
      /\ answer' \in Answer \union {None}
  BY <1>1 DEF Answered, TypeOK, chat, Tell, Answer
<1>3. CASE Quiet(u)
  BY <1>2, <1>3 DEF Quiet, TypeOK, db
<1>4. CASE Commits(u, n, v)
  <2>1. PICK entity \in ProjectIds \union ItemIds :
            /\ Commit(u, n, entity)
            /\ Keep \/ WritesProject(entity, v) \/ WritesItem(entity, v)
    BY <1>4 DEF Commits
  <2>2. clock' \in Versions /\ clock + 1 \in Versions
    BY <2>1 DEF TypeOK, Commit, Versions
  <2>3. buttons[n] \in Button
    BY DEF TypeOK
  <2>4. receipts' \in [Nonces -> Receipt \union {None}]
    BY <2>1, <2>3 DEF Commit, TypeOK, Receipt, Button
  <2>5. draft' \in Nonces \union {None} /\ processed' \subseteq Updates
    BY <2>1 DEF Commit, TypeOK
  <2>6. CASE Keep
    BY <1>2, <2>2, <2>4, <2>5, <2>6 DEF Keep, TypeOK
  <2>7. CASE WritesProject(entity, v)
    <3>1. projects' \in [ProjectIds -> Project] /\ items' = items
      BY <2>2, <2>7 DEF WritesProject, PutProject, TypeOK, Project
    <3> QED  BY <1>2, <2>2, <2>4, <2>5, <3>1 DEF TypeOK
  <2>8. CASE WritesItem(entity, v)
    <3>1. items' \in [ItemIds -> Item] /\ projects' = projects
      BY <2>2, <2>8 DEF WritesItem, PutItem, TypeOK, Item
    <3> QED  BY <1>2, <2>2, <2>4, <2>5, <3>1 DEF TypeOK
  <2> QED  BY <2>1, <2>6, <2>7, <2>8
<1> QED  BY <1>3, <1>4 DEF Handled
LEMMA ScreenKeepsIInv ==
    ASSUME IInv, Screen
    PROVE  IInv'
<1> USE NoneAssumption
<1>1. TypeOK'
  BY ScreenTypes DEF IInv
<1>2. PICK n \in Nonces :
        ShowDetail(n) \/ OpenConfirmation(n) \/ DraftCreate(n) \/ DraftEdit(n)
  BY DEF Screen
<1>3. UNCHANGED <<projects, items, receipts, clock>>
  BY <1>2 DEF ShowDetail, OpenConfirmation, DraftCreate, DraftEdit, FinishWizard, db
<1>4. PastInv' /\ CountInv' /\ ActiveNamesDiffer'
  BY <1>3 DEF IInv, PastInv, CountInv, Spent, ActiveNamesDiffer, NameTaken
<1>5. ASSUME NEW b \in Button, NEW version \in Versions, FinishWizard(n, b, version),
             b.op \in DraftOps,
             b.op \in ProjectOps => b.id \in ProjectIds /\ ProjectExists(b.id),
             b.op \in ItemOps => b.id \in ItemIds,
             b.op \in Creates => buttons[n] = None
      PROVE  ChatInv' /\ DraftIsUnspent'
  <2>1. /\ b # None
        /\ buttons' = [buttons EXCEPT ![n] = b] /\ draft' = n
        /\ confirms' = {c \in confirms : c[1] # n} \union {<<n, version>>}
    <3>1. b # None
      BY NoneIsNoRecord
    <3> QED  BY <1>5, <3>1 DEF FinishWizard
  <2>2. b.op \in Creates => receipts[n] = None
    BY <1>5 DEF IInv, ChatInv
  <2>3. \A m \in Nonces : buttons'[m] = IF m = n THEN b ELSE buttons[m]
    BY <2>1 DEF IInv, TypeOK
  <2>4. \A c \in confirms' : c[1] \in Nonces /\ buttons'[c[1]] # None
    BY <2>1, <2>3 DEF IInv, ChatInv, TypeOK
  <2> QED  BY <1>3, <1>5, <2>1, <2>2, <2>3, <2>4
           DEF IInv, ChatInv, DraftIsUnspent, ProjectExists
<1>6. CASE ShowDetail(n)
  <2>1. PICK b \in DetailButtons : buttons' = [buttons EXCEPT ![n] = b]
    BY <1>6 DEF ShowDetail
  <2>2. /\ b.op \in ProjectOps => b.id \in ProjectIds /\ ProjectExists(b.id)
        /\ b.op \in ItemOps => b.id \in ItemIds
    BY <2>1 DEF DetailButtons, ProjectOps, ItemOps, ProjectExists
  <2>3. b # None
    BY <2>1, NoneIsNoRecord DEF DetailButtons
  <2>4. buttons[n] = None /\ confirms' = confirms /\ draft' = draft
    BY <1>6 DEF ShowDetail, db
  <2>5. \A m \in Nonces : buttons'[m] = IF m = n THEN b ELSE buttons[m]
    BY <2>1 DEF IInv, TypeOK
  <2>6. draft # None => draft \in Nonces /\ draft # n
    BY <2>4 DEF IInv, TypeOK, ChatInv
  <2>7. \A c \in confirms : c[1] \in Nonces /\ c[1] # n
    BY <2>4 DEF IInv, TypeOK, ChatInv
  <2>8. ChatInv'
    BY <1>3, <2>2, <2>3, <2>4, <2>5, <2>6, <2>7 DEF IInv, ChatInv, ProjectExists
  <2>9. DraftIsUnspent'
    BY <1>3, <2>4, <2>5, <2>6 DEF IInv, DraftIsUnspent
  <2> QED  BY <1>1, <1>4, <2>8, <2>9 DEF IInv
<1>7. CASE OpenConfirmation(n)
  <2>1. /\ buttons[n] # None /\ UNCHANGED <<buttons, draft>>
        /\ \E w : confirms' = confirms \union {<<n, w>>}
    BY <1>7 DEF OpenConfirmation, db
  <2>2. ChatInv'
    BY <1>3, <2>1 DEF IInv, ChatInv, ProjectExists
  <2>3. DraftIsUnspent'
    BY <1>3, <2>1 DEF IInv, DraftIsUnspent
  <2> QED  BY <1>1, <1>4, <2>2, <2>3 DEF IInv
<1>8. 0 \in Versions /\ (\A p \in ProjectIds : projects[p].version \in Versions)
      /\ \A i \in ItemIds : items[i].version \in Versions
  BY DEF IInv, TypeOK, Project, Item, Versions
<1>9. CASE DraftCreate(n)
  <2>0. buttons[n] = None
    BY <1>9 DEF DraftCreate
  <2>1. CASE \E name \in Names :
                FinishWizard(n, [op |-> "project.create", id |-> None,
                                 name |-> name, project |-> None], 0)
    BY <1>1, <1>4, <1>5, <1>8, <2>0, <2>1
    DEF IInv, Button, Ops, Creates, Edits, DraftOps, ProjectOps, ItemOps
  <2>2. CASE \E p \in ActiveProjects :
                FinishWizard(n, [op |-> "backlog.create", id |-> None,
                                 name |-> None, project |-> p], 0)
    BY <1>1, <1>4, <1>5, <1>8, <2>0, <2>2
    DEF IInv, Button, Ops, Creates, Edits, DraftOps, ProjectOps, ItemOps, ActiveProjects
  <2> QED  BY <1>9, <2>1, <2>2 DEF DraftCreate
<1>10. CASE DraftEdit(n)
  <2>1. CASE \E p \in ProjectIds, name \in Names :
                /\ ProjectExists(p)
                /\ FinishWizard(n, [op |-> "project.update", id |-> p,
                                 name |-> name, project |-> None], projects[p].version)
    BY <1>1, <1>4, <1>5, <1>8, <2>1
    DEF IInv, Button, Ops, Creates, Edits, DraftOps, ProjectOps, ItemOps
  <2>2. CASE \E i \in ItemIds, p \in ActiveProjects :
                FinishWizard(n, [op |-> "backlog.update", id |-> i,
                                 name |-> None, project |-> p], items[i].version)
    BY <1>1, <1>4, <1>5, <1>8, <2>2
    DEF IInv, Button, Ops, Creates, Edits, DraftOps, ProjectOps, ItemOps, ActiveProjects
  <2> QED  BY <1>10, <2>1, <2>2 DEF DraftEdit
<1> QED  BY <1>2, <1>6, <1>7, <1>9, <1>10
LEMMA HandledKeepsIInv ==
    ASSUME IInv, NEW u \in Updates, NEW n \in Nonces, NEW v \in Versions,
           clock < MaxClock, buttons[n] # None, Handled(u, n, v)
    PROVE  IInv'
<1> USE NoneAssumption
<1>1. TypeOK'
  BY HandledTypes DEF IInv
<1>2. UNCHANGED <<buttons, confirms>>
  BY DEF Handled, Answered, chat
<1>3. CASE Quiet(u)
  <2>1. UNCHANGED <<projects, items, receipts, draft, clock>>
    BY <1>3 DEF Quiet, db
  <2> QED  BY <1>1, <1>2, <2>1
           DEF IInv, ChatInv, PastInv, CountInv, Spent, DraftIsUnspent, ActiveNamesDiffer,
               NameTaken, ProjectExists
<1>4. CASE Commits(u, n, v)
  <2>1. PICK entity \in ProjectIds \union ItemIds :
            /\ Commit(u, n, entity)
            /\ Keep \/ WritesProject(entity, v) \/ WritesItem(entity, v)
    BY <1>4 DEF Commits
  <2> DEFINE mine == [action |-> buttons[n].op, entity |-> entity]
  <2>2. clock \in Nat /\ clock' = clock + 1
    BY <2>1 DEF Commit, IInv, TypeOK, Versions
  <2>3. mine # None
    <3>1. buttons[n].op \in Ops
      BY DEF IInv, TypeOK, Button
    <3> QED  BY <3>1, NoneIsNoRecord DEF Receipt
  <2>4. /\ receipts[n] = None
        /\ \A m \in Nonces : receipts'[m] = IF m = n THEN mine ELSE receipts[m]
    BY <2>1 DEF Commit, IInv, TypeOK
  <2>5. /\ \A p \in ProjectIds :
            /\ projects'[p] = projects[p] \/ projects'[p].version = clock + 1
            /\ ProjectExists(p) => projects'[p].status # "none"
        /\ \A i \in ItemIds : items'[i] = items[i] \/ items'[i].version = clock + 1
    <3>1. CASE Keep
      BY <3>1 DEF Keep, ProjectExists
    <3>2. CASE WritesProject(entity, v)
      BY <3>2 DEF WritesProject, PutProject, ProjectExists, IInv, TypeOK
    <3>3. CASE WritesItem(entity, v)
      BY <3>3 DEF WritesItem, PutItem, ProjectExists, IInv, TypeOK
    <3> QED  BY <2>1, <3>1, <3>2, <3>3
  <2>6. ChatInv'
    BY <1>2, <2>1, <2>4, <2>5 DEF IInv, ChatInv, Commit, ProjectExists
  <2>7. PastInv'
    <3>1. /\ \A p \in ProjectIds : projects[p].version \in Nat
          /\ \A i \in ItemIds : items[i].version \in Nat
      BY DEF IInv, TypeOK, Project, Item, Versions
    <3> QED  BY <2>2, <2>5, <3>1 DEF IInv, PastInv
  <2>8. CountInv'
    <3>1. Spent' = Spent \union {n} /\ n \notin Spent
      BY <2>3, <2>4 DEF Spent
    <3>2. IsFiniteSet(Spent) /\ clock = Cardinality(Spent)
      BY DEF IInv, CountInv
    <3>3. IsFiniteSet(Spent \union {n}) /\ Cardinality(Spent \union {n}) = Cardinality(Spent) + 1
      BY <3>1, <3>2, FS_AddElement
    <3> QED  BY <2>2, <3>1, <3>2, <3>3 DEF CountInv
  <2>9. DraftIsUnspent'
    <3>1. draft' # None => draft' = draft /\ draft # n /\ draft \in Nonces
      BY <2>1 DEF Commit, IInv, TypeOK
    <3> QED  BY <1>2, <2>4, <3>1 DEF IInv, DraftIsUnspent
  <2>10. ActiveNamesDiffer'
    <3>1. CASE projects' = projects
      BY <3>1 DEF IInv, ActiveNamesDiffer, NameTaken
    <3>2. CASE WritesProject(entity, v)
      <4>1. PICK name \in Names \union {None}, status \in {"active", "archived"} :
              /\ status = "active" => ~NameTaken(name, entity)
              /\ PutProject(entity, name, status)
        BY <3>2 DEF WritesProject
      <4>2. \A q \in ProjectIds : projects'[q] =
                IF q = entity THEN [name |-> name, status |-> status, version |-> clock + 1]
                ELSE projects[q]
        BY <4>1 DEF PutProject, IInv, TypeOK
      <4> QED  BY <4>1, <4>2 DEF IInv, ActiveNamesDiffer, NameTaken
    <3> QED  BY <2>1, <3>1, <3>2 DEF Keep, WritesItem, PutItem
  <2> QED  BY <1>1, <2>6, <2>7, <2>8, <2>9, <2>10 DEF IInv
<1> QED  BY <1>3, <1>4 DEF Handled

LEMMA StepIInv == IInv /\ [Next]_vars => IInv'
<1> SUFFICES ASSUME IInv, [Next]_vars PROVE IInv'
  OBVIOUS
<1>1. CASE Screen
  BY <1>1, ScreenKeepsIInv
<1>2. CASE CancelDraft
  BY <1>2 DEF CancelDraft, chat, IInv, TypeOK, ChatInv, PastInv, CountInv, Spent,
              DraftIsUnspent, ActiveNamesDiffer, NameTaken, ProjectExists
<1>3. CASE HandleUpdate
  BY <1>3, StepForms, HandledKeepsIInv DEF IInv
<1>4. CASE UNCHANGED vars
  BY <1>4 DEF vars, db, chat, IInv, TypeOK, ChatInv, PastInv, CountInv, Spent,
              DraftIsUnspent, ActiveNamesDiffer, NameTaken, ProjectExists
<1> QED  BY <1>1, <1>2, <1>3, <1>4 DEF Next

LEMMA InductiveInvariant == Spec => []IInv
BY InitIInv, StepIInv, PTL DEF Spec

-----------------------------------------------------------------------------
(* Theorems. *)

\* Every table and every confirmation has its type, whatever is delivered.
THEOREM TypeCorrect == Spec => []TypeOK
<1>1. IInv => TypeOK
  BY DEF IInv
<1> QED  BY InductiveInvariant, <1>1, PTL

\* For any number of nonces and updates, a mutation is committed once for its
\* nonce: MutationRepository.mutate never runs an operation whose receipt is
\* there, and never commits one without it.
THEOREM MutationsHaveReceipts == Spec => []OneReceiptPerMutation
<1>1. IInv => OneReceiptPerMutation
  BY DEF IInv, CountInv, Spent, OneReceiptPerMutation
<1> QED  BY InductiveInvariant, <1>1, PTL

\* The draft on its way is never one whose confirmation has been carried out.
THEOREM DraftsAreUnspent == Spec => []DraftIsUnspent
<1>1. IInv => DraftIsUnspent
  BY DEF IInv
<1> QED  BY InductiveInvariant, <1>1, PTL

\* Create, rename and restore keep the active projects' names apart.
THEOREM NamesAreUnique == Spec => []ActiveNamesDiffer
<1>1. IInv => ActiveNamesDiffer
  BY DEF IInv
<1> QED  BY InductiveInvariant, <1>1, PTL

\* A confirmation only changes a row that is as it was when it was shown.
THEOREM UpdatesAreNotLost == Spec => NoLostUpdate
<1> DEFINE A == /\ \A p \in ProjectIds :
                     ProjectExists(p) /\ projects'[p] # projects[p] =>
                         /\ projects[p].version = answer'.expected
                         /\ projects'[p].version > projects[p].version
                /\ \A i \in ItemIds :
                     ItemExists(i) /\ items'[i] # items[i] =>
                         /\ items[i].version = answer'.expected
                         /\ items'[i].version > items[i].version
<1>1. IInv /\ [Next]_vars => [A]_vars
  <2> SUFFICES ASSUME IInv, Next PROVE A
    OBVIOUS
  <2>1. CASE UNCHANGED <<projects, items>>
    BY <2>1
  <2>2. CASE HandleUpdate
    <3>1. PICK u \in Updates, n \in Nonces, v \in Versions : Handled(u, n, v)
      BY <2>2, StepForms DEF IInv
    <3>2. answer'.expected = v
      BY <3>1 DEF Handled, Answered, Tell
    <3>3. CASE UNCHANGED <<projects, items>>
      BY <3>3
    <3>4. CASE Commits(u, n, v)
      <4>1. /\ clock \in Nat
            /\ \A p \in ProjectIds : projects[p].version \in Nat /\ projects[p].version <= clock
            /\ \A i \in ItemIds : items[i].version \in Nat /\ items[i].version <= clock
        BY DEF IInv, TypeOK, PastInv, Project, Item, Versions
      <4>0. PICK entity \in ProjectIds \union ItemIds :
                Keep \/ WritesProject(entity, v) \/ WritesItem(entity, v)
        BY <3>4 DEF Commits
      <4>2. CASE WritesProject(entity, v)
        BY <3>2, <4>1, <4>2 DEF WritesProject, PutProject, IInv, TypeOK
      <4>3. CASE WritesItem(entity, v)
        BY <3>2, <4>1, <4>3 DEF WritesItem, PutItem, IInv, TypeOK
      <4> QED  BY <3>3, <4>0, <4>2, <4>3 DEF Keep
    <3> QED  BY <3>1, <3>3, <3>4 DEF Handled, Quiet, db
  <2> QED
    BY <2>1, <2>2 DEF Next, Screen, ShowDetail, OpenConfirmation, DraftCreate, DraftEdit,
                      FinishWizard, CancelDraft, db
<1> QED  BY InductiveInvariant, <1>1, PTL DEF Spec, NoLostUpdate

\* An item of an archived project can be completed and nothing else, and no
\* item enters an archived project.
THEOREM ArchivedStaysAsItIs == Spec => ArchivedIsReadOnly
<1> DEFINE A == \A i \in ItemIds : items'[i] # items[i] =>
                    /\ ItemExists(i) /\ InArchived(i) =>
                        /\ items[i].status = "active" /\ items'[i].status = "done"
                        /\ items'[i].project = items[i].project
                    /\ items'[i].project # items[i].project =>
                        projects[items'[i].project].status = "active"
<1>1. IInv /\ [Next]_vars => [A]_vars
  <2> SUFFICES ASSUME IInv, Next PROVE A
    OBVIOUS
  <2>1. CASE UNCHANGED items
    BY <2>1
  <2>2. CASE HandleUpdate
    <3>1. PICK u \in Updates, n \in Nonces, v \in Versions : Handled(u, n, v)
      BY <2>2, StepForms DEF IInv
    <3>2. ASSUME NEW i \in ItemIds, WritesItem(i, v)
          PROVE  A
      BY <3>2 DEF WritesItem, PutItem, IInv, TypeOK
    <3> QED
      BY <2>1, <3>1, <3>2
      DEF Handled, Quiet, db, Commits, Keep, WritesItem, WritesProject, PutProject
  <2> QED
    BY <2>1, <2>2 DEF Next, Screen, ShowDetail, OpenConfirmation, DraftCreate, DraftEdit,
                      FinishWizard, CancelDraft, db
<1> QED  BY InductiveInvariant, <1>1, PTL DEF Spec, ArchivedIsReadOnly

-----------------------------------------------------------------------------
(* The services implement Confirmations. *)

LEMMA TableIsTyped ==
    ASSUME TypeOK
    PROVE  Table \in [ProjectIds \union ItemIds -> (Project \union Item) \union {None}]
<1>1. /\ \A p \in ProjectIds : projects[p] \in Project
      /\ \A i \in ItemIds : items[i] \in Item
  BY DEF TypeOK
<1> HIDE DEF ProjectExists, ItemExists
<1> QED  BY <1>1 DEF Table

\* Every row there is was written by now.
LEMMA TableIsPast ==
    ASSUME IInv, NEW e \in ProjectIds \union ItemIds, Table[e] # None
    PROVE  Table[e].version \in Nat /\ Table[e].version <= clock
<1>1. /\ \A p \in ProjectIds : projects[p].version \in Nat /\ projects[p].version <= clock
      /\ \A i \in ItemIds : items[i].version \in Nat /\ items[i].version <= clock
  BY DEF IInv, TypeOK, PastInv, Project, Item, Versions
<1> QED  BY <1>1 DEF Table

LEMMA ScreenOffers ==
    ASSUME IInv, Screen \/ CancelDraft
    PROVE  Confirmation!Offer
<1> DEFINE Known(v) == \/ v = 0
                       \/ \E e \in Confirmation!Present : v = Table[e].version
<1>1. Table' = Table /\ UNCHANGED <<receipts, processed>> /\ Told' = None
  BY DEF Screen, ShowDetail, OpenConfirmation, DraftCreate, DraftEdit, FinishWizard,
         CancelDraft, db, Table, ProjectExists, ItemExists, Told
<1>2. confirms' \subseteq Nonces \X Nat
  <2>1. TypeOK'
    BY StepIInv DEF Next, IInv
  <2> QED  BY <2>1 DEF TypeOK, Versions
<1>3. /\ \A p \in ProjectIds : ProjectExists(p) => Known(projects[p].version)
      /\ \A i \in ItemIds : ItemExists(i) => Known(items[i].version)
  <2>1. /\ \A p \in ProjectIds : projects[p] # None
        /\ \A i \in ItemIds : items[i] # None
    BY NoneIsNoRecord DEF IInv, TypeOK
  <2>2. \A i \in ItemIds : i \notin ProjectIds
    BY IdsAssumption
  <2>3. /\ \A p \in ProjectIds : ProjectExists(p) => Table[p] = projects[p]
        /\ \A i \in ItemIds : ItemExists(i) => Table[i] = items[i]
    BY <2>2 DEF Table
  <2> QED  BY <2>1, <2>3 DEF Confirmation!Present
<1>4. \A c \in confirms' \ confirms : Known(c[2])
  <2> HIDE DEF Known
  <2>1. Known(0)
    BY DEF Known
  <2>2. CASE CancelDraft \/ \E n \in Nonces : ShowDetail(n)
    BY <2>2 DEF CancelDraft, ShowDetail, chat
  <2>3. ASSUME NEW n \in Nonces, NEW b, NEW v, FinishWizard(n, b, v), Known(v)
        PROVE  \A c \in confirms' \ confirms : Known(c[2])
    BY <2>3 DEF FinishWizard
  <2>4. ASSUME NEW n \in Nonces, DraftCreate(n)
        PROVE  \A c \in confirms' \ confirms : Known(c[2])
    BY <2>1, <2>3, <2>4 DEF DraftCreate
  <2>5. ASSUME NEW n \in Nonces, DraftEdit(n)
        PROVE  \A c \in confirms' \ confirms : Known(c[2])
    BY <1>3, <2>3, <2>5 DEF DraftEdit, ItemExists
  <2>6. ASSUME NEW n \in Nonces, OpenConfirmation(n)
        PROVE  \A c \in confirms' \ confirms : Known(c[2])
    <3>1. /\ buttons[n] # None /\ buttons[n].op \notin DraftOps
          /\ buttons[n].op \in Ops
      BY <2>6 DEF OpenConfirmation, IInv, TypeOK, Button
    <3>2. buttons[n].id \in ProjectIds => ProjectExists(buttons[n].id)
      <4>1. buttons[n].op \in ProjectOps \/ buttons[n].op \in ItemOps
        BY <3>1 DEF Ops, DraftOps
      <4> QED  BY <3>1, <4>1, IdsAssumption DEF IInv, ChatInv
    <3> QED  BY <1>3, <2>6, <3>2 DEF OpenConfirmation
  <2> QED  BY <2>2, <2>4, <2>5, <2>6 DEF Screen
<1> QED  BY <1>1, <1>2, <1>4 DEF Confirmation!Offer

\* A commit writes the row its receipt names, at the version confirmed.
LEMMA CommitRewrites ==
    ASSUME IInv, TypeOK', NEW e \in ProjectIds \union ItemIds, NEW v \in Versions,
           Keep \/ WritesProject(e, v) \/ WritesItem(e, v)
    PROVE  Confirmation!Rewrite(e, v)
<1> DEFINE E == ProjectIds \union ItemIds
<1>1. Table' \in [E -> (Project \union Item) \union {None}]
  <2>1. /\ \A p \in ProjectIds : projects'[p] \in Project
        /\ \A i \in ItemIds : items'[i] \in Item
    BY DEF TypeOK
  <2> QED  BY <2>1 DEF Table
<1>2. CASE Keep
  <2>1. Table' = Table
    BY <1>2 DEF Keep, Table, ProjectExists, ItemExists
  <2> QED  BY <1>1, <2>1 DEF Confirmation!Rewrite
<1>3. /\ clock \in Nat
      /\ \A g \in Confirmation!Present : Table[g].version < clock + 1
  BY TableIsPast DEF IInv, TypeOK, Versions, Confirmation!Present
<1>4. \A f \in E : Table'[f] =
          IF f \in ProjectIds
          THEN IF projects'[f].status # "none" THEN projects'[f] ELSE None
          ELSE IF items'[f].status \in {"active", "done"} THEN items'[f] ELSE None
  BY DEF Table, ProjectExists, ItemExists
<1>5. \A f \in E : Table[f] =
          IF f \in ProjectIds
          THEN IF projects[f].status # "none" THEN projects[f] ELSE None
          ELSE IF items[f].status \in {"active", "done"} THEN items[f] ELSE None
  BY DEF Table, ProjectExists, ItemExists
<1>6. CASE WritesProject(e, v)
  <2>1. e \in ProjectIds /\ (projects[e].status # "none" => projects[e].version = v)
    BY <1>6 DEF WritesProject, ProjectExists
  <2>2. /\ items' = items
        /\ projects'[e].version = clock + 1
        /\ \A p \in ProjectIds \ {e} : projects'[p] = projects[p]
    BY <1>6 DEF WritesProject, PutProject, IInv, TypeOK
  <2>3. \A f \in E : Table'[f] # Table[f] => f = e
    BY <1>4, <1>5, <2>2
  <2>4. e \in Confirmation!Present => Table[e].version = v
    BY <1>5, <2>1 DEF Confirmation!Present
  <2>5. Table'[e] # None => Table'[e].version = clock + 1
    BY <1>4, <2>1, <2>2
  <2> QED  BY <1>1, <1>3, <2>3, <2>4, <2>5 DEF Confirmation!Rewrite
<1>7. CASE WritesItem(e, v)
  <2>1. /\ e \in ItemIds /\ e \notin ProjectIds
        /\ items[e].status \in {"active", "done"} => items[e].version = v
    BY <1>7, IdsAssumption DEF WritesItem, ItemExists
  <2>2. /\ projects' = projects
        /\ items'[e].version = clock + 1
        /\ \A i \in ItemIds \ {e} : items'[i] = items[i]
    BY <1>7 DEF WritesItem, PutItem, IInv, TypeOK
  <2>3. \A f \in E : Table'[f] # Table[f] => f = e
    BY <1>4, <1>5, <2>2
  <2>4. e \in Confirmation!Present => Table[e].version = v
    BY <1>5, <2>1 DEF Confirmation!Present
  <2>5. Table'[e] # None => Table'[e].version = clock + 1
    BY <1>4, <2>1, <2>2
  <2> QED  BY <1>1, <1>3, <2>3, <2>4, <2>5 DEF Confirmation!Rewrite
<1> QED  BY <1>2, <1>6, <1>7

LEMMA HandledConfirms ==
    ASSUME IInv, IInv', HandleUpdate
    PROVE  Confirmation!Next
<1>1. PICK u \in Updates, n \in Nonces, v \in Versions :
        buttons[n] # None /\ Handled(u, n, v)
  BY StepForms DEF IInv
<1>2. /\ <<n, v>> \in confirms /\ confirms' = confirms
      /\ answer' \in Answer /\ answer'.nonce = n
  BY <1>1 DEF Handled, Answered, chat, Tell, Answer
<1>3. Told' = IF answer'.outcome = "saved" THEN n ELSE None
  BY <1>2, NoneIsNoRecord DEF Told
<1>4. CASE Quiet(u)
  <2>1. /\ UNCHANGED <<projects, items, receipts>>
        /\ processed' \in {processed, processed \union {u}} /\ Told' = None
    BY <1>3, <1>4 DEF Quiet, db
  <2>2. Table' = Table
    BY <2>1 DEF Table, ProjectExists, ItemExists
  <2>3. Confirmation!TurnAway(u)
    BY <1>2, <2>1, <2>2 DEF Confirmation!TurnAway
  <2> QED  BY <2>3 DEF Confirmation!Next
<1>5. CASE Commits(u, n, v)
  <2>1. PICK e \in ProjectIds \union ItemIds :
            Commit(u, n, e) /\ (Keep \/ WritesProject(e, v) \/ WritesItem(e, v))
    BY <1>5 DEF Commits
  <2>2. Confirmation!Rewrite(e, v)
    BY <2>1, CommitRewrites DEF IInv
  <2>3. Confirmation!Apply(u, n, v, buttons[n].op, e)
    BY <1>2, <1>3, <2>1, <2>2 DEF Confirmation!Apply, Commit
  <2>4. buttons[n].op \in Ops
    BY <1>1 DEF IInv, TypeOK, Button
  <2>5. \E c \in confirms : Confirmation!Apply(u, c[1], c[2], buttons[n].op, e)
    BY <1>2, <2>3
  <2> QED  BY <2>4, <2>5 DEF Confirmation!Next
<1> QED  BY <1>1, <1>4, <1>5 DEF Handled

\* The nine operations, their receipts and the screens implement Confirmations,
\* for any entities, nonces and updates: each confirmation takes effect at most
\* once, in one transaction with its receipt, on the row it names, at the
\* version that was confirmed.
THEOREM Refinement == Spec => ImplementsConfirmations
<1>1. Init => Confirmation!Init
  <2> SUFFICES ASSUME Init PROVE Confirmation!Init
    OBVIOUS
  <2>1. Table \in [ProjectIds \union ItemIds -> (Project \union Item) \union {None}]
    BY InitIInv, TableIsTyped DEF IInv
  <2>2. Told = None
    BY DEF Init, Told
  <2> QED  BY <2>1, <2>2 DEF Init, Confirmation!Init
<1>2. IInv /\ IInv' /\ [Next]_vars => [Confirmation!Next]_(Confirmation!vars)
  <2> SUFFICES ASSUME IInv, IInv', [Next]_vars
               PROVE  [Confirmation!Next]_(Confirmation!vars)
    OBVIOUS
  <2>1. CASE Screen \/ CancelDraft
    BY <2>1, ScreenOffers DEF Confirmation!Next
  <2>2. CASE HandleUpdate
    BY <2>2, HandledConfirms
  <2>3. CASE UNCHANGED vars
    <3>1. Table' = Table /\ Told' = Told
      BY <2>3 DEF vars, db, Table, ProjectExists, ItemExists, Told
    <3> QED  BY <2>3, <3>1 DEF vars, db, chat, Confirmation!vars
  <2> QED  BY <2>1, <2>2, <2>3 DEF Next
<1> QED  BY InductiveInvariant, <1>1, <1>2, PTL
         DEF Spec, ImplementsConfirmations, Confirmation!Spec
=============================================================================
