------------------------------ MODULE Listing ------------------------------
(***************************************************************************)
(* What the user is shown of the backlog: the list screens, which re-read  *)
(* the tables page by page, and the recommendation, which ranks the active *)
(* items and splits the morning's message into parts.                      *)
(*                                                                         *)
(* The items are numbered by their IDs, which stay the last key of every   *)
(* order.  Between two buttons the tables may change.                      *)
(***************************************************************************)
EXTENDS Orders, FiniteSetsExt, SequencesExt

CONSTANTS
    Projects,     \* projects, by name
    Rows,         \* rows an item may have when a story starts
    Today,        \* the local date
    Limit,        \* RECOMMENDATION_LIMIT
    PageSize,     \* 8 in the code
    MaxUnits,     \* 4096 in the code
    Overhead,     \* UTF-16 units of a part's heading and project line
    NoLimit,      \* no restriction in a filter
    MaxItems,     \* bound: items of a story
    MaxChanges    \* bound: changes of the tables

Statuses == {"active", "done", "deleted"}

Row == [project : Projects, quadrant : 1..4, deadline : Nat, created : Nat,
        runes : Nat, units : Nat, status : Statuses]

ASSUME RowsAssumption == Rows \subseteq Row

\* A rune is one or two UTF-16 units.  The limits on names and titles keep
\* the message of a single item below Telegram's limit.
ASSUME TextAssumption ==
    /\ \A r \in Rows : r.runes <= r.units /\ Overhead + r.units <= MaxUnits
    /\ Overhead <= MaxUnits

ASSUME NoLimitAssumption ==
    NoLimit \notin Projects /\ NoLimit \notin 1..4 /\ NoLimit \notin Statuses

ASSUME BoundsAssumption ==
    /\ Today \in Nat /\ Limit \in Nat /\ PageSize \in Nat \ {0}
    /\ MaxUnits \in Nat \ {0} /\ Overhead \in Nat /\ MaxItems \in Nat /\ MaxChanges \in Nat

VARIABLES
    items,      \* the rows of backlog_items
    archived,   \* the projects that are archived
    screen,     \* what was sent last
    walk,       \* pages a walk with the arrows has shown, by page
    begun,      \* the filter the walk began with
    fresh,      \* the tables have not changed since
    changes     \* how often the tables changed

tables == <<items, archived, changes>>
vars == <<tables, screen, walk, begun, fresh>>

-----------------------------------------------------------------------------
(* Orders. *)

DeadlineBucket(d) == IF d < Today THEN 0 ELSE IF d = Today THEN 1 ELSE 2

\* Mutant: the deadline decides before the quadrant.
Before_DeadlineFirst(i, j) ==
    LET key(n) == <<DeadlineBucket(items[n].deadline), items[n].deadline,
                    items[n].quadrant, items[n].created, n>>
    IN  Lexical(key(i), key(j))

\* The comparison of SortRecommendations.
Before(i, j) ==
    LET key(n) == <<DeadlineBucket(items[n].deadline), items[n].quadrant,
                    items[n].deadline, items[n].created, n>>
    IN  Lexical(key(i), key(j))

\* The ORDER BY of ListItemsPage.
Earlier(i, j) ==
    LET key(n) == <<items[n].deadline, items[n].quadrant, items[n].created, n>>
    IN  Lexical(key(i), key(j))

-----------------------------------------------------------------------------
(* The list screens. *)

Filters ==
    [project : Projects \union {NoLimit}, quadrant : 1..4 \union {NoLimit},
     status : {"active", "done", NoLimit}, bucket : {-1, 0, 1, 2}, archived : BOOLEAN]

NoFilter ==
    [project |-> NoLimit, quadrant |-> NoLimit, status |-> NoLimit,
     bucket |-> -1, archived |-> FALSE]

\* Mutant: the deadline's buttons count from one.
ListFilters_FromOne ==
    {[NoFilter EXCEPT !.bucket = b, !.status = "active"] : b \in 1..3}

\* The filters the buttons of filterMenu put together.
ListFilters ==
    {[NoFilter EXCEPT !.project = p] : p \in Projects}
      \union {[NoFilter EXCEPT !.quadrant = q, !.status = "active"] : q \in 1..4}
      \union {[NoFilter EXCEPT !.status = s] : s \in {"active", "done"}}
      \union {[NoFilter EXCEPT !.bucket = b, !.status = "active"] : b \in 0..2}

History(p) == [NoFilter EXCEPT !.project = p, !.archived = TRUE]

Matches(f) ==
    {i \in DOMAIN items :
        /\ items[i].status # "deleted"
        /\ f.archived \/ items[i].project \notin archived
        /\ f.status \in {NoLimit, items[i].status}
        /\ f.project \in {NoLimit, items[i].project}
        /\ f.quadrant \in {NoLimit, items[i].quadrant}
        /\ f.bucket \in {-1, DeadlineBucket(items[i].deadline)}}

ListItemsPage(f, page) ==
    LET matches == Matches(f)
        s == Sorted(matches, {r \in matches \X matches : Earlier(r[1], r[2])})
    IN  SubSeq(s, page * PageSize + 1, Min({(page + 1) * PageSize, Len(s)}))

Blank == [kind |-> "blank", filter |-> NoFilter, page |-> 0, rows |-> <<>>,
          next |-> FALSE, parts |-> <<>>]

\* Mutant: the next page is offered when this one has more than it can have.
Page_NextWhenMore(kind, f, page) ==
    LET rows == ListItemsPage(f, page)
    IN  [kind |-> kind, filter |-> f, page |-> page, rows |-> rows,
         next |-> Len(rows) > PageSize, parts |-> <<>>]

\* A page of a list.  It offers the next one when it is full.
Page(kind, f, page) ==
    LET rows == ListItemsPage(f, page)
    IN  [kind |-> kind, filter |-> f, page |-> page, rows |-> rows,
         next |-> Len(rows) = PageSize, parts |-> <<>>]

Open(kind, f) ==
    /\ screen' = Page(kind, f, 0)
    /\ walk' = <<screen'.rows>> /\ begun' = f /\ fresh' = TRUE
    /\ UNCHANGED tables

OpenList == Open("list", NoFilter)

ListFilter == \E f \in ListFilters : Open("list", f)

ProjectItems == \E p \in Projects : Open("history", History(p))

\* The arrows of a list name its page and nothing of its filter; those of a
\* project's history name the project.
Turn(page) ==
    /\ screen' = Page(screen.kind, IF screen.kind = "list" THEN NoFilter ELSE screen.filter, page)
    /\ walk' = Append(SubSeq(walk, 1, page), screen'.rows)
    /\ UNCHANGED <<tables, begun, fresh>>

NextPage == screen.next /\ Turn(screen.page + 1)

PreviousPage == screen.page > 0 /\ Turn(screen.page - 1)

-----------------------------------------------------------------------------
(* The recommendation. *)

\* ListItems without the completed ones.
Eligible == Matches([NoFilter EXCEPT !.status = "active"])

\* SortRecommendations.
Ranking ==
    LET eligible == Eligible
    IN  Sorted(eligible, {r \in eligible \X eligible : Before(r[1], r[2])})

\* Select: the first of the ranking; an item's place is its ordinal.
Select(ranking) == SubSeq(ranking, 1, Min({Limit, Len(ranking)}))

\* The ordinals of each project, the project of the best one first.
Group(selected) ==
    LET ordinals == DOMAIN selected
        project(k) == items[selected[k]].project
        projects == {project(k) : k \in ordinals}
        of(p) == Sorted({k \in ordinals : project(k) = p},
                        {r \in ordinals \X ordinals : r[1] < r[2]})
        names == Sorted(projects, {r \in projects \X projects : of(r[1])[1] < of(r[2])[1]})
    IN  [g \in DOMAIN names |-> of(names[g])]

\* The length of a message whose items have these lengths.
Length(sizes) ==
    LET sum[n \in 0..Len(sizes)] == IF n = 0 THEN Overhead ELSE sum[n - 1] + sizes[n]
    IN  sum[Len(sizes)]

\* The length of the message with a group of ordinals.
Utf16Len(selected, group) == Length([n \in DOMAIN group |-> items[selected[group[n]]].units])
Runes(selected, group) == Length([n \in DOMAIN group |-> items[selected[group[n]]].runes])

\* One item by itself, cut if it is too long even so.
RenderItem(selected, k) ==
    LET runes == Runes(selected, <<k>>)
    IN  IF runes <= MaxUnits THEN << <<k>> >>
        ELSE [c \in 1..(runes + MaxUnits - 1) \div MaxUnits |-> <<k>>]

\* Mutant: the length is counted in characters.
RenderParts_CountRunes(selected) ==
    IF selected = <<>> THEN << <<>> >>
    ELSE LET part(group) == IF Runes(selected, group) <= MaxUnits THEN <<group>>
                            ELSE FlattenSeq([n \in DOMAIN group |-> RenderItem(selected, group[n])])
             groups == Group(selected)
         IN  FlattenSeq([g \in DOMAIN groups |-> part(groups[g])])

\* Mutant: the items of a project follow its message even if it fits.
RenderParts_Both(selected) ==
    IF selected = <<>> THEN << <<>> >>
    ELSE LET whole(group) == IF Utf16Len(selected, group) <= MaxUnits THEN <<group>> ELSE <<>>
             single(group) == FlattenSeq([n \in DOMAIN group |-> RenderItem(selected, group[n])])
             groups == Group(selected)
         IN  FlattenSeq([g \in DOMAIN groups |-> whole(groups[g]) \o single(groups[g])])

\* A message for a project if it fits, one for each of its items otherwise.
GroupParts(selected, group) ==
    IF Utf16Len(selected, group) <= MaxUnits THEN <<group>>
    ELSE FlattenSeq([n \in DOMAIN group |-> RenderItem(selected, group[n])])

RenderParts(selected) ==
    IF selected = <<>> THEN << <<>> >>
    ELSE LET groups == Group(selected)
         IN  FlattenSeq([g \in DOMAIN groups |-> GroupParts(selected, groups[g])])

Show(kind, selected, parts) ==
    /\ screen' = [Blank EXCEPT !.kind = kind, !.rows = selected, !.parts = parts]
    /\ walk' = <<>> /\ begun' = NoFilter /\ fresh' = TRUE
    /\ UNCHANGED tables

\* The snapshot of the morning, as Prepare makes it.
Digest == Show("digest", Select(Ranking), RenderParts(Select(Ranking)))

\* The screen of today's focus, one text.
Focus == Show("focus", Select(Ranking), <<>>)

-----------------------------------------------------------------------------
(* The tables change under the screen. *)

SetStatus ==
    \E i \in DOMAIN items, s \in Statuses :
        /\ items[i].status \notin {s, "deleted"}
        /\ items' = [items EXCEPT ![i].status = s]
        /\ UNCHANGED archived

SetArchived ==
    \E p \in Projects :
        /\ archived' = IF p \in archived THEN archived \ {p} ELSE archived \union {p}
        /\ UNCHANGED items

Change ==
    /\ changes < MaxChanges
    /\ SetStatus \/ SetArchived
    /\ fresh' = FALSE /\ changes' = changes + 1
    /\ UNCHANGED <<screen, walk, begun>>

-----------------------------------------------------------------------------
Init ==
    /\ items \in BoundedSeq(Rows, MaxItems)
    /\ archived = {} /\ changes = 0
    /\ screen = Blank /\ walk = <<>> /\ begun = NoFilter /\ fresh = TRUE

Next ==
    \/ OpenList \/ ListFilter \/ ProjectItems \/ NextPage \/ PreviousPage
    \/ Digest \/ Focus
    \/ Change

Spec == Init /\ [][Next]_vars

-----------------------------------------------------------------------------
(* Properties. *)

TypeOK ==
    /\ items \in Seq(Row)
    /\ archived \subseteq Projects
    /\ screen \in [kind : {"blank", "list", "history", "digest", "focus"},
                   filter : Filters, page : Nat, rows : Seq(DOMAIN items),
                   next : BOOLEAN, parts : Seq(Seq(1..Limit))]
    /\ IsInjective(screen.rows)
    /\ screen.kind = "digest" => screen.parts \in Seq(Seq(DOMAIN screen.rows))
    /\ walk \in Seq(Seq(DOMAIN items))
    /\ screen.kind \in {"list", "history"} => Len(walk) = screen.page + 1
    /\ begun \in Filters /\ fresh \in BOOLEAN /\ changes \in 0..MaxChanges

\* Walking the list, or a project's history, with its arrows until there is
\* no next page shows every item of it once, when nothing changes meanwhile:
\* no item hides between two pages, and a last page that is full is followed
\* by an empty one.
WalkShowsAll ==
    fresh /\ screen.kind \in {"list", "history"} /\ ~screen.next
          /\ begun \notin ListFilters =>
        LET shown == FlattenSeq(walk)
        IN  ToSet(shown) = Matches(begun) /\ Len(shown) = Cardinality(Matches(begun))

\* The ordering the design describes, key by key.
MoreUrgent(i, j) ==
    LET a == items[i]
        b == items[j]
        bucket(r) == DeadlineBucket(r.deadline)
    IN  \/ bucket(a) < bucket(b)
        \/ bucket(a) = bucket(b) /\ a.quadrant < b.quadrant
        \/ /\ bucket(a) = bucket(b) /\ a.quadrant = b.quadrant
           /\ \/ a.deadline < b.deadline
              \/ a.deadline = b.deadline /\ a.created < b.created
              \/ a.deadline = b.deadline /\ a.created = b.created /\ i < j

\* The head of the ranking of the active items of active projects.
Ranked(rows) ==
    LET chosen == ToSet(rows)
        open == {i \in DOMAIN items :
                    items[i].status = "active" /\ items[i].project \notin archived}
    IN  /\ chosen \subseteq open
        /\ \A j, k \in DOMAIN rows : j < k => MoreUrgent(rows[j], rows[k])
        /\ \A i \in chosen, j \in open \ chosen : MoreUrgent(i, j)
        /\ Len(rows) < Limit => chosen = open

\* What is recommended, in the morning or on request, is ranked by urgency,
\* and no active item of an active project that is more urgent than any of it
\* is left out, or any at all if there was room.
MostUrgentFirst ==
    fresh /\ screen.kind \in {"digest", "focus"} => Ranked(screen.rows)

\* Grouping and splitting lose and repeat no ordinal, keep the items of a
\* project together and in rank order, and the projects in the order of
\* their best items.
EveryItemOnce ==
    screen.kind = "digest" =>
        LET parts == screen.parts
            all == FlattenSeq(parts)
            project(k) == items[screen.rows[k]].project
            best(k) == Min({n \in DOMAIN screen.rows : project(n) = project(k)})
        IN  /\ Len(all) = Len(screen.rows) /\ ToSet(all) = DOMAIN screen.rows
            /\ \A m, n \in DOMAIN all :
                   m < n => \/ best(all[m]) < best(all[n])
                            \/ best(all[m]) = best(all[n]) /\ all[m] < all[n]
            /\ \A p \in DOMAIN parts : \A k, n \in ToSet(parts[p]) : project(k) = project(n)

\* Telegram takes every part: none is longer than its limit, which it counts
\* in UTF-16 units and not in characters.
PartsFit ==
    screen.kind = "digest" =>
        \A p \in DOMAIN screen.parts : Utf16Len(screen.rows, screen.parts[p]) <= MaxUnits
=============================================================================
