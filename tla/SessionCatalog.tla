--------------------------- MODULE SessionCatalog ---------------------------
(***************************************************************************)
(* The sessions and projects of the server's users, and the two lists that *)
(* a client reads page by page while the sessions go on: the sessions of a *)
(* project, the last used first (cmd/run_sse/handler.go, sessionrepo/      *)
(* sqlite.go), and the originals of a session, from the end to the front.  *)
(*                                                                         *)
(* Times come from a clock that may give two saves the same time.          *)
(***************************************************************************)
EXTENDS Integers, Sequences, FiniteSets, Functions

CONSTANTS
  Users,
  MaxProjects,  \* bound on the projects
  Ids,          \* the identifiers of sessions, numbers for their order
  MaxTime,      \* bound on the clock
  MaxOriginals, \* bound on the originals of a session
  Limits        \* page sizes asked for

VARIABLES
  projects,     \* [project -> its user]
  rows,         \* [session -> [user, project, updated]]
  originals,    \* [session -> the roles of its originals, by their number]
  clock,
  list,         \* a client that reads a list of sessions
  history       \* or one that reads the originals of a session

vars == <<projects, rows, originals, clock, list, history>>

\* Where a page starts for want of a cursor.
NoPlace == [updated |-> 0, session |-> 0]

\* A project is named by the number of its creation.
NoList == [user |-> "none", project |-> 0, cursor |-> 0, place |-> NoPlace, shown |-> <<>>,
           quiet |-> {}, steady |-> TRUE, done |-> FALSE]

NoHistory == [of |-> 0, before |-> 0, got |-> <<>>, done |-> FALSE]

Init ==
  /\ projects = <<>>
  /\ rows = <<>>
  /\ originals = <<>>
  /\ clock = 1
  /\ list = NoList
  /\ history = NoHistory

Sessions == DOMAIN rows

-----------------------------------------------------------------------------
(* Projects, sessions, and the saves that move a session to the front.     *)

CreateProject ==
  /\ Len(projects) < MaxProjects
  /\ \E u \in Users : projects' = Append(projects, u)
  /\ UNCHANGED <<rows, originals, clock, list, history>>

\* A function with one more argument.
With(f, x, value) == [y \in DOMAIN f \cup {x} |-> IF y = x THEN value ELSE f[y]]

\* Time passes, or not, until the next save.
Now(t) == t \in clock .. (clock + 1) /\ t <= MaxTime

\* handleCreateSession: a session belongs to a project of its user, and has a
\* random identifier.
CreateSession ==
  \E u \in Users, p \in DOMAIN projects, t \in clock .. MaxTime, s \in Ids \ Sessions :
    /\ Now(t)
    /\ projects[p] = u
    /\ rows' = With(rows, s, [user |-> u, project |-> p, updated |-> t])
    /\ originals' = With(originals, s, <<>>)
    /\ clock' = t
    /\ UNCHANGED <<projects, list, history>>

\* What a client that reads a list may no longer count on: a session that is
\* saved leaves its place, and with the cursor's session the place to go on from.
Disturbed(s) ==
  [list EXCEPT !.quiet  = @ \ {s},
               !.steady = @ /\ (s = list.cursor => list.place # NoPlace)]

\* A save of a session, with or without new originals.
Save ==
  \E s \in Sessions, t \in clock .. MaxTime, role \in {"system", "user", "none"} :
    /\ Now(t)
    /\ rows' = [rows EXCEPT ![s].updated = t]
    /\ role = "system" => originals[s] = <<>>
    /\ role # "none" => Len(originals[s]) < MaxOriginals
    /\ originals' = IF role = "none" THEN originals
                    ELSE [originals EXCEPT ![s] = Append(@, role)]
    /\ clock' = t
    /\ list' = Disturbed(s)
    /\ UNCHANGED <<projects, history>>

-----------------------------------------------------------------------------
(* ListSessions.                                                           *)

InProject(u, p) == {s \in Sessions : rows[s].user = u /\ rows[s].project = p}

\* By the time of the last save, then by the identifier.
Older(s, place) ==
  \/ rows[s].updated < place.updated
  \/ rows[s].updated = place.updated /\ s < place.session

\* The elements of S in the order of the pairs R (SetToSortSeq, in a form that
\* the provers know the parts of).
InOrder(S, R) ==
  CHOOSE f \in [1 .. Cardinality(S) -> S] : \A i, j \in DOMAIN f : i < j => <<f[i], f[j]>> \in R

Place(s) == [updated |-> rows[s].updated, session |-> s]

LatestFirst(S) == InOrder(S, {r \in S \X S : Older(r[2], Place(r[1]))})

\* One row more than asked for tells whether there are more.
Cut(found, limit) ==
  [shown |-> SubSeq(found, 1, IF Len(found) < limit THEN Len(found) ELSE limit),
   more  |-> Len(found) > limit]

\* Mutant: the cursor does not tell sessions of one moment apart.
SkipsTies(u, p, place, limit) ==
  Cut(LatestFirst({s \in InProject(u, p) : place = NoPlace \/ rows[s].updated < place.updated}),
      limit)

SessionPage(u, p, place, limit) ==
  Cut(LatestFirst({s \in InProject(u, p) : place = NoPlace \/ Older(s, place)}), limit)

StartList ==
  /\ list.user = "none" /\ history.of = 0
  /\ \E u \in Users, p \in DOMAIN projects :
       list' = [NoList EXCEPT !.user = u, !.project = p, !.quiet = InProject(u, p)]
  /\ UNCHANGED <<projects, rows, originals, clock, history>>

\* The place of the cursor is the one its session has now; the page is read by a
\* statement of its own.
LoadCursor ==
  /\ list.cursor # 0 /\ list.place = NoPlace
  /\ list' = [list EXCEPT !.place = Place(list.cursor)]
  /\ UNCHANGED <<projects, rows, originals, clock, history>>

\* handleListSessions: the last session shown is the cursor of the next page.
ListSessions ==
  /\ list.user # "none" /\ ~list.done
  /\ list.cursor # 0 => list.place # NoPlace
  /\ \E limit \in Limits :
       LET page == SessionPage(list.user, list.project, list.place, limit)
       IN  list' = [list EXCEPT !.shown  = @ \o page.shown,
                                !.cursor = IF page.more THEN page.shown[Len(page.shown)] ELSE 0,
                                !.place  = NoPlace,
                                !.done   = ~page.more]
  /\ UNCHANGED <<projects, rows, originals, clock, history>>

-----------------------------------------------------------------------------
(* ListOriginalHistory.                                                    *)

\* A page turned round.
OldestFirst(found) == [i \in DOMAIN found |-> found[Len(found) - i + 1]]

Visible(s) == {q \in DOMAIN originals[s] : originals[s][q] # "system"}

HistoryPage(s, before, limit) ==
  LET found == {q \in Visible(s) : before = 0 \/ q < before}
  IN  Cut(InOrder(found, {r \in found \X found : r[2] < r[1]}), limit)

StartHistory ==
  /\ list.user = "none" /\ history.of = 0
  /\ \E s \in Sessions : history' = [NoHistory EXCEPT !.of = s]
  /\ UNCHANGED <<projects, rows, originals, clock, list>>

\* handleHistory: a page is put, oldest first, before what was read.
ListHistory ==
  /\ history.of # 0 /\ ~history.done
  /\ \E limit \in Limits :
       LET page == HistoryPage(history.of, history.before, limit)
       IN  history' = [history EXCEPT
             !.got    = OldestFirst(page.shown) \o @,
             !.before = IF page.more THEN page.shown[Len(page.shown)] ELSE @,
             !.done   = ~page.more]
  /\ UNCHANGED <<projects, rows, originals, clock, list>>

Next ==
  \/ CreateProject \/ CreateSession \/ Save
  \/ StartList \/ LoadCursor \/ ListSessions \/ StartHistory \/ ListHistory

Spec == Init /\ [][Next]_vars

-----------------------------------------------------------------------------
(* Properties.                                                             *)

\* A session that is not saved while a client reads the list is not missed,
\* whatever happens to the others, and is shown once unless a cursor's session
\* was saved before the next page, which starts the list over.  Only sessions of the user
\* and the project are ever shown.
ListComplete ==
  /\ list.done => list.quiet \subseteq Range(list.shown)
  /\ list.steady => \A s \in list.quiet :
                      Cardinality({i \in DOMAIN list.shown : list.shown[i] = s}) <= 1
  /\ \A i \in DOMAIN list.shown :
       /\ rows[list.shown[i]].user = list.user /\ projects[list.project] = list.user
       /\ rows[list.shown[i]].project = list.project

\* The pages of a history are a gapless run of the originals, each once and in
\* order, however many are added meanwhile; at the end they reach the front.
HistoryTiles ==
  LET s    == history.of
      from == IF history.done \/ history.got = <<>> THEN 0 ELSE history.got[1]
  IN  s # 0 /\ history.got # <<>> =>
        /\ \A i, j \in DOMAIN history.got : i < j => history.got[i] < history.got[j]
        /\ Range(history.got) =
             {q \in Visible(s) : from <= q /\ q <= history.got[Len(history.got)]}

CatalogPages == ListComplete /\ HistoryTiles
=============================================================================
