----------------------------- MODULE TicketFeed -----------------------------
(***************************************************************************)
(* The paginated ticket list: a client asks for page after page of a       *)
(* filtered list that changes between two of its requests.                 *)
(*                                                                         *)
(* The order is created_at, then id, both descending.  created_at is read  *)
(* from the clock before the creation commits and never changes, so two    *)
(* tickets may share it and a late commit may land below a page that was   *)
(* already given.  Tickets are never deleted.                              *)
(*                                                                         *)
(* Each page is one SELECT.  Tenants are left out: row level security shows*)
(* the client one organization's tickets.  So is the filter by requester,  *)
(* which no ticket enters or leaves.                                       *)
(***************************************************************************)
EXTENDS TicketLifecycle, Sequences, FiniteSets

CONSTANTS
  Ticket,    \* ticket ids, ordered as the database orders uuids
  Filters,   \* the filters a client may ask for
  Limits,    \* the page sizes it may ask for, within 1..TICKETS_PAGE_SIZE_MAX
  Statuses,  \* bound: the statuses that tickets take
  MaxTime    \* bound: last clock reading

\* A NULL field of a filter lets every ticket pass.
Filter == [status : Status \cup {NULL}, assignee : User \cup {NULL}]

ASSUME FeedAssumption ==
  /\ Ticket \subseteq Nat /\ IsFiniteSet(Ticket)
  /\ Filters \subseteq Filter
  /\ Limits \subseteq Nat \ {0}
  /\ Statuses \subseteq Status
  /\ MaxTime \in Nat

Listed == [createdAt : Nat, status : Status, assignee : User \cup {NULL}]

ASSUME FeedNullAssumption ==
  /\ NULL \notin Nat
  /\ NULL \notin User
  /\ NULL \notin Status
  /\ NULL \notin Filter
  /\ NULL \notin Listed

VARIABLES
  opening,  \* createdAt of a creation that has not committed, NULL if there is none
  list,     \* the committed tickets, NULL where there is none
  filter,   \* what the client is paging through, NULL before it starts
  cursor,   \* nextCursor of the last page, NULL before the first one
  pages,    \* the pages of this traversal, each a set of tickets
  ended,    \* the last page came without a cursor
  stayed,   \* tickets that have passed the filter since the traversal began
  astray,   \* pages asked for with a cursor whose ticket had left the filter
  clock

reader == <<filter, cursor, pages, ended, astray>>
vars == <<opening, list, filter, cursor, pages, ended, stayed, astray, clock>>

TypeOK ==
  /\ opening \in [Ticket -> Nat \cup {NULL}]
  /\ list \in [Ticket -> Listed \cup {NULL}]
  /\ filter \in Filter \cup {NULL}
  /\ cursor \in Ticket \cup {NULL}
  /\ pages \in Seq(SUBSET Ticket)
  /\ ended \in BOOLEAN
  /\ stayed \subseteq Ticket
  /\ astray \in Nat
  /\ clock \in Nat

Init ==
  /\ opening = [t \in Ticket |-> NULL]
  /\ list = [t \in Ticket |-> NULL]
  /\ filter = NULL
  /\ cursor = NULL
  /\ pages = <<>>
  /\ ended = FALSE
  /\ stayed = {}
  /\ astray = 0
  /\ clock = 0

-----------------------------------------------------------------------------
(* The query.                                                              *)

\* where: the fields of the filter that are given.
Passes(row, f) ==
  /\ f.status # NULL => row.status = f.status
  /\ f.assignee # NULL => row.assignee = f.assignee

Matching(rows, f) == {t \in Ticket : rows[t] # NULL /\ Passes(rows[t], f)}

\* orderBy: t comes before u.
Before(rows, t, u) ==
  \/ rows[t].createdAt > rows[u].createdAt
  \/ rows[t].createdAt = rows[u].createdAt /\ t > u

\* A mutant: the cursor is compared by date alone.
FromCursorByDate(rows, f, c) ==
  {t \in Matching(rows, f) : c = NULL \/ rows[t].createdAt <= rows[c].createdAt}

\* cursor: the rows from the cursor's on, which is looked up by id whether or
\* not it still passes the filter.
FromCursor(rows, f, c) ==
  {t \in Matching(rows, f) : c = NULL \/ t = c \/ Before(rows, c, t)}

\* A mutant: the first page skips a row too.
SkipAlways(c) == 1

\* skip: 1 after the first page, for the row of the cursor.
Skip(c) == IF c = NULL THEN 0 ELSE 1

Rank(rows, S, t) == Cardinality({u \in S : Before(rows, u, t)})

\* findMany: `take` rows in order, after the skipped ones.
PageOf(rows, f, c, take) ==
  LET S == FromCursor(rows, f, c)
  IN  {t \in S : Skip(c) <= Rank(rows, S, t) /\ Rank(rows, S, t) < Skip(c) + take}

-----------------------------------------------------------------------------
(* The tickets.                                                            *)

\* CreateTicket reads the clock before it opens its transaction.
BeginCreate(t) ==
  /\ list[t] = NULL
  /\ opening[t] = NULL
  /\ opening' = [opening EXCEPT ![t] = clock]
  /\ UNCHANGED <<list, reader, stayed, clock>>

CommitCreate(t) ==
  /\ opening[t] # NULL
  /\ list' = [list EXCEPT ![t] = [createdAt |-> opening[t], status |-> "OPEN", assignee |-> NULL]]
  /\ opening' = [opening EXCEPT ![t] = NULL]
  /\ UNCHANGED <<reader, stayed, clock>>

AbortCreate(t) ==
  /\ opening[t] # NULL
  /\ opening' = [opening EXCEPT ![t] = NULL]
  /\ UNCHANGED <<list, reader, stayed, clock>>

Store(t, row) ==
  /\ list' = [list EXCEPT ![t] = row]
  /\ stayed' = IF filter = NULL \/ Passes(row, filter) THEN stayed ELSE stayed \ {t}
  /\ UNCHANGED <<opening, reader, clock>>

\* A status change.  It is a legal one of the stored row, or the save of a
\* request that overlapped others: a status that its older copy led to.
Move(t) ==
  /\ list[t] # NULL
  /\ \E next \in Statuses \ {list[t].status} : Store(t, [list[t] EXCEPT !.status = next])

\* AssignTicket and AutoAssignTicket.
Assign(t) ==
  /\ list[t] # NULL
  /\ \E who \in (User \cup {NULL}) \ {list[t].assignee} :
       Store(t, [list[t] EXCEPT !.assignee = who])

Tick ==
  /\ clock < MaxTime
  /\ clock' = clock + 1
  /\ UNCHANGED <<opening, list, reader, stayed>>

-----------------------------------------------------------------------------
(* The client.                                                             *)

\* It settles on a filter, and starts from the top.
Start ==
  /\ filter = NULL \/ ended
  /\ \E f \in Filters : filter' = f /\ stayed' = Matching(list, f)
  /\ cursor' = NULL
  /\ pages' = <<>>
  /\ ended' = FALSE
  /\ astray' = 0
  /\ UNCHANGED <<opening, list, clock>>

IsLastOf(rows, t, page) == \A u \in page : u = t \/ Before(rows, u, t)

\* A mutant: a cursor is refused once its ticket has left the filter.
MayAskListed == filter # NULL /\ ~ended /\ (cursor # NULL => Passes(list[cursor], filter))

\* Any cursor that names a ticket is good.
MayAsk == filter # NULL /\ ~ended

\* list: a full page names its last row as the next cursor.
NextPage ==
  /\ MayAsk
  /\ \E take \in Limits :
       LET page == PageOf(list, filter, cursor, take)
       IN  /\ pages' = Append(pages, page)
           /\ IF Cardinality(page) = take
                THEN /\ \E t \in page : IsLastOf(list, t, page) /\ cursor' = t
                     /\ ended' = FALSE
                ELSE /\ ended' = TRUE
                     /\ UNCHANGED cursor
  /\ astray' = IF cursor # NULL /\ ~Passes(list[cursor], filter) THEN astray + 1 ELSE astray
  /\ UNCHANGED <<opening, list, filter, stayed, clock>>

-----------------------------------------------------------------------------
Next ==
  \/ \E t \in Ticket : BeginCreate(t) \/ CommitCreate(t) \/ AbortCreate(t) \/ Move(t) \/ Assign(t)
  \/ Tick
  \/ Start
  \/ NextPage

Spec == Init /\ [][Next]_vars

\* The client asks on as long as it is given a cursor.
FairSpec == Spec /\ WF_vars(NextPage)

-----------------------------------------------------------------------------
(* Safety.                                                                 *)

Delivered == UNION {pages[i] : i \in 1..Len(pages)}

\* "una alta concurrente desplaza los resultados, de modo que un elemento puede
\* aparecer dos veces": not here.  Whatever is created, moved or assigned
\* between two pages, no ticket is given twice or after an older one.
PagesDescend ==
  \A i, j \in 1..Len(pages) : i < j =>
    \A t \in pages[i], u \in pages[j] : Before(list, t, u)

\* The tickets the traversal has left behind.
Behind == IF ended THEN Ticket ELSE {t \in Ticket : cursor # NULL /\ list[t] # NULL
                                                                 /\ Before(list, t, cursor)}

\* A ticket that passes the filter from the beginning is given in its turn, but
\* for one at most by each page whose cursor had left the filter meanwhile:
\* ties, late commits and changes of the other tickets cost none.
SkipsArePaidFor == Cardinality((stayed \cap Behind) \ Delivered) <= astray

\* "si vino corta, no queda nada": the page without a cursor leaves no ticket
\* that has been there all along.
NothingRemains == ended => stayed \subseteq Delivered

-----------------------------------------------------------------------------
(* Liveness.                                                               *)

\* A traversal gets to its end, although the list changes under it.
TraversalEnds == filter # NULL ~> ended
=============================================================================
