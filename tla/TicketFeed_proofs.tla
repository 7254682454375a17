------------------------- MODULE TicketFeed_proofs -------------------------
(***************************************************************************)
(* Theorems about TicketFeed, for any set of tickets, any filters and page *)
(* sizes, and any bounds.                                                  *)
(***************************************************************************)
EXTENDS TicketFeed, FiniteSetTheorems, TLAPS

-----------------------------------------------------------------------------
(* The order of the list.                                                  *)

LEMMA TicketNat ==
  ASSUME NEW t \in Ticket
  PROVE  t \in Nat /\ t # NULL
BY FeedAssumption, FeedNullAssumption

\* Tickets stay in the list, where they are.
Keeps(rows, rows2) ==
  \A t \in Ticket : rows[t] # NULL =>
    rows2[t] # NULL /\ rows2[t].createdAt = rows[t].createdAt

Rows == [Ticket -> Listed \cup {NULL}]

LEMMA CreatedNat ==
  ASSUME NEW rows \in Rows, NEW t \in Ticket, rows[t] # NULL
  PROVE  rows[t].createdAt \in Nat
BY DEF Rows, Listed

LEMMA BeforeKept ==
  ASSUME NEW rows, NEW rows2, Keeps(rows, rows2),
         NEW t \in Ticket, NEW u \in Ticket, rows[t] # NULL, rows[u] # NULL
  PROVE  Before(rows2, t, u) <=> Before(rows, t, u)
BY DEF Keeps, Before

LEMMA BeforeTransitive ==
  ASSUME NEW rows \in Rows,
         NEW t \in Ticket, NEW u \in Ticket, NEW v \in Ticket,
         rows[t] # NULL, rows[u] # NULL, rows[v] # NULL,
         Before(rows, t, u), Before(rows, u, v)
  PROVE  Before(rows, t, v)
<1>1. /\ rows[t].createdAt \in Nat /\ rows[u].createdAt \in Nat /\ rows[v].createdAt \in Nat
      /\ t \in Nat /\ u \in Nat /\ v \in Nat
  BY CreatedNat, TicketNat
<1>. QED
  BY <1>1 DEF Before

LEMMA BeforeAsymmetric ==
  ASSUME NEW rows \in Rows, NEW t \in Ticket, NEW u \in Ticket,
         rows[t] # NULL, rows[u] # NULL, Before(rows, t, u)
  PROVE  ~Before(rows, u, t) /\ t # u
<1>1. /\ rows[t].createdAt \in Nat /\ rows[u].createdAt \in Nat
      /\ t \in Nat /\ u \in Nat
  BY CreatedNat, TicketNat
<1>. QED
  BY <1>1 DEF Before

-----------------------------------------------------------------------------
(* A page.                                                                 *)

LEMMA PageListed ==
  ASSUME NEW rows, NEW f, NEW c, NEW take, NEW t \in PageOf(rows, f, c, take)
  PROVE  t \in Ticket /\ rows[t] # NULL /\ t \in FromCursor(rows, f, c)
BY DEF PageOf, FromCursor, Matching

\* The row of the cursor is skipped, if it is there at all: what a page holds
\* comes after it.
LEMMA PageAfterCursor ==
  ASSUME NEW rows \in Rows, NEW f, NEW take,
         NEW c \in Ticket, rows[c] # NULL,
         NEW t \in PageOf(rows, f, c, take)
  PROVE  Before(rows, c, t)
<1>. DEFINE S == FromCursor(rows, f, c)
<1>1. c # NULL
  BY TicketNat
<1>2. t \in S /\ Skip(c) <= Rank(rows, S, t)
  BY DEF PageOf
<1>3. t = c \/ Before(rows, c, t)
  BY <1>1, <1>2 DEF FromCursor
<1>4. ASSUME t = c PROVE FALSE
  <2>1. \A u \in S : u \in Ticket /\ rows[u] # NULL /\ (u = c \/ Before(rows, c, u))
    BY <1>1 DEF FromCursor, Matching
  <2>2. \A u \in S : ~Before(rows, u, c)
    <3>1. ~Before(rows, c, c)
      BY BeforeAsymmetric
    <3>. QED  BY <2>1, <3>1, BeforeAsymmetric
  <2>3. {u \in S : Before(rows, u, c)} = {}
    BY <2>2
  <2>4. Rank(rows, S, t) = 0
    BY <1>4, <2>3, FS_EmptySet DEF Rank
  <2>. QED  BY <1>1, <1>2, <2>4 DEF Skip
<1>. QED
  BY <1>3, <1>4

-----------------------------------------------------------------------------
(* The invariant.                                                          *)

\* What was given is in the list.
Given(rows, ps) == \A i \in 1..Len(ps) : \A t \in ps[i] : t \in Ticket /\ rows[t] # NULL

\* What was given comes no later than c.
UpTo(rows, ps, c) ==
  \A i \in 1..Len(ps) : \A t \in ps[i] : t = c \/ Before(rows, t, c)

Descends(rows, ps) ==
  \A i, j \in 1..Len(ps) : i < j =>
    \A t \in ps[i], u \in ps[j] : Before(rows, t, u)

\* A creation that has not committed shows no ticket.
Unlisted == \A t \in Ticket : opening[t] # NULL => list[t] = NULL

\* While the traversal goes on, the cursor is the last ticket that was given.
FeedInv ==
  /\ TypeOK
  /\ Unlisted
  /\ filter = NULL => pages = <<>>
  /\ cursor # NULL => list[cursor] # NULL
  /\ Given(list, pages)
  /\ ~ended => IF cursor = NULL THEN pages = <<>> ELSE UpTo(list, pages, cursor)
  /\ Descends(list, pages)

LEMMA NoPages == <<>> \in Seq(SUBSET Ticket)
OBVIOUS

LEMMA NothingGiven ==
  ASSUME NEW rows
  PROVE  Given(rows, <<>>) /\ Descends(rows, <<>>)
<1>1. 1..Len(<<>>) = {}
  OBVIOUS
<1>. QED
  BY <1>1 DEF Given, Descends

LEMMA FeedInit == Init => FeedInv
<1>. SUFFICES ASSUME Init PROVE FeedInv
  OBVIOUS
<1>1. TypeOK
  <2>1. pages \in Seq(SUBSET Ticket)
    BY NoPages DEF Init
  <2>2. ended \in BOOLEAN
    BY DEF Init
  <2>. QED  BY <2>1, <2>2 DEF Init, TypeOK
<1>2. Unlisted
  BY DEF Init, Unlisted
<1>3. pages = <<>> /\ cursor = NULL
  BY DEF Init
<1>. QED
  BY <1>1, <1>2, <1>3, NothingGiven DEF FeedInv

LEMMA UpToKept ==
  ASSUME NEW rows, NEW rows2, NEW ps, NEW c \in Ticket,
         Keeps(rows, rows2), Given(rows, ps), UpTo(rows, ps, c), rows[c] # NULL
  PROVE  UpTo(rows2, ps, c)
BY BeforeKept DEF Given, UpTo

LEMMA DescendsKept ==
  ASSUME NEW rows, NEW rows2, NEW ps,
         Keeps(rows, rows2), Given(rows, ps), Descends(rows, ps)
  PROVE  Descends(rows2, ps)
BY BeforeKept DEF Given, Descends

\* A step of the tickets.
LEMMA ListStep ==
  ASSUME FeedInv, TypeOK', Unlisted', Keeps(list, list'), UNCHANGED reader
  PROVE  FeedInv'
<1>. USE DEF FeedInv
<1>1. UNCHANGED <<filter, cursor, pages, ended>>
  BY DEF reader
<1>2. cursor' # NULL => list'[cursor'] # NULL
  BY <1>1 DEF TypeOK, Keeps
<1>3. Given(list', pages')
  BY <1>1 DEF Given, Keeps
<1>4. ~ended' => IF cursor' = NULL THEN pages' = <<>> ELSE UpTo(list', pages', cursor')
  BY <1>1, UpToKept DEF TypeOK
<1>5. Descends(list', pages')
  BY <1>1, DescendsKept
<1>6. Given(list, pages)' /\ UpTo(list, pages, cursor)' = UpTo(list', pages', cursor')
      /\ Descends(list, pages)'
  BY <1>3, <1>5 DEF Given, UpTo, Descends
<1>. QED
  BY <1>1, <1>2, <1>4, <1>6

LEMMA StoreStep ==
  ASSUME FeedInv, NEW t \in Ticket, list[t] # NULL,
         NEW row \in Listed, row.createdAt = list[t].createdAt, Store(t, row)
  PROVE  FeedInv'
<1>1. TypeOK'
  BY DEF FeedInv, TypeOK, Store, reader
<1>2. Keeps(list, list')
  BY FeedNullAssumption DEF FeedInv, TypeOK, Store, Keeps
<1>3. Unlisted'
  BY DEF FeedInv, TypeOK, Unlisted, Store
<1>. QED
  BY <1>1, <1>2, <1>3, ListStep DEF Store

LEMMA TicketSteps ==
  ASSUME FeedInv, NEW t \in Ticket,
         BeginCreate(t) \/ CommitCreate(t) \/ AbortCreate(t) \/ Move(t) \/ Assign(t)
  PROVE  FeedInv'
<1>0. TypeOK /\ Unlisted
  BY DEF FeedInv
<1>1. CASE BeginCreate(t)
  <2>1. TypeOK'
    BY <1>0, <1>1 DEF TypeOK, BeginCreate, reader
  <2>2. Keeps(list, list')
    BY <1>1 DEF BeginCreate, Keeps
  <2>3. Unlisted'
    BY <1>0, <1>1 DEF TypeOK, Unlisted, BeginCreate
  <2>. QED  BY <1>1, <2>1, <2>2, <2>3, ListStep DEF BeginCreate
<1>2. CASE CommitCreate(t)
  <2>1. opening[t] \in Nat /\ list[t] = NULL
    BY <1>0, <1>2 DEF TypeOK, Unlisted, CommitCreate
  <2>2. [createdAt |-> opening[t], status |-> "OPEN", assignee |-> NULL] \in Listed
    BY <2>1 DEF Listed, Status
  <2>3. TypeOK'
    BY <1>0, <1>2, <2>2 DEF TypeOK, CommitCreate, reader
  <2>4. Keeps(list, list')
    BY <1>0, <1>2, <2>1 DEF TypeOK, CommitCreate, Keeps
  <2>5. Unlisted'
    BY <1>0, <1>2 DEF TypeOK, Unlisted, CommitCreate
  <2>. QED  BY <1>2, <2>3, <2>4, <2>5, ListStep DEF CommitCreate
<1>3. CASE AbortCreate(t)
  <2>1. TypeOK'
    BY <1>0, <1>3 DEF TypeOK, AbortCreate, reader
  <2>2. Keeps(list, list')
    BY <1>3 DEF AbortCreate, Keeps
  <2>3. Unlisted'
    BY <1>0, <1>3 DEF TypeOK, Unlisted, AbortCreate
  <2>. QED  BY <1>3, <2>1, <2>2, <2>3, ListStep DEF AbortCreate
<1>4. CASE Move(t)
  <2>1. PICK next \in Statuses \ {list[t].status} : Store(t, [list[t] EXCEPT !.status = next])
    BY <1>4 DEF Move
  <2>2. list[t] \in Listed /\ list[t] # NULL /\ next \in Status
    BY <1>0, <1>4, <2>1, FeedAssumption DEF TypeOK, Move
  <2>3. /\ [list[t] EXCEPT !.status = next] \in Listed
        /\ [list[t] EXCEPT !.status = next].createdAt = list[t].createdAt
    BY <2>2 DEF Listed
  <2>. QED  BY <2>1, <2>2, <2>3, StoreStep
<1>5. CASE Assign(t)
  <2>1. PICK who \in User \cup {NULL} : Store(t, [list[t] EXCEPT !.assignee = who])
    BY <1>5 DEF Assign
  <2>2. list[t] \in Listed /\ list[t] # NULL
    BY <1>0, <1>5 DEF TypeOK, Assign
  <2>3. /\ [list[t] EXCEPT !.assignee = who] \in Listed
        /\ [list[t] EXCEPT !.assignee = who].createdAt = list[t].createdAt
    BY <2>2 DEF Listed
  <2>. QED  BY <2>1, <2>2, <2>3, StoreStep
<1>. QED
  BY <1>1, <1>2, <1>3, <1>4, <1>5

LEMMA StartStep ==
  ASSUME FeedInv, Start
  PROVE  FeedInv'
<1>1. PICK f \in Filters : filter' = f /\ stayed' = Matching(list, f)
  BY DEF Start
<1>2. filter' \in Filter /\ filter' # NULL
  BY <1>1, FeedAssumption, FeedNullAssumption
<1>3. TypeOK'
  <2>1. pages' \in Seq(SUBSET Ticket)
    BY NoPages DEF Start
  <2>2. ended' \in BOOLEAN
    BY DEF Start
  <2>3. stayed' \subseteq Ticket
    BY <1>1 DEF Matching
  <2>. QED  BY <1>2, <2>1, <2>2, <2>3 DEF FeedInv, TypeOK, Start
<1>4. Unlisted'
  BY DEF FeedInv, Unlisted, Start
<1>5. pages' = <<>> /\ cursor' = NULL
  BY DEF Start
<1>6. Given(list, pages)' /\ Descends(list, pages)'
  BY <1>5, NothingGiven
<1>. QED
  BY <1>2, <1>3, <1>4, <1>5, <1>6 DEF FeedInv

-----------------------------------------------------------------------------
(* The next page.                                                          *)

LEMMA AppendedPages ==
  ASSUME NEW rows \in Rows, NEW ps \in Seq(SUBSET Ticket), NEW page \in SUBSET Ticket,
         NEW c \in Ticket \cup {NULL}, c # NULL => rows[c] # NULL,
         Given(rows, ps), Descends(rows, ps),
         IF c = NULL THEN ps = <<>> ELSE UpTo(rows, ps, c),
         \A t \in page : rows[t] # NULL,
         c # NULL => \A t \in page : Before(rows, c, t)
  PROVE  /\ Given(rows, Append(ps, page))
         /\ Descends(rows, Append(ps, page))
         /\ \A i \in 1..Len(ps), t \in page : \A u \in ps[i] : Before(rows, u, t)
<1>. DEFINE ps2 == Append(ps, page)
<1>1. /\ Len(ps2) = Len(ps) + 1
      /\ \A i \in 1..Len(ps) : ps2[i] = ps[i]
      /\ ps2[Len(ps) + 1] = page
      /\ Len(ps) \in Nat
  OBVIOUS
<1>. HIDE DEF ps2
<1>2. ASSUME NEW i \in 1..Len(ps), NEW t \in page, NEW u \in ps[i]
      PROVE  Before(rows, u, t)
  <2>1. c # NULL
    BY <1>2
  <2>2. u \in Ticket /\ rows[u] # NULL /\ (u = c \/ Before(rows, u, c))
    BY <2>1 DEF Given, UpTo
  <2>3. c \in Ticket /\ rows[c] # NULL /\ t \in Ticket /\ rows[t] # NULL /\ Before(rows, c, t)
    BY <2>1
  <2>. QED  BY <2>2, <2>3, BeforeTransitive
<1>3. Given(rows, ps2)
  <2>. SUFFICES ASSUME NEW i \in 1..Len(ps2) PROVE \A t \in ps2[i] : t \in Ticket /\ rows[t] # NULL
    BY DEF Given
  <2>1. CASE i \in 1..Len(ps)
    BY <1>1, <2>1 DEF Given
  <2>2. CASE i = Len(ps) + 1
    BY <1>1, <2>2
  <2>. QED  BY <1>1, <2>1, <2>2
<1>4. Descends(rows, ps2)
  <2>. SUFFICES ASSUME NEW i \in 1..Len(ps2), NEW j \in 1..Len(ps2), i < j
                PROVE  \A t \in ps2[i], u \in ps2[j] : Before(rows, t, u)
    BY DEF Descends
  <2>1. i \in 1..Len(ps)
    BY <1>1
  <2>2. CASE j \in 1..Len(ps)
    BY <1>1, <2>1, <2>2 DEF Descends
  <2>3. CASE j = Len(ps) + 1
    BY <1>1, <1>2, <2>1, <2>3
  <2>. QED  BY <1>1, <2>2, <2>3
<1>. QED
  BY <1>2, <1>3, <1>4 DEF ps2

LEMMA AppendedUpTo ==
  ASSUME NEW rows, NEW ps \in Seq(SUBSET Ticket), NEW page \in SUBSET Ticket, NEW last \in page,
         IsLastOf(rows, last, page),
         \A i \in 1..Len(ps), t \in page : \A u \in ps[i] : Before(rows, u, t)
  PROVE  UpTo(rows, Append(ps, page), last)
<1>. DEFINE ps2 == Append(ps, page)
<1>1. /\ Len(ps2) = Len(ps) + 1
      /\ \A i \in 1..Len(ps) : ps2[i] = ps[i]
      /\ ps2[Len(ps) + 1] = page
      /\ Len(ps) \in Nat
  OBVIOUS
<1>. HIDE DEF ps2
<1>2. ASSUME NEW i \in 1..Len(ps2), NEW t \in ps2[i] PROVE t = last \/ Before(rows, t, last)
  <2>1. CASE i \in 1..Len(ps)
    BY <1>1, <1>2, <2>1
  <2>2. CASE i = Len(ps) + 1
    BY <1>1, <1>2, <2>2 DEF IsLastOf
  <2>. QED  BY <1>1, <2>1, <2>2
<1>. QED
  BY <1>2 DEF UpTo, ps2

LEMMA NextPageStep ==
  ASSUME FeedInv, NextPage
  PROVE  FeedInv'
<1>. USE DEF FeedInv
<1>1. PICK take \in Limits :
        LET page == PageOf(list, filter, cursor, take)
        IN  /\ pages' = Append(pages, page)
            /\ IF Cardinality(page) = take
                 THEN /\ \E t \in page : IsLastOf(list, t, page) /\ cursor' = t
                      /\ ended' = FALSE
                 ELSE /\ ended' = TRUE
                      /\ UNCHANGED cursor
  BY DEF NextPage
<1>. DEFINE page == PageOf(list, filter, cursor, take)
<1>2. /\ filter # NULL /\ ~ended
      /\ UNCHANGED <<opening, list, filter, stayed, clock>>
      /\ astray' \in Nat
  BY DEF NextPage, MayAsk, TypeOK
<1>3. \A t \in page : t \in Ticket /\ list[t] # NULL
  BY PageListed
<1>4. list \in Rows /\ pages \in Seq(SUBSET Ticket) /\ page \in SUBSET Ticket
      /\ cursor \in Ticket \cup {NULL}
  BY <1>3 DEF TypeOK, Rows
<1>5. cursor # NULL => \A t \in page : Before(list, cursor, t)
  BY <1>4, PageAfterCursor
<1>6. /\ pages' = Append(pages, page)
      /\ \/ /\ ended' = FALSE
            /\ \E t \in page : IsLastOf(list, t, page) /\ cursor' = t
         \/ ended' = TRUE /\ cursor' = cursor
  BY <1>1
<1>. HIDE DEF page
<1>7. /\ Given(list, Append(pages, page))
      /\ Descends(list, Append(pages, page))
      /\ \A i \in 1..Len(pages), t \in page : \A u \in pages[i] : Before(list, u, t)
  BY <1>2, <1>3, <1>4, <1>5, AppendedPages
<1>8. cursor' \in Ticket \cup {NULL} /\ (cursor' # NULL => list[cursor'] # NULL)
  BY <1>3, <1>4, <1>6
<1>9. ~ended' => cursor' # NULL /\ UpTo(list, Append(pages, page), cursor')
  BY <1>3, <1>4, <1>6, <1>7, AppendedUpTo, TicketNat
<1>10. pages' \in Seq(SUBSET Ticket)
  BY <1>4, <1>6
<1>11. ended' \in BOOLEAN
  BY <1>6
<1>12. TypeOK'
  BY <1>2, <1>8, <1>10, <1>11 DEF TypeOK
<1>13. Unlisted'
  BY <1>2 DEF Unlisted
<1>14. Given(list, pages)' /\ Descends(list, pages)'
       /\ (~ended' => cursor' # NULL /\ UpTo(list, pages, cursor)')
  BY <1>2, <1>6, <1>7, <1>9 DEF Given, UpTo, Descends
<1>. QED
  BY <1>2, <1>8, <1>12, <1>13, <1>14

LEMMA FeedStep == FeedInv /\ [Next]_vars => FeedInv'
<1>. SUFFICES ASSUME FeedInv, [Next]_vars PROVE FeedInv'
  OBVIOUS
<1>1. CASE Tick
  <2>1. TypeOK'
    BY <1>1 DEF FeedInv, TypeOK, Tick, reader
  <2>2. Keeps(list, list')
    BY <1>1 DEF Tick, Keeps
  <2>3. Unlisted'
    BY <1>1 DEF FeedInv, Unlisted, Tick
  <2>. QED  BY <1>1, <2>1, <2>2, <2>3, ListStep DEF Tick
<1>2. CASE UNCHANGED vars
  BY <1>2 DEF vars, FeedInv, TypeOK, Unlisted, Given, UpTo, Descends
<1>. QED
  BY <1>1, <1>2, TicketSteps, StartStep, NextPageStep DEF Next

\* The state of the list and of its reader keeps its types.
THEOREM FeedTypes == Spec => []TypeOK
<1>1. FeedInv => TypeOK
  BY DEF FeedInv
<1>. QED
  BY FeedInit, FeedStep, <1>1, PTL DEF Spec

\* Whatever is created, moved or assigned between two pages of list, no ticket
\* is given twice or after an older one: created_at does not change, and the
\* row of the cursor is skipped wherever it is still in the list.
THEOREM NoTicketTwice == Spec => []PagesDescend
<1>1. FeedInv => PagesDescend
  BY DEF FeedInv, Descends, PagesDescend
<1>. QED
  BY FeedInit, FeedStep, <1>1, PTL DEF Spec

-----------------------------------------------------------------------------
(* Ranks: the place of a ticket among the rows from the cursor on.         *)

LEMMA BeforeTotal ==
  ASSUME NEW rows \in Rows, NEW t \in Ticket, NEW u \in Ticket,
         rows[t] # NULL, rows[u] # NULL
  PROVE  t = u \/ Before(rows, t, u) \/ Before(rows, u, t)
<1>1. /\ rows[t].createdAt \in Nat /\ rows[u].createdAt \in Nat
      /\ t \in Nat /\ u \in Nat
  BY CreatedNat, TicketNat
<1>. QED
  BY <1>1 DEF Before

\* Rows of the list.
Among(rows, S) == S \subseteq Ticket /\ \A t \in S : rows[t] # NULL

\* Those before t.
Above(rows, S, t) == {u \in S : Before(rows, u, t)}

LEMMA Finite ==
  ASSUME NEW S \in SUBSET Ticket
  PROVE  IsFiniteSet(S) /\ Cardinality(S) \in Nat
BY FeedAssumption, FS_Subset, FS_CardinalityType

LEMMA RankNat ==
  ASSUME NEW rows, NEW S, Among(rows, S), NEW t
  PROVE  /\ Rank(rows, S, t) \in Nat
         /\ Rank(rows, S, t) = Cardinality(Above(rows, S, t))
         /\ IsFiniteSet(Above(rows, S, t))
         /\ Above(rows, S, t) \subseteq S
<1>1. Above(rows, S, t) \in SUBSET Ticket
  BY DEF Above, Among
<1>2. Rank(rows, S, t) = Cardinality(Above(rows, S, t))
  BY DEF Rank, Above
<1>3. Above(rows, S, t) \subseteq S
  BY DEF Above
<1>. QED
  BY <1>1, <1>2, <1>3, Finite

LEMMA RankFirst ==
  ASSUME NEW rows, NEW S, Among(rows, S), NEW t, NEW u \in S, Before(rows, u, t)
  PROVE  Rank(rows, S, t) # 0
<1>1. u \in Above(rows, S, t)
  BY DEF Above
<1>. QED
  BY <1>1, RankNat, FS_EmptySet

LEMMA RankRises ==
  ASSUME NEW rows \in Rows, NEW S, Among(rows, S), NEW t \in S, NEW u \in S, Before(rows, t, u)
  PROVE  Rank(rows, S, t) < Rank(rows, S, u)
<1>. DEFINE A == Above(rows, S, t)
            B == Above(rows, S, u)
<1>0. t \in Ticket /\ u \in Ticket /\ rows[t] # NULL /\ rows[u] # NULL
  BY DEF Among
<1>1. \A v \in A : v \in B
  BY <1>0, BeforeTransitive DEF Above, Among
<1>2. t \in B
  BY DEF Above
<1>3. t \notin A
  BY <1>0, BeforeAsymmetric DEF Above
<1>4. IsFiniteSet(B) /\ A \in SUBSET B /\ A # B
  BY <1>1, <1>2, <1>3, RankNat
<1>5. Cardinality(A) <= Cardinality(B) /\ Cardinality(A) # Cardinality(B)
  BY <1>4, FS_Subset
<1>6. /\ Rank(rows, S, t) = Cardinality(A) /\ Rank(rows, S, t) \in Nat
      /\ Rank(rows, S, u) = Cardinality(B) /\ Rank(rows, S, u) \in Nat
  BY RankNat
<1>. HIDE DEF A, B
<1>. QED
  BY <1>5, <1>6

LEMMA RankDistinct ==
  ASSUME NEW rows \in Rows, NEW S, Among(rows, S), NEW t \in S, NEW u \in S,
         Rank(rows, S, t) = Rank(rows, S, u)
  PROVE  t = u
<1>1. t \in Ticket /\ u \in Ticket /\ rows[t] # NULL /\ rows[u] # NULL
  BY DEF Among
<1>2. Rank(rows, S, t) \in Nat /\ Rank(rows, S, u) \in Nat
  BY RankNat
<1>3. ~Before(rows, t, u) /\ ~Before(rows, u, t)
  BY <1>2, RankRises
<1>. QED
  BY <1>1, <1>3, BeforeTotal

LEMMA RankBelow ==
  ASSUME NEW rows \in Rows, NEW S, Among(rows, S), NEW t \in S
  PROVE  Rank(rows, S, t) < Cardinality(S)
<1>1. t \notin Above(rows, S, t)
  BY BeforeAsymmetric DEF Above, Among
<1>2. IsFiniteSet(S) /\ Cardinality(S) \in Nat
  BY Finite DEF Among
<1>3. Above(rows, S, t) \in SUBSET S /\ Above(rows, S, t) # S
  BY <1>1, RankNat
<1>4. Cardinality(Above(rows, S, t)) <= Cardinality(S)
      /\ Cardinality(Above(rows, S, t)) # Cardinality(S)
  BY <1>2, <1>3, FS_Subset
<1>. QED
  BY <1>2, <1>4, RankNat

\* Every place is taken.
LEMMA RankReached ==
  ASSUME NEW rows \in Rows, NEW S, Among(rows, S), NEW k \in Nat, k < Cardinality(S)
  PROVE  \E t \in S : Rank(rows, S, t) = k
<1>. DEFINE n == Cardinality(S)
            f == [t \in S |-> Rank(rows, S, t)]
<1>1. n \in Nat
  BY Finite DEF Among
<1>2. f \in [S -> 0..(n - 1)]
  BY <1>1, RankNat, RankBelow
<1>3. IsInjective(f)
  BY RankDistinct DEF IsInjective
<1>4. f \in Injection(S, 0..(n - 1))
  BY <1>2, <1>3 DEF Injection
<1>5. IsFiniteSet(0..(n - 1)) /\ Cardinality(0..(n - 1)) = n
  <2>1. 0 \in Int /\ n - 1 \in Int
    BY <1>1
  <2>. QED  BY <1>1, <2>1, FS_Interval
<1>6. f \in Surjection(S, 0..(n - 1))
  BY <1>4, <1>5, FS_Injection
<1>7. k \in 0..(n - 1)
  BY <1>1
<1>8. PICK t \in S : f[t] = k
  BY <1>6, <1>7 DEF Surjection
<1>. QED
  BY <1>8

\* A ticket that a page stops short of shows that the page is full.
LEMMA PageFull ==
  ASSUME NEW rows \in Rows, NEW S, Among(rows, S), NEW skip \in Nat, NEW take \in Nat,
         NEW t \in S, skip + take <= Rank(rows, S, t)
  PROVE  Cardinality({u \in S : skip <= Rank(rows, S, u) /\ Rank(rows, S, u) < skip + take}) = take
<1>. DEFINE P == {u \in S : skip <= Rank(rows, S, u) /\ Rank(rows, S, u) < skip + take}
            K == skip..(skip + take - 1)
            g == [u \in P |-> Rank(rows, S, u)]
<1>1. IsFiniteSet(P)
  <2>1. P \in SUBSET Ticket
    BY DEF Among
  <2>. QED  BY <2>1, Finite
<1>2. g \in [P -> K]
  BY RankNat
<1>3. IsInjective(g)
  BY RankDistinct DEF IsInjective
<1>4. \A k \in K : \E u \in P : g[u] = k
  <2>. SUFFICES ASSUME NEW k \in K PROVE \E u \in P : g[u] = k
    OBVIOUS
  <2>1. Rank(rows, S, t) \in Nat /\ Rank(rows, S, t) < Cardinality(S) /\ Cardinality(S) \in Nat
    BY RankNat, RankBelow, Finite DEF Among
  <2>2. k \in Nat /\ k < Cardinality(S) /\ skip <= k /\ k < skip + take
    BY <2>1
  <2>3. PICK u \in S : Rank(rows, S, u) = k
    BY <2>2, RankReached
  <2>4. u \in P
    BY <2>2, <2>3
  <2>. QED  BY <2>3, <2>4
<1>5. g \in Bijection(P, K)
  BY <1>2, <1>3, <1>4 DEF Bijection, Injection, Surjection
<1>6. Cardinality(K) = Cardinality(P)
  BY <1>1, <1>5, FS_Bijection DEF ExistsBijection
<1>7. Cardinality(K) = take
  <2>1. skip \in Int /\ skip + take - 1 \in Int
    OBVIOUS
  <2>. QED  BY <2>1, FS_Interval
<1>. QED
  BY <1>6, <1>7

-----------------------------------------------------------------------------
(* What a page leaves behind.                                              *)

\* A row from the cursor on that the next page neither gives nor leaves for
\* later is the first one, and only where the cursor does not pass the filter.
LEMMA PageSkipsFirst ==
  ASSUME NEW rows \in Rows, NEW f, NEW c \in Ticket \cup {NULL}, c # NULL => rows[c] # NULL,
         NEW take \in Nat,
         NEW t \in FromCursor(rows, f, c), t # c, t \notin PageOf(rows, f, c, take),
         \/ Cardinality(PageOf(rows, f, c, take)) # take
         \/ \E u \in PageOf(rows, f, c, take) : Before(rows, t, u)
  PROVE  /\ c # NULL
         /\ ~Passes(rows[c], f)
         /\ Rank(rows, FromCursor(rows, f, c), t) = 0
<1>. DEFINE S == FromCursor(rows, f, c)
            P == PageOf(rows, f, c, take)
<1>1. Among(rows, S)
  BY DEF Among, FromCursor, Matching
<1>2. Skip(c) \in Nat /\ (c = NULL => Skip(c) = 0) /\ (c # NULL => Skip(c) = 1)
  BY DEF Skip
<1>3. P = {u \in S : Skip(c) <= Rank(rows, S, u) /\ Rank(rows, S, u) < Skip(c) + take}
  BY DEF PageOf
<1>4. t \in S /\ t \notin P /\ Rank(rows, S, t) \in Nat
  BY <1>1, RankNat
<1>5. c # NULL => t \in Ticket /\ rows[t] # NULL /\ Before(rows, c, t)
  BY DEF FromCursor, Matching
<1>6. (c # NULL /\ Passes(rows[c], f)) => c \in S
  BY DEF FromCursor, Matching
<1>7. Cardinality(P) # take \/ \E u \in P : Before(rows, t, u)
  OBVIOUS
<1>. HIDE DEF S, P
<1>8. Rank(rows, S, t) < Skip(c) + take
  <2>1. CASE Cardinality(P) # take
    <3>1. ~(Skip(c) + take <= Rank(rows, S, t))
      BY <1>1, <1>2, <1>3, <1>4, <2>1, PageFull
    <3>. QED  BY <1>2, <1>4, <3>1
  <2>2. CASE \E u \in P : Before(rows, t, u)
    <3>1. PICK u \in P : Before(rows, t, u)
      BY <2>2
    <3>2. u \in S /\ Rank(rows, S, u) < Skip(c) + take
      BY <1>3
    <3>3. Rank(rows, S, t) < Rank(rows, S, u) /\ Rank(rows, S, u) \in Nat
      BY <1>1, <1>4, <3>1, <3>2, RankRises, RankNat
    <3>. QED  BY <1>2, <1>4, <3>2, <3>3
  <2>. QED  BY <1>7, <2>1, <2>2
<1>9. Rank(rows, S, t) < Skip(c)
  BY <1>2, <1>3, <1>4, <1>8
<1>10. c # NULL /\ Rank(rows, S, t) = 0
  BY <1>2, <1>4, <1>9
<1>11. ~Passes(rows[c], f)
  BY <1>1, <1>5, <1>6, <1>10, RankFirst
<1>. QED
  BY <1>10, <1>11 DEF S

Handed(ps) == UNION {ps[i] : i \in 1..Len(ps)}

LEMMA HandedAppended ==
  ASSUME NEW ps \in Seq(SUBSET Ticket), NEW page \in SUBSET Ticket
  PROVE  Handed(Append(ps, page)) = Handed(ps) \cup page
<1>. DEFINE ps2 == Append(ps, page)
<1>1. /\ Len(ps2) = Len(ps) + 1
      /\ \A i \in 1..Len(ps) : ps2[i] = ps[i]
      /\ ps2[Len(ps) + 1] = page
      /\ Len(ps) \in Nat
  OBVIOUS
<1>. HIDE DEF ps2
<1>2. ASSUME NEW t \in Handed(ps2) PROVE t \in Handed(ps) \cup page
  <2>1. PICK i \in 1..Len(ps2) : t \in ps2[i]
    BY <1>2 DEF Handed
  <2>2. CASE i \in 1..Len(ps)
    BY <1>1, <2>1, <2>2 DEF Handed
  <2>3. CASE i = Len(ps) + 1
    BY <1>1, <2>1, <2>3
  <2>. QED  BY <1>1, <2>2, <2>3
<1>3. ASSUME NEW t \in Handed(ps) PROVE t \in Handed(ps2)
  <2>1. PICK i \in 1..Len(ps) : t \in ps[i]
    BY <1>3 DEF Handed
  <2>2. i \in 1..Len(ps2) /\ ps2[i] = ps[i]
    BY <1>1
  <2>. QED  BY <2>1, <2>2 DEF Handed
<1>4. ASSUME NEW t \in page PROVE t \in Handed(ps2)
  <2>1. Len(ps) + 1 \in 1..Len(ps2)
    BY <1>1
  <2>. QED  BY <1>1, <2>1 DEF Handed
<1>. QED
  BY <1>2, <1>3, <1>4 DEF ps2

Passed(rows, c, e) ==
  IF e THEN Ticket ELSE {t \in Ticket : c # NULL /\ rows[t] # NULL /\ Before(rows, t, c)}

\* The tickets of st that a traversal has passed without giving them.
Missing(rows, st, c, e, ps) == (st \cap Passed(rows, c, e)) \ Handed(ps)

\* What has stayed still passes, and the cursor was given.
SkipInv ==
  /\ FeedInv
  /\ filter = NULL => stayed = {}
  /\ filter # NULL => stayed \subseteq Matching(list, filter)
  /\ cursor # NULL => cursor \in Handed(pages)
  /\ Cardinality(Missing(list, stayed, cursor, ended, pages)) <= astray

LEMMA MissingFinite ==
  ASSUME NEW rows, NEW st, NEW c, NEW e, NEW ps
  PROVE  /\ IsFiniteSet(Missing(rows, st, c, e, ps))
         /\ Cardinality(Missing(rows, st, c, e, ps)) \in Nat
<1>1. Missing(rows, st, c, e, ps) \in SUBSET Ticket
  BY DEF Missing, Passed
<1>. QED
  BY <1>1, Finite

LEMMA SkipInit == Init => SkipInv
<1>. SUFFICES ASSUME Init PROVE SkipInv
  OBVIOUS
<1>1. stayed = {} /\ filter = NULL /\ cursor = NULL /\ astray = 0
  BY DEF Init
<1>2. Missing(list, stayed, cursor, ended, pages) = {}
  BY <1>1 DEF Missing
<1>. QED
  BY <1>1, <1>2, FeedInit, FS_EmptySet DEF SkipInv

\* A change of the tickets makes none missing.
LEMMA MissingKept ==
  ASSUME NEW rows, NEW rows2, Keeps(rows, rows2), NEW ps,
         NEW c \in Ticket \cup {NULL}, c # NULL => rows[c] # NULL, NEW e,
         NEW st \in SUBSET Ticket, \A t \in st : rows[t] # NULL, NEW st2 \in SUBSET st,
         NEW n \in Nat, Cardinality(Missing(rows, st, c, e, ps)) <= n
  PROVE  Cardinality(Missing(rows2, st2, c, e, ps)) <= n
<1>1. ASSUME NEW t \in Missing(rows2, st2, c, e, ps) PROVE t \in Missing(rows, st, c, e, ps)
  <2>1. t \in st /\ t \in Ticket /\ rows[t] # NULL /\ t \in Passed(rows2, c, e) /\ t \notin Handed(ps)
    BY <1>1 DEF Missing
  <2>2. t \in Passed(rows, c, e)
    BY <2>1, BeforeKept DEF Passed
  <2>. QED  BY <2>1, <2>2 DEF Missing
<1>2. Missing(rows2, st2, c, e, ps) \in SUBSET Missing(rows, st, c, e, ps)
  BY <1>1
<1>3. Cardinality(Missing(rows2, st2, c, e, ps)) <= Cardinality(Missing(rows, st, c, e, ps))
  BY <1>2, MissingFinite, FS_Subset
<1>. QED
  BY <1>3, MissingFinite

LEMMA SkipListStep ==
  ASSUME SkipInv, FeedInv', Keeps(list, list'), UNCHANGED reader,
         stayed' \subseteq stayed,
         filter # NULL => stayed' \subseteq Matching(list', filter)
  PROVE  SkipInv'
<1>1. filter' = filter /\ cursor' = cursor /\ pages' = pages /\ ended' = ended /\ astray' = astray
  BY DEF reader
<1>2. TypeOK /\ (cursor # NULL => list[cursor] # NULL)
  BY DEF SkipInv, FeedInv
<1>3. \A t \in stayed : list[t] # NULL
  BY DEF SkipInv, Matching
<1>4. Cardinality(Missing(list', stayed', cursor, ended, pages)) <= astray
  BY <1>2, <1>3, MissingKept DEF SkipInv, TypeOK
<1>5. filter' = NULL => stayed' = {}
  BY <1>1 DEF SkipInv
<1>6. (filter # NULL => stayed \subseteq Matching(list, filter))'
  BY <1>1
<1>7. (cursor # NULL => cursor \in Handed(pages))'
  BY <1>1 DEF SkipInv
<1>8. (Cardinality(Missing(list, stayed, cursor, ended, pages)) <= astray)'
  BY <1>1, <1>4
<1>. QED
  BY <1>5, <1>6, <1>7, <1>8 DEF SkipInv

LEMMA SkipStoreStep ==
  ASSUME SkipInv, FeedInv', NEW t \in Ticket, list[t] # NULL,
         NEW row \in Listed, row.createdAt = list[t].createdAt, Store(t, row)
  PROVE  SkipInv'
<1>0. TypeOK
  BY DEF SkipInv, FeedInv
<1>1. list' = [list EXCEPT ![t] = row] /\ row # NULL /\ UNCHANGED reader
  BY FeedNullAssumption DEF Store
<1>2. Keeps(list, list')
  BY <1>0, <1>1 DEF TypeOK, Keeps
<1>3. stayed' \subseteq stayed
  BY DEF Store
<1>4. ASSUME filter # NULL, NEW u \in stayed' PROVE u \in Matching(list', filter)
  <2>1. u \in stayed /\ u \in Matching(list, filter)
    BY <1>3, <1>4 DEF SkipInv
  <2>2. CASE u = t
    <3>1. Passes(row, filter)
      BY <1>4, <2>2 DEF Store
    <3>. QED  BY <1>0, <1>1, <2>2, <3>1 DEF TypeOK, Matching
  <2>3. CASE u # t
    BY <1>0, <1>1, <2>1, <2>3 DEF TypeOK, Matching
  <2>. QED  BY <2>2, <2>3
<1>. QED
  BY <1>1, <1>2, <1>3, <1>4, SkipListStep

LEMMA SkipTicketSteps ==
  ASSUME SkipInv, FeedInv', NEW t \in Ticket,
         BeginCreate(t) \/ CommitCreate(t) \/ AbortCreate(t) \/ Move(t) \/ Assign(t)
  PROVE  SkipInv'
<1>0. TypeOK /\ Unlisted
  BY DEF SkipInv, FeedInv
<1>1. CASE BeginCreate(t) \/ AbortCreate(t)
  <2>1. UNCHANGED <<list, reader, stayed>>
    BY <1>1 DEF BeginCreate, AbortCreate
  <2>2. Keeps(list, list')
    BY <2>1 DEF Keeps
  <2>. QED  BY <2>1, <2>2, SkipListStep DEF SkipInv
<1>2. CASE CommitCreate(t)
  <2>1. list[t] = NULL
    BY <1>0, <1>2 DEF Unlisted, CommitCreate
  <2>2. \A u \in Ticket : u # t => list'[u] = list[u]
    BY <1>0, <1>2 DEF TypeOK, CommitCreate
  <2>3. UNCHANGED <<reader, stayed>>
    BY <1>2 DEF CommitCreate
  <2>4. Keeps(list, list')
    BY <2>1, <2>2 DEF Keeps
  <2>5. filter # NULL => stayed' \subseteq Matching(list', filter)
    BY <2>1, <2>2, <2>3 DEF SkipInv, Matching
  <2>. QED  BY <2>3, <2>4, <2>5, SkipListStep
<1>3. CASE Move(t)
  <2>1. PICK next \in Statuses \ {list[t].status} : Store(t, [list[t] EXCEPT !.status = next])
    BY <1>3 DEF Move
  <2>2. list[t] \in Listed /\ list[t] # NULL /\ next \in Status
    BY <1>0, <1>3, <2>1, FeedAssumption DEF TypeOK, Move
  <2>3. /\ [list[t] EXCEPT !.status = next] \in Listed
        /\ [list[t] EXCEPT !.status = next].createdAt = list[t].createdAt
    BY <2>2 DEF Listed
  <2>. QED  BY <2>1, <2>2, <2>3, SkipStoreStep
<1>4. CASE Assign(t)
  <2>1. PICK who \in User \cup {NULL} : Store(t, [list[t] EXCEPT !.assignee = who])
    BY <1>4 DEF Assign
  <2>2. list[t] \in Listed /\ list[t] # NULL
    BY <1>0, <1>4 DEF TypeOK, Assign
  <2>3. /\ [list[t] EXCEPT !.assignee = who] \in Listed
        /\ [list[t] EXCEPT !.assignee = who].createdAt = list[t].createdAt
    BY <2>2 DEF Listed
  <2>. QED  BY <2>1, <2>2, <2>3, SkipStoreStep
<1>. QED
  BY <1>1, <1>2, <1>3, <1>4

LEMMA SkipStartStep ==
  ASSUME SkipInv, FeedInv', Start
  PROVE  SkipInv'
<1>1. PICK f \in Filters : filter' = f /\ stayed' = Matching(list, f)
  BY DEF Start
<1>2. list' = list /\ cursor' = NULL /\ ended' = FALSE /\ astray' = 0 /\ filter' # NULL
  BY <1>1, FeedAssumption, FeedNullAssumption DEF Start
<1>3. stayed' \subseteq Matching(list', filter')
  BY <1>1, <1>2
<1>4. Missing(list', stayed', cursor', ended', pages') = {}
  BY <1>2 DEF Missing, Passed
<1>5. (Cardinality(Missing(list, stayed, cursor, ended, pages)) <= astray)'
  BY <1>2, <1>4, FS_EmptySet
<1>. QED
  BY <1>2, <1>3, <1>5 DEF SkipInv

\* A page adds at most the first row from the cursor on, and none where the
\* cursor passes the filter.
LEMMA SkipNextPageStep ==
  ASSUME SkipInv, FeedInv', NextPage
  PROVE  SkipInv'
<1>1. PICK take \in Limits :
        LET page == PageOf(list, filter, cursor, take)
        IN  /\ pages' = Append(pages, page)
            /\ IF Cardinality(page) = take
                 THEN /\ \E t \in page : IsLastOf(list, t, page) /\ cursor' = t
                      /\ ended' = FALSE
                 ELSE /\ ended' = TRUE
                      /\ UNCHANGED cursor
  BY DEF NextPage
<1>. DEFINE page == PageOf(list, filter, cursor, take)
            S == FromCursor(list, filter, cursor)
            m == Missing(list, stayed, cursor, ended, pages)
            m2 == Missing(list, stayed, cursor', ended', pages')
<1>2. /\ TypeOK /\ filter # NULL /\ ~ended
      /\ list' = list /\ filter' = filter /\ stayed' = stayed
      /\ stayed \subseteq Matching(list, filter)
      /\ cursor # NULL => list[cursor] # NULL /\ cursor \in Handed(pages)
      /\ cursor \in Ticket \cup {NULL} /\ list \in Rows /\ pages \in Seq(SUBSET Ticket)
      /\ astray \in Nat /\ take \in Nat
      /\ Cardinality(m) <= astray
  BY FeedAssumption DEF SkipInv, FeedInv, TypeOK, Rows, NextPage, MayAsk
<1>3. /\ page \in SUBSET Ticket
      /\ \A t \in page : t \in Ticket /\ list[t] # NULL
  BY PageListed
<1>4. Handed(pages') = Handed(pages) \cup page
  BY <1>1, <1>2, <1>3, HandedAppended
<1>5. /\ Cardinality(page) = take => /\ ended' = FALSE /\ cursor' \in page
                                     /\ IsLastOf(list, cursor', page)
      /\ Cardinality(page) # take => ended' = TRUE /\ cursor' = cursor
  BY <1>1
<1>6. cursor' # NULL => cursor' \in Handed(pages')
  BY <1>2, <1>4, <1>5
<1>7. ASSUME NEW t \in m2, t \notin m
      PROVE  /\ t \in S /\ Rank(list, S, t) = 0
             /\ cursor # NULL /\ ~Passes(list[cursor], filter)
  <2>1. t \in stayed /\ t \in Ticket /\ list[t] # NULL /\ t \in Matching(list, filter)
        /\ t \notin Handed(pages) /\ t \notin page /\ t \in Passed(list, cursor', ended')
    BY <1>2, <1>4, <1>7 DEF Missing, Matching
  <2>2. t \notin Passed(list, cursor, ended)
    BY <1>7, <2>1 DEF Missing
  <2>3. cursor # NULL => ~Before(list, t, cursor) /\ t # cursor
    BY <1>2, <2>1, <2>2 DEF Passed
  <2>4. cursor # NULL => Before(list, cursor, t)
    BY <1>2, <2>1, <2>3, BeforeTotal
  <2>5. t \in S /\ t # cursor
    BY <2>1, <2>3, <2>4, TicketNat DEF FromCursor
  <2>6. Cardinality(page) # take \/ \E u \in page : Before(list, t, u)
    <3>1. CASE Cardinality(page) = take
      <4>1. cursor' \in page /\ ended' = FALSE
        BY <1>5, <3>1
      <4>2. Before(list, t, cursor')
        BY <2>1, <4>1 DEF Passed
      <4>. QED  BY <4>1, <4>2
    <3>. QED  BY <3>1
  <2>. QED  BY <1>2, <2>1, <2>5, <2>6, PageSkipsFirst
<1>8. Cardinality(m2) <= astray'
  <2>1. /\ IsFiniteSet(m) /\ Cardinality(m) \in Nat
        /\ IsFiniteSet(m2) /\ Cardinality(m2) \in Nat
    BY MissingFinite
  <2>2. CASE m2 \subseteq m
    <3>1. Cardinality(m2) <= Cardinality(m)
      BY <2>1, <2>2, FS_Subset
    <3>2. astray' = astray \/ astray' = astray + 1
      BY DEF NextPage
    <3>. HIDE DEF m, m2
    <3>. QED  BY <1>2, <2>1, <3>1, <3>2
  <2>3. CASE ~(m2 \subseteq m)
    <3>1. PICK t \in m2 : t \notin m
      BY <2>3
    <3>2. t \in S /\ Rank(list, S, t) = 0 /\ cursor # NULL /\ ~Passes(list[cursor], filter)
      BY <1>7, <3>1
    <3>3. Among(list, S)
      BY DEF Among, FromCursor, Matching
    <3>4. m2 \subseteq m \cup {t}
      BY <1>2, <1>7, <3>2, <3>3, RankDistinct
    <3>5. IsFiniteSet(m \cup {t}) /\ Cardinality(m \cup {t}) = Cardinality(m) + 1
      BY <2>1, <3>1, FS_AddElement
    <3>6. Cardinality(m2) <= Cardinality(m) + 1
      BY <3>4, <3>5, FS_Subset
    <3>7. astray' = astray + 1
      BY <3>2 DEF NextPage
    <3>. HIDE DEF m, m2
    <3>. QED  BY <1>2, <2>1, <3>6, <3>7
  <2>. QED  BY <2>2, <2>3
<1>9. (Cardinality(Missing(list, stayed, cursor, ended, pages)) <= astray)'
  BY <1>2, <1>8
<1>. QED
  BY <1>2, <1>6, <1>9 DEF SkipInv

LEMMA SkipStep == SkipInv /\ [Next]_vars => SkipInv'
<1>. SUFFICES ASSUME SkipInv, [Next]_vars PROVE SkipInv'
  OBVIOUS
<1>0. FeedInv'
  BY FeedStep DEF SkipInv
<1>1. CASE Tick \/ UNCHANGED vars
  <2>1. UNCHANGED <<list, reader, stayed>>
    BY <1>1 DEF Tick, vars, reader
  <2>2. Keeps(list, list')
    BY <2>1 DEF Keeps
  <2>. QED  BY <1>0, <2>1, <2>2, SkipListStep DEF SkipInv
<1>. QED
  BY <1>0, <1>1, SkipTicketSteps, SkipStartStep, SkipNextPageStep DEF Next

\* For pages and filters of any size: a ticket that passes the filter from the
\* beginning of a traversal of list is given in its turn, but for one at most
\* by each page whose cursor no longer passes the filter, where `skip: 1` falls
\* on the first row after it.
THEOREM SkipsPaid == Spec => []SkipsArePaidFor
<1>1. SkipInv => SkipsArePaidFor
  <2>. SUFFICES ASSUME SkipInv PROVE SkipsArePaidFor
    OBVIOUS
  <2>1. (stayed \cap Behind) \ Delivered = Missing(list, stayed, cursor, ended, pages)
    BY DEF Missing, Passed, Handed, Behind, Delivered
  <2>. QED  BY <2>1 DEF SkipInv, SkipsArePaidFor
<1>. QED
  BY SkipInit, SkipStep, <1>1, PTL DEF Spec

-----------------------------------------------------------------------------
(* When nothing is skipped.                                                *)

\* The ticket that a cursor names passes the filter still.
CursorStays == cursor # NULL => Passes(list[cursor], filter)

\* No page was asked for with a cursor that had left it.
NoneAstray == astray = 0

LEMMA AstrayStep == CursorStays /\ NoneAstray /\ [Next]_vars => NoneAstray'
<1>. SUFFICES ASSUME CursorStays, astray = 0, [Next]_vars PROVE astray' = 0
  BY DEF NoneAstray
<1>1. CASE NextPage
  BY <1>1 DEF NextPage, CursorStays
<1>2. ASSUME NEW t \in Ticket, BeginCreate(t) \/ CommitCreate(t) \/ AbortCreate(t) \/ Move(t) \/ Assign(t)
      PROVE  UNCHANGED reader
  BY <1>2 DEF BeginCreate, CommitCreate, AbortCreate, Move, Assign, Store
<1>3. Tick \/ UNCHANGED vars => UNCHANGED reader
  BY DEF Tick, vars, reader
<1>4. Start => astray' = 0
  BY DEF Start
<1>. QED
  BY <1>1, <1>2, <1>3, <1>4 DEF Next, reader

LEMMA NothingAstray ==
  ASSUME SkipInv, NoneAstray
  PROVE  NothingRemains
<1>. SUFFICES ASSUME ended, NEW t \in stayed, t \notin Delivered PROVE FALSE
  BY DEF NothingRemains
<1>. DEFINE m == Missing(list, stayed, cursor, ended, pages)
<1>1. t \in m
  BY DEF Missing, Passed, Handed, Delivered, SkipInv, FeedInv, TypeOK
<1>2. Cardinality(m) <= 0 /\ IsFiniteSet(m) /\ Cardinality(m) \in Nat
  BY MissingFinite DEF SkipInv, NoneAstray
<1>. HIDE DEF m
<1>3. Cardinality(m) = 0
  BY <1>2
<1>4. m = {}
  BY <1>2, <1>3, FS_EmptySet
<1>. QED
  BY <1>1, <1>4

\* "si vino corta, no queda nada", as long as no cursor leaves the filter between
\* two pages, which `skip: 1` takes for granted.
THEOREM SteadyCursorsMissNothing == Spec /\ []CursorStays => []NothingRemains
<1>1. Init => NoneAstray
  BY DEF Init, NoneAstray
<1>2. SkipInv /\ NoneAstray => NothingRemains
  BY NothingAstray
<1>. QED
  BY SkipInit, SkipStep, AstrayStep, <1>1, <1>2, PTL DEF Spec

\* So a client that pages through the whole list, without a filter, misses no
\* ticket that was there, whatever changes meanwhile.
THEOREM WholeListMissesNothing ==
  ASSUME \A f \in Filters : f.status = NULL /\ f.assignee = NULL
  PROVE  Spec => []NothingRemains
<1>. DEFINE Asked == filter \in Filters \cup {NULL}
<1>1. Init => Asked
  BY DEF Init
<1>2. Asked /\ [Next]_vars => Asked'
  BY DEF Next, BeginCreate, CommitCreate, AbortCreate, Move, Assign, Store, Tick, Start, NextPage,
         reader, vars
<1>3. SkipInv /\ Asked => CursorStays
  <2>. SUFFICES ASSUME SkipInv, Asked, cursor # NULL PROVE Passes(list[cursor], filter)
    BY DEF CursorStays
  <2>1. cursor \in Handed(pages)
    BY DEF SkipInv
  <2>2. filter # NULL
    BY <2>1, NothingGiven DEF SkipInv, FeedInv, Handed
  <2>. QED  BY <2>2 DEF Passes
<1>. QED
  BY SkipInit, SkipStep, SteadyCursorsMissNothing, <1>1, <1>2, <1>3, PTL DEF Spec

-----------------------------------------------------------------------------
(* How long a traversal is.                                                *)

\* A client asks for one page more than there are tickets at most.
TraversalIsShort == Len(pages) <= Cardinality(Ticket) + 1

\* What makes it inductive: every page but the last one gives a ticket that no
\* page had given.
LengthInv ==
  Len(pages) <= Cardinality(Handed(pages)) + (IF ended THEN 1 ELSE 0)

LEMMA HandedFinite ==
  ASSUME NEW ps \in Seq(SUBSET Ticket)
  PROVE  /\ Handed(ps) \in SUBSET Ticket
         /\ IsFiniteSet(Handed(ps)) /\ Cardinality(Handed(ps)) \in Nat
         /\ Len(ps) \in Nat
<1>1. Handed(ps) \in SUBSET Ticket
  BY DEF Handed
<1>. QED
  BY <1>1, Finite

\* What comes after the cursor was not given before.
LEMMA PageIsNew ==
  ASSUME FeedInv, ~ended, NEW take, NEW t \in PageOf(list, filter, cursor, take)
  PROVE  t \notin Handed(pages)
<1>. SUFFICES ASSUME NEW i \in 1..Len(pages), t \in pages[i] PROVE FALSE
  BY DEF Handed
<1>1. t \in Ticket /\ list[t] # NULL /\ list \in Rows
  BY PageListed DEF FeedInv, TypeOK, Rows
<1>2. cursor # NULL /\ cursor \in Ticket /\ list[cursor] # NULL /\ UpTo(list, pages, cursor)
  <2>1. cursor # NULL
    BY DEF FeedInv
  <2>. QED  BY <2>1 DEF FeedInv, TypeOK
<1>3. Before(list, cursor, t)
  BY <1>1, <1>2, PageAfterCursor
<1>4. ~Before(list, t, cursor) /\ t # cursor
  BY <1>1, <1>2, <1>3, BeforeAsymmetric
<1>. QED
  BY <1>2, <1>4 DEF UpTo

LEMMA LengthNextPage ==
  ASSUME FeedInv, FeedInv', LengthInv, NextPage
  PROVE  LengthInv'
<1>1. PICK take \in Limits :
        LET page == PageOf(list, filter, cursor, take)
        IN  /\ pages' = Append(pages, page)
            /\ IF Cardinality(page) = take THEN ended' = FALSE ELSE ended' = TRUE
  BY DEF NextPage
<1>. DEFINE page == PageOf(list, filter, cursor, take)
            h == Handed(pages)
            h2 == Handed(pages')
<1>2. page \in SUBSET Ticket /\ take \in Nat \ {0} /\ ~ended
  BY PageListed, FeedAssumption DEF NextPage, MayAsk
<1>3. \A t \in page : t \notin h
  BY <1>2, PageIsNew
<1>4. /\ IsFiniteSet(h) /\ Cardinality(h) \in Nat /\ Len(pages) \in Nat
      /\ pages \in Seq(SUBSET Ticket)
      /\ Len(pages) <= Cardinality(h)
  BY <1>2, HandedFinite DEF LengthInv, FeedInv, TypeOK
<1>5. IsFiniteSet(h2) /\ Cardinality(h2) \in Nat /\ Len(pages') \in Nat
  BY HandedFinite DEF FeedInv, TypeOK
<1>6. h2 = h \cup page /\ Len(pages') = Len(pages) + 1
  BY <1>1, <1>2, <1>4, HandedAppended
<1>7. CASE Cardinality(page) = take
  <2>1. page # {}
    BY <1>2, <1>7, FS_EmptySet
  <2>2. PICK t \in page : TRUE
    BY <2>1
  <2>3. Cardinality(h \cup {t}) = Cardinality(h) + 1
    BY <1>3, <1>4, FS_AddElement
  <2>4. h \cup {t} \subseteq h2
    BY <1>6
  <2>5. Cardinality(h \cup {t}) <= Cardinality(h2)
    BY <1>5, <2>4, FS_Subset
  <2>6. ended' = FALSE
    BY <1>1, <1>7
  <2>. HIDE DEF h, h2
  <2>7. Len(pages') <= Cardinality(h2)
    BY <1>4, <1>5, <1>6, <2>3, <2>5
  <2>. QED  BY <1>5, <2>6, <2>7 DEF LengthInv, h2
<1>8. CASE Cardinality(page) # take
  <2>1. ended' = TRUE
    BY <1>1, <1>8
  <2>2. Cardinality(h) <= Cardinality(h2)
    BY <1>5, <1>6, FS_Subset
  <2>. HIDE DEF h, h2
  <2>3. Len(pages') <= Cardinality(h2) + 1
    BY <1>4, <1>5, <1>6, <2>2
  <2>. QED  BY <2>1, <2>3 DEF LengthInv, h2
<1>. QED
  BY <1>7, <1>8

LEMMA LengthStep == FeedInv /\ FeedInv' /\ LengthInv /\ [Next]_vars => LengthInv'
<1>. SUFFICES ASSUME FeedInv, FeedInv', LengthInv, [Next]_vars PROVE LengthInv'
  OBVIOUS
<1>1. ASSUME UNCHANGED reader PROVE LengthInv'
  BY <1>1 DEF LengthInv, Handed, reader
<1>2. ASSUME NEW t \in Ticket, BeginCreate(t) \/ CommitCreate(t) \/ AbortCreate(t) \/ Move(t) \/ Assign(t)
      PROVE  UNCHANGED reader
  BY <1>2 DEF BeginCreate, CommitCreate, AbortCreate, Move, Assign, Store
<1>3. Tick \/ UNCHANGED vars => UNCHANGED reader
  BY DEF Tick, vars, reader
<1>4. CASE Start
  <2>1. pages' = <<>> /\ ended' = FALSE
    BY <1>4 DEF Start
  <2>2. Len(pages') = 0 /\ Cardinality(Handed(pages')) \in Nat
    BY <2>1, HandedFinite, NoPages
  <2>. QED  BY <2>1, <2>2 DEF LengthInv
<1>. QED
  BY <1>1, <1>2, <1>3, <1>4, LengthNextPage DEF Next

\* However the list grows and changes under a client, its traversal is bounded:
\* no page is empty but the last one, and none gives a ticket again.
THEOREM TraversalBounded == Spec => []TraversalIsShort
<1>1. Init => LengthInv
  <2>. SUFFICES ASSUME Init PROVE LengthInv
    OBVIOUS
  <2>1. pages = <<>> /\ ended = FALSE
    BY DEF Init
  <2>2. Len(pages) = 0 /\ Cardinality(Handed(pages)) \in Nat
    BY <2>1, HandedFinite, NoPages
  <2>. QED  BY <2>1, <2>2 DEF LengthInv
<1>2. FeedInv /\ LengthInv => TraversalIsShort
  <2>. SUFFICES ASSUME FeedInv, LengthInv PROVE TraversalIsShort
    OBVIOUS
  <2>1. /\ Cardinality(Handed(pages)) <= Cardinality(Ticket)
        /\ Cardinality(Ticket) \in Nat
        /\ Cardinality(Handed(pages)) \in Nat /\ Len(pages) \in Nat
    BY HandedFinite, FeedAssumption, FS_Subset, FS_CardinalityType DEF FeedInv, TypeOK
  <2>. QED  BY <2>1 DEF LengthInv, TraversalIsShort
<1>. QED
  BY FeedInit, FeedStep, LengthStep, <1>1, <1>2, PTL DEF Spec
=============================================================================
