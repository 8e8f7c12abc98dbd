--------------------------- MODULE ReadProperties ---------------------------
(***************************************************************************)
(* What the categories, the ticket list and the dashboard promise.         *)
(***************************************************************************)
EXTENDS TicketReads

\* A ticket never refers to a category that is gone, however create,
\* assignCategory and the deletion of the category interleave: the look-up and
\* the write are two statements, and only the foreign key ties them together.
CategoriesExist ==
  \A t \in Tickets : row[t].category # NULL => Live(row[t].category)

\* Two categories share a name only if one was named between the look-up and
\* the write of the other (CategoryService.create and update have no other
\* guard): with one request at a time names are unique.
DuplicatesNeedOverlap ==
  \A c, d \in Categories :
    c # d /\ Live(c) /\ category[c].name = category[d].name =>
      c \in category[d].rivals \/ d \in category[c].rivals

\* The places that ticket t may have had in the order of list r while it ran.
Ahead(r, t) ==
  LET x == read[r]
      before(ts) == Cardinality({s \in ts \ {t} :
                      BySeverity(x.sort) \/ Before(x.sort, s, t)})
  IN  IF BySeverity(x.sort) THEN 0 .. before(x.ever)
      ELSE before(x.always) .. before(x.ever)

\* The places on the page of list r.
Places(r) == (read[r].page - 1) * PageSize .. read[r].page * PageSize - 1

\* A list agrees with the detail view although they state the scope twice
\* (ticketWhereForCaller, assertCanViewTicket) and although it takes two
\* queries: it shows no ticket that its caller could not have opened, with a
\* status the filter lets through, at some moment of the request; it leaves out
\* no ticket of its page that qualified the whole time; and its total lies
\* between the two.
ListIsBracketed ==
  \A r \in Readers : read[r].pc = "listed" =>
    LET x == read[r] IN
    /\ x.items \subseteq x.ever
    /\ Cardinality(x.items) <= PageSize
    /\ \A t \in x.always : Ahead(r, t) \subseteq Places(r) => t \in x.items
    /\ Cardinality(x.always) <= x.total /\ x.total <= Cardinality(x.ever)

\* The dashboard shows a category without a name only if the category was
\* deleted between the count and the look-up of the names.
BlankMeansRemoved ==
  \A r \in Readers : read[r].pc = "summarised" =>
    \A c \in read[r].blank : category[c].removed
=============================================================================
