----------------------------- MODULE EventRing ------------------------------
(***************************************************************************)
(* The in-memory timeline store (pkg/timeline MemoryStore): a ring buffer  *)
(* of events under a read-write lock, and the queries that walk it from    *)
(* the newest event backwards.                                             *)
(*                                                                         *)
(* A writer holds the lock for as long as it has events to add; a reader   *)
(* walks the ring in one step, with no writer inside.                      *)
(***************************************************************************)
EXTENDS Integers, Sequences

CONSTANTS
    Events,       \* the events that may be added; each has an ID
    MaxSize,      \* maxSize
    MaxBatch,     \* bound: the longest batch added
    DefaultLimit, \* the limit of a query that names none (200)
    MaxLimit,     \* the largest limit of a query (10000)
    Empty         \* a zero TimelineEvent

ASSUME SizeAssumption == MaxSize \in Nat \ {0}
ASSUME LimitsAssumption ==
    /\ DefaultLimit \in Nat \ {0} /\ MaxLimit \in Nat \ {0} /\ MaxBatch \in Nat
    /\ Empty \notin Events

Slots == 0 .. MaxSize - 1

VARIABLES
    records,
    head,    \* next write position
    count,
    writing  \* the events the holder of mu has still to write

ringVars == <<records, head, count, writing>>

RingTypeOK ==
    /\ records \in [Slots -> Events \cup {Empty}]
    /\ head \in Slots
    /\ count \in 0 .. MaxSize
    /\ writing \in Seq(Events)

RingInit ==
    /\ records = [s \in Slots |-> Empty]
    /\ head = 0
    /\ count = 0
    /\ writing = <<>>

-----------------------------------------------------------------------------
(* Append and AppendBatch. *)

\* Mutant: the position is advanced before it is used.
WriteAfterAdvancing(e) ==
    /\ head' = (head + 1) % MaxSize
    /\ records' = [records EXCEPT ![head'] = e]
    /\ count' = IF count < MaxSize THEN count + 1 ELSE count

\* One event goes to the next write position, over the oldest once full.
Write(e) ==
    /\ records' = [records EXCEPT ![head] = e]
    /\ head' = (head + 1) % MaxSize
    /\ count' = IF count < MaxSize THEN count + 1 ELSE count

AppendOne(e) ==
    /\ writing = <<>>
    /\ Write(e)
    /\ UNCHANGED writing

\* The loop over a batch keeps the lock from its first event to its last.
AppendBatch(events) ==
    /\ writing = <<>>
    /\ writing' = events
    /\ UNCHANGED <<records, head, count>>

WriteNext ==
    /\ writing # <<>>
    /\ Write(Head(writing))
    /\ writing' = Tail(writing)

-----------------------------------------------------------------------------
(* Query: backwards from the newest event, until the page is full. *)

Slot(i) == (head - i + MaxSize) % MaxSize

\* The events in the order in which readers meet them.
Walk == [i \in 1 .. count |-> records[Slot(i)]]

Limit(asked) ==
    LET limit == IF asked <= 0 THEN DefaultLimit ELSE asked
    IN  IF limit > MaxLimit THEN MaxLimit ELSE limit

\* Mutant: the offset counts events that the filters would not let through.
VisitSkippingAny(query, page, event) ==
    IF Len(page.results) >= Limit(query.limit) \/ event = Empty
    THEN page
    ELSE IF query.offset > 0 /\ page.skipped < query.offset
    THEN [page EXCEPT !.skipped = @ + 1]
    ELSE IF event \notin query.wanted THEN page
    ELSE [page EXCEPT !.results = Append(@, event)]

\* matchesFilters is known by the events it lets through (query.wanted).
Visit(query, page, event) ==
    IF Len(page.results) >= Limit(query.limit) \/ event = Empty \/ event \notin query.wanted
    THEN page
    ELSE IF query.offset > 0 /\ page.skipped < query.offset
    THEN [page EXCEPT !.skipped = @ + 1]
    ELSE [page EXCEPT !.results = Append(@, event)]

\* What a reader has after each event of the walk.
Pages(query) ==
    LET page[i \in 0 .. count] ==
            IF i = 0 THEN [skipped |-> 0, results |-> <<>>]
            ELSE Visit(query, page[i - 1], Walk[i])
    IN  page

Query(query) == Pages(query)[count].results

-----------------------------------------------------------------------------
Batches == UNION { [1 .. n -> Events] : n \in 1 .. MaxBatch }

RingNext ==
    \/ \E e \in Events : AppendOne(e)
    \/ \E events \in Batches : AppendBatch(events)
    \/ WriteNext

RingSpec == RingInit /\ [][RingNext]_ringVars

-----------------------------------------------------------------------------
(* Properties. *)

\* The ring and its two indices hold the newest maxSize events in the order
\* they were added, before, at and after each wrap-around: read backwards from
\* head they are the log that EventLog promises.
Log == INSTANCE EventLog WITH log <- Walk
KeepsTheNewest == Log!Spec

\* Bound: the queries asked, around every limit and past the end.
Queries == [wanted : SUBSET Events, limit : -1 .. MaxLimit + 1, offset : -1 .. MaxSize]

\* The events let through among the newest i, for each i.
Matching(wanted) ==
    LET found[i \in 0 .. count] ==
            IF i = 0 THEN <<>>
            ELSE IF Walk[i] \in wanted THEN Append(found[i - 1], Walk[i]) ELSE found[i - 1]
    IN  found

\* Whatever the filters let through, Query answers with the page at the offset
\* of the matching events, newest first: paging by offset neither repeats nor
\* misses one, and never returns more than the limit.
QueriesPageTheLog ==
    writing = <<>> =>
        \A query \in Queries :
            LET matching == Matching(query.wanted)[count]
                first == IF query.offset > 0 THEN query.offset + 1 ELSE 1
                last  == first + Limit(query.limit) - 1
            IN  Query(query) =
                  SubSeq(matching, first,
                         IF last < Len(matching) THEN last ELSE Len(matching))
=============================================================================
