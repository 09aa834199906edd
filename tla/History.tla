------------------------------- MODULE History -------------------------------
(***************************************************************************)
(* The transaction history of one account: a client walks through the       *)
(* pages of GET /accounts/{id}/transactions while pollers and workers       *)
(* insert ledger entries.  A page is answered from two queries, a sorted    *)
(* Find with skip and limit, and a CountDocuments.                          *)
(***************************************************************************)
EXTENDS Naturals, Sequences, FiniteSets

CONSTANTS
    Entries,    \* the documents the account may get
    Times,      \* values of created_at: the clock of the gateway that took the request
    PageSizes   \* values of per_page

ASSUME HistoryAssumption ==
    /\ IsFiniteSet(Entries)
    /\ Times \subseteq Nat
    /\ PageSizes \subseteq 1 .. 100

VARIABLES
    createdAt,  \* created_at of each entry, which no update changes
    entries,    \* the entries in the collection
    walk,       \* the client: page and size it asks for; next query of the gateway
    items,      \* the result of Find, until the request is answered
    seen,       \* what the walk has shown so far
    repeated,   \* what it has shown more than once
    present     \* the entries that were there when the walk began

walkVars == <<walk, items, seen, repeated, present>>
historyVars == <<createdAt, entries, walkVars>>

WalkRecords == [pc : {"idle", "find", "count"}, page : Nat, perPage : Nat, total : Nat]

\* GetTransactionsByAccountID: what is skipped; and a version that counts in
\* entries instead of pages.
OffsetInEntries(page, perPage) == page - 1
Offset(page, perPage) == (page - 1) * perPage

\* NewPaginatedResponse; and a version that forgets the last page.
FullPages(total, perPage) == total \div perPage
TotalPages(total, perPage) == total \div perPage + (IF total % perPage > 0 THEN 1 ELSE 0)

\* SetSort(created_at: -1): the orders Find may return the entries in.  Entries
\* of the same moment are in any order, and not the same one in the next query.
Orders ==
    {order \in [1 .. Cardinality(entries) -> entries] :
        \A m, n \in DOMAIN order : m < n =>
            order[m] # order[n] /\ createdAt[order[m]] >= createdAt[order[n]]}

Shown == {items[n] : n \in DOMAIN items}

-----------------------------------------------------------------------------

\* The environment: LedgerRepository.Create.  Entries arrive in any order of
\* created_at.
Insert(e) ==
    /\ e \notin entries
    /\ entries' = entries \cup {e}
    /\ UNCHANGED <<createdAt, walkVars>>

StartWalk(perPage) ==
    /\ walk.pc = "idle"
    /\ walk' = [pc |-> "find", page |-> 1, perPage |-> perPage, total |-> 0]
    /\ items' = <<>> /\ seen' = {} /\ repeated' = {}
    /\ present' = entries
    /\ UNCHANGED <<createdAt, entries>>

\* A page without its limit.
PageToTheEnd(order, page, perPage) == SubSeq(order, Offset(page, perPage) + 1, Len(order))

\* Skip and limit: what Find returns of the entries in their order.
PageOf(order, page, perPage) ==
    LET offset == Offset(page, perPage)
        last   == IF offset + perPage < Len(order) THEN offset + perPage ELSE Len(order)
    IN  SubSeq(order, offset + 1, last)

\* After an error the client asks for the same page again.
FindPage ==
    /\ walk.pc = "find"
    /\ \E order \in Orders : items' = PageOf(order, walk.page, walk.perPage)
    /\ walk' = [walk EXCEPT !.pc = "count"]
    /\ UNCHANGED <<createdAt, entries, seen, repeated, present>>

\* A total that is computed once for a walk.
AnswerWithOldTotal ==
    /\ walk.pc = "count"
    /\ walk' = [walk EXCEPT !.total = Cardinality(present),
                            !.page = @ + 1,
                            !.pc = IF walk.page < TotalPages(Cardinality(present), walk.perPage)
                                   THEN "find" ELSE "idle"]
    /\ seen' = seen \cup Shown
    /\ repeated' = repeated \cup (seen \cap Shown)
    /\ UNCHANGED <<createdAt, entries, items, present>>

\* CountDocuments and the answer.  The client goes on to the next page as long
\* as the last answer says that there is one.
Answer ==
    LET total == Cardinality(entries)
        last  == walk.page >= TotalPages(total, walk.perPage)
    IN
    /\ walk.pc = "count"
    /\ walk' = [walk EXCEPT !.total = total,
                            !.page = IF last THEN @ ELSE @ + 1,
                            !.pc = IF last THEN "idle" ELSE "find"]
    /\ seen' = seen \cup Shown
    /\ repeated' = repeated \cup (seen \cap Shown)
    /\ UNCHANGED <<createdAt, entries, items, present>>

AnswerError ==
    /\ walk.pc = "count"
    /\ walk' = [walk EXCEPT !.pc = "find"]
    /\ UNCHANGED <<createdAt, entries, items, seen, repeated, present>>

HistoryInit ==
    /\ createdAt \in [Entries -> Times]
    /\ entries = {}
    /\ walk = [pc |-> "idle", page |-> 1, perPage |-> 1, total |-> 0]
    /\ items = <<>> /\ seen = {} /\ repeated = {} /\ present = {}

HistoryNext ==
    \/ \E e \in Entries : Insert(e)
    \/ \E perPage \in PageSizes : StartWalk(perPage)
    \/ FindPage \/ Answer \/ AnswerError

HistorySpec == HistoryInit /\ [][HistoryNext]_historyVars

-----------------------------------------------------------------------------
(* Properties *)

HistoryTypeOK ==
    /\ createdAt \in [Entries -> Times]
    /\ entries \subseteq Entries
    /\ walk \in WalkRecords
    /\ items \in Seq(entries) /\ Len(items) <= walk.perPage
    /\ repeated \subseteq seen /\ seen \subseteq entries
    /\ present \subseteq entries

\* Nobody else has its created_at.
Unique(e) == \A d \in entries \ {e} : createdAt[d] # createdAt[e]

\* A finished walk has shown every entry that was there when it began, whatever
\* was inserted meanwhile and wherever in the order: entries only move to later
\* pages (transaction_service.go:94-101, ledger_repository.go:119-123).  It may
\* miss entries that share their created_at with another one.
WalkMissesNothing ==
    walk.pc = "idle" => \A e \in present : Unique(e) => e \in seen

\* An entry is shown twice only when something was inserted during the walk, or
\* it shares its created_at.
RepeatsOnlyAfterInsert ==
    entries = present => \A e \in repeated : ~Unique(e)

\* The total of an answer, although counted later than the page was read, covers
\* the page and everything the pages before it have shown.
TotalCoversWhatIsShown ==
    walk.pc = "idle" => Cardinality(seen) <= walk.total
=============================================================================
