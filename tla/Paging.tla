------------------------------- MODULE Paging -------------------------------
(***************************************************************************)
(* Pages of a listing: the query parameters page and per_page, and the     *)
(* rows they select (shared/pagination, the repositories' Offset and       *)
(* Limit).  A parameter is <<>> if missing or no number, else <<value>>.   *)
(* Rows are ordered by a key that they may share (sort_order and name of   *)
(* items); which of the orders the database then takes, each query finds   *)
(* out for itself.                                                         *)
(* Widths are scaled: PageLimit stands for the 2^63 of a Go int.           *)
(***************************************************************************)
EXTENDS Integers, FiniteSets, Words

CONSTANTS
    DefaultPerPage, MaxPerPage,     \* pagination.go: 20 and 100
    PageLimit,                      \* an offset is in -PageLimit .. PageLimit - 1
    Keys,                           \* what rows are ordered by
    MaxRows                         \* bound: rows in a listing

ASSUME PagingAssumption ==
    /\ DefaultPerPage \in 1 .. MaxPerPage
    /\ MaxPerPage \in Nat
    /\ PageLimit \in Nat \ {0}
    /\ Keys \subseteq Int
    /\ MaxRows \in 0 .. PageLimit - 1      \* COUNT is a bigint

VARIABLES
    rows,       \* how many rows the listing has
    key,        \* the keys of the rows, in order
    perPage     \* the parameter per_page of the client that pages through it

pagingVars == <<rows, key, perPage>>

Listings(n) == {k \in [1 .. n -> Keys] : \A i, j \in 1 .. n : i < j => k[i] <= k[j]}

PagingInit == rows = 0 /\ key \in Listings(0) /\ perPage = <<>>

\* A row is added while nobody is between two pages, or the client starts over with
\* another per_page.
PagingNext ==
    \/ /\ rows < MaxRows
       /\ rows' = rows + 1
       /\ key' \in Listings(rows + 1)
       /\ UNCHANGED perPage
    \/ /\ perPage' \in {<<>>} \union {<<n>> : n \in -1 .. MaxPerPage + 1}
       /\ UNCHANGED <<rows, key>>

PagingSpec == PagingInit /\ [][PagingNext]_pagingVars

\* The orders in which a query may find the rows: order[n] is the n-th of them.
Orders ==
    {order \in [1 .. rows -> 1 .. rows] :
        /\ \A i \in 1 .. rows : \E n \in 1 .. rows : order[n] = i
        /\ \A m, n \in 1 .. rows : order[m] = order[n] => m = n
        /\ \A n \in 1 .. rows : key[order[n]] = key[n]}

\* getQueryInt, and what ExtractPagination makes of it.
PageOf(param) == IF param = <<>> \/ param[1] < 1 THEN 1 ELSE param[1]
PerPageOf(param) ==
    LET asked == IF param = <<>> \/ param[1] < 1 THEN DefaultPerPage ELSE param[1]
    IN  IF asked > MaxPerPage THEN MaxPerPage ELSE asked

\* Mutant of OffsetOf: pages counted from zero.
OffsetOfZero(page, limit) == Wrap(page * limit, PageLimit)

OffsetOf(page, limit) == Wrap((page - 1) * limit, PageLimit)

\* The places, in the order, of the rows that are answered for a page.  gorm leaves
\* an OFFSET out that is not positive.
PlacesOf(pageParam) ==
    LET limit == PerPageOf(perPage)
        offset == OffsetOf(PageOf(pageParam), limit)
        skipped == IF offset > 0 THEN offset ELSE 0
    IN  {n \in 1 .. rows : skipped < n /\ n <= skipped + limit}

RowsOf(order, pageParam) == {order[n] : n \in PlacesOf(pageParam)}

-----------------------------------------------------------------------------
(* Properties.                                                             *)

\* Whatever per_page is sent, up to the page whose offset no longer fits: pages that
\* find the rows in the same order hold each row exactly once; whatever orders they
\* find, a page starts with no smaller key than the one before ended with, and has
\* MaxPerPage rows at most, and a row that shares its key with no other is on one
\* page for certain (pagination.go:22-43, menu/repository.go:173).
PagesPartition ==
    LET limit == PerPageOf(perPage)
        pages == {n \in 1 .. PageLimit - 1 : (n - 1) * limit < PageLimit}
        Page(order, n) == RowsOf(order, <<n>>)
        Alone(i) == \A j \in 1 .. rows : key[j] = key[i] => j = i
        orders == Orders
    IN  /\ \A order \in orders :
              /\ UNION {Page(order, n) : n \in pages} = 1 .. rows
              /\ \A m, n \in pages : m < n => Page(order, m) \intersect Page(order, n) = {}
              /\ \A n \in pages : Cardinality(Page(order, n)) <= MaxPerPage
              /\ \A first \in {<<>>, <<-1>>, <<0>>} : RowsOf(order, first) = Page(order, 1)
        /\ \A one, other \in orders, m, n \in pages :
              /\ m < n => \A i \in Page(one, m), j \in Page(other, n) : key[i] <= key[j]
              /\ \A i \in Page(one, m) : Alone(i) => (i \in Page(other, n) <=> m = n)
=============================================================================
