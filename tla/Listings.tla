------------------------------ MODULE Listings ------------------------------
(***************************************************************************)
(* The paged listings of the gateway, and a client that reads one from its *)
(* first page to its last while rows come, go and are edited.  A page is   *)
(* answered from two or three queries in separate awaits, one action each: *)
(* the reader's own comments, the page, and the number of rows.  The       *)
(* client chooses the field the rows are sorted by: rows may have the same *)
(* value of it, in no certain order then, and an edit may change it.       *)
(***************************************************************************)
EXTENDS Integers, FiniteSets, Sequences, Functions

CONSTANTS
    MaxRows, \* rows that are ever created
    MaxKey,  \* values of the field they are sorted by
    MaxChanges, \* changes of the rows while the client reads
    Sizes    \* page sizes asked for

ASSUME ListingsAssumption ==
    /\ MaxRows \in Nat \ {0} /\ MaxKey \in Nat \ {0}
    /\ MaxChanges \in Nat /\ Sizes \subseteq Nat \ {0}

VARIABLES
    row,     \* what became of each row
    key,     \* its value of the field that the listing is sorted by
    request, \* what the client asks for on each page: the listing, its order, the size
    reader   \* the client: its request, and what it has seen

vars == <<row, key, request, reader>>

-----------------------------------------------------------------------------
(* The listings *)

\* A row matches the filter ("own": and is the reader's), or it is a row of the
\* same table that does not ("other").
Matches   == {"listed", "own"}
RowStates == Matches \cup {"unborn", "other", "gone"}
Rows      == 1 .. MaxRows
Keys      == 1 .. MaxKey

\* The fields: dates of creation and of the last edit; a name of the listed user,
\* which no two have; the name of the buyer of a payment; what rows may have in
\* common (the author, the price, the payment system); and what all have (the
\* author of one user's posts, a field that files do not have).
Sorts == {"createdAt", "updatedAt", "name", "buyer", "shared", "same"}

\* plans: the orders of the queries.  leaves, enters: whether a row can stop matching,
\* and start to when it is no longer new.  counted: what the number of rows counts.
\* own: whether the reader's rows come first.  loud: whether a failure is answered as one.
Listing(plans, leaves, enters) ==
    [plans |-> plans, leaves |-> leaves, enters |-> enters, counted |-> Matches,
     own |-> FALSE, loud |-> FALSE]

CountFirst == {<<"count", "page">>}
PageFirst  == {<<"page", "count">>}

\* What a client asks for: a listing, one of the fields to sort it by, and a direction.
\* (Other fields than dates have the same orders in both directions.)
Dates == {"createdAt", "updatedAt"}

Asked(list, sorts) ==
    [list : {list}, sort : sorts \cap Dates, newest : BOOLEAN, size : Sizes]
        \cup [list : {list}, sort : sorts \ Dates, newest : {FALSE}, size : Sizes]

\* findCommentsByPostId, without a user and with one.
CommentsOfPost  == Asked(Listing(PageFirst, TRUE, FALSE), Dates)
CommentsForUser ==
    Asked([Listing({<<"own", "page", "count">>}, TRUE, FALSE) EXCEPT !.own = TRUE], Dates)

\* findRepliesByCommentId.
RepliesToComment == Asked(Listing(CountFirst, TRUE, FALSE), Dates)

\* findPostsByQueryAndUserId and findPostsByQuery; a deleted post leaves.
PostsOfUser == Asked(Listing(CountFirst, TRUE, FALSE), Dates \cup {"same"})
PublicPosts == Asked(Listing(CountFirst, TRUE, FALSE), Dates \cup {"shared"})

\* findPostsByQueryForAdmin, by a part of the author's name, which may change.
PostsForAdmin == Asked(Listing(CountFirst, TRUE, TRUE), Dates \cup {"shared"})

\* getUsersWithRelations, by name and ban.
UsersForAdmin == Asked(Listing(CountFirst, TRUE, TRUE), {"createdAt", "name"})

\* getMyPayments: orders whose transaction is completed, however late.
MyPayments ==
    {r \in Asked([Listing(CountFirst, FALSE, TRUE) EXCEPT !.loud = TRUE], {"createdAt"}) : r.newest}

\* getAllPayments: all orders, or the completed ones of the buyers that are searched
\* for, whose names may change; and getAllPaymentsByUser.
AllPayments      == Asked(Listing(PageFirst, FALSE, FALSE), {"createdAt", "buyer", "shared"})
PaymentsOfBuyers == Asked(Listing(PageFirst, TRUE, TRUE), {"createdAt", "buyer", "shared"})
PaymentsOfUser   == Asked(Listing(PageFirst, FALSE, TRUE), {"createdAt", "shared"})

\* findPostsImagesWithPaginationAndSortingByUser asks for both at once, and for
\* the number of all files of the user.
PostImages ==
    Asked([Listing(CountFirst \cup PageFirst, TRUE, FALSE)
             EXCEPT !.counted = Matches \cup {"other"}, !.loud = TRUE], {"createdAt", "same"})

\* findNotificationsByQueryAndUserId, of the last month.
MyNotifications == Asked(Listing(CountFirst, TRUE, FALSE), {"createdAt"})

Requests ==
    CommentsOfPost \cup CommentsForUser \cup RepliesToComment \cup PostsOfUser
        \cup PublicPosts \cup PostsForAdmin \cup UsersForAdmin \cup MyPayments \cup AllPayments
        \cup PaymentsOfBuyers \cup PaymentsOfUser \cup PostImages \cup MyNotifications

-----------------------------------------------------------------------------
(* Queries and answers *)

In(states) == {i \in Rows : row[i] \in states}

Listed == In(IF request.list.own THEN {"listed"} ELSE Matches)

\* The sort puts row j before row i.
Ahead(j, i) == IF request.newest THEN key[j] > key[i] ELSE key[j] < key[i]

\* The place of row i among the rows of S, from one on, as far as it is certain.
Place(S, i) == Cardinality({j \in S : j = i \/ Ahead(j, i)})

\* The database puts rows of the same key in any order, in each query anew.
Ties == Bijection(Rows, Rows)

PlaceBy(tie, S, i) ==
    Cardinality({j \in S : Ahead(j, i) \/ (key[j] = key[i] /\ tie[j] <= tie[i])})

\* Prisma's skip and take: a negative take skips and counts from the end.
Slice(tie, S, skip, take) ==
    LET from == IF take < 0 THEN Cardinality(S) - skip + take ELSE skip
        to   == IF take < 0 THEN Cardinality(S) - skip ELSE skip + take
    IN  {i \in S : from < PlaceBy(tie, S, i) /\ PlaceBy(tie, S, i) <= to}

\* Mutant: one row less is skipped.
SkipShort(size, page, own) == IF page = 1 THEN 0 ELSE size * (page - 1) - 1

\* Mutant: the reader's own comments on the first page are forgotten.
SkipWithoutOwn(size, page, own) == size * (page - 1)

\* max(0, pageSize * (page - 1) - own), where own comments come first.
Skip(size, page, own) ==
    IF own > size * (page - 1) THEN 0 ELSE size * (page - 1) - own

\* Mutant: math.floor.
PagesCountFloor(total, size) == total \div size

\* Paginator.
PagesCount(total, size) == (total + size - 1) \div size

NoPage == [own |-> {}, items |-> {}, total |-> 0]

\* What the answer a may become with a query.
Queried(q, a) ==
    LET own == Cardinality(a.own) IN
    CASE q = "own"   -> {[a EXCEPT !.own = In({"own"})]}
      [] q = "page"  -> {[a EXCEPT !.items = Slice(tie, Listed, Skip(request.size, reader.page, own),
                                                   request.size - own)] : tie \in Ties}
      [] q = "count" -> {[a EXCEPT !.total = Cardinality(In(request.list.counted))]}

\* A page without rows says that there are none.
Last(a) ==
    \/ a.own \cup a.items = {}
    \/ reader.page >= PagesCount(a.total, request.size)

-----------------------------------------------------------------------------
(* The reader *)

\* Two rows that match have the same key.
Tied == \E i, j \in In(Matches) : i # j /\ key[i] = key[j]

Init ==
    /\ row = [i \in Rows |-> "unborn"]
    /\ key = [i \in Rows |-> 1]
    /\ request \in Requests
    /\ reader = [pc |-> "idle", page |-> 1, todo |-> <<>>, answer |-> NoPage, seen |-> {},
                 twice |-> FALSE, stay |-> {}, changed |-> {}, left |-> FALSE,
                 came |-> FALSE, slipped |-> FALSE, tied |-> FALSE, failed |-> FALSE, changes |-> 0]

\* The first page is asked for.
Begin ==
    /\ reader.pc = "idle"
    /\ \E plan \in request.list.plans :
         reader' = [reader EXCEPT !.pc = "asked", !.todo = plan, !.stay = In(Matches),
                                  !.tied = Tied]
    /\ UNCHANGED <<row, key, request>>

\* The next query; the last one answers the request.
Query ==
    /\ reader.pc = "asked"
    /\ \E a \in Queried(Head(reader.todo), reader.answer) :
         LET more == a.own \cup a.items
         IN  reader' = IF Tail(reader.todo) # <<>>
                       THEN [reader EXCEPT !.todo = Tail(@), !.answer = a]
                       ELSE [reader EXCEPT !.todo = <<>>, !.answer = NoPage,
                                           !.pc = IF Last(a) THEN "done" ELSE "answered",
                                           !.seen = @ \cup more,
                                           !.twice = @ \/ (reader.seen \cap more)
                                                            \ reader.changed # {}]
    /\ UNCHANGED <<row, key, request>>

\* A query fails, and the request is answered with no rows and the number zero.
QueryFails ==
    /\ reader.pc = "asked"
    /\ ~request.list.loud
    /\ reader' = [reader EXCEPT !.pc = "done", !.todo = <<>>, !.answer = NoPage, !.failed = TRUE]
    /\ UNCHANGED <<row, key, request>>

\* The page after it is asked for.
NextPage ==
    /\ reader.pc = "answered"
    /\ \E plan \in request.list.plans :
         reader' = [reader EXCEPT !.pc = "asked", !.todo = plan, !.page = @ + 1]
    /\ UNCHANGED <<row, key, request>>

-----------------------------------------------------------------------------
(* The rows *)

\* Until the client asks, rows are created; while it reads, any change may come.
Reading == reader.pc \in {"asked", "answered"}

Live == {i \in Rows : row[i] \notin {"unborn", "gone"}}

\* The date of the last change, or the next; and keys that no other row has.
Latest == {k \in Keys : /\ \A i \in Live : key[i] <= k
                        /\ k = 1 \/ \E i \in Live : key[i] \in {k - 1, k}}
Unused == {k \in Keys : \A i \in Live : key[i] # k}

\* The number is known, the page is not.
Counted == reader.pc = "asked" /\ reader.todo = <<"page">>

\* The rows that match and are listed before row j.
Before(j) == {i \in In(Matches) : Ahead(i, j)}

\* What the reader's history takes from a change of the rows W, or from a new row:
\* of the other rows, one has no longer all those before it that it had ("left"), or
\* has one more ("came"), and that between the count and the page ("slipped").
Notes(W) ==
    LET kept == In(Matches) \ W
        came == \E j \in kept : ~(Before(j)' \subseteq Before(j))
        left == \E j \in kept : ~(Before(j) \subseteq Before(j)')
    IN  /\ UNCHANGED request
        /\ reader.changes < MaxChanges
        /\ reader' = IF reader.pc = "idle" THEN reader
                     ELSE [reader EXCEPT !.stay = @ \ W, !.changed = @ \cup W,
                                         !.left = @ \/ left, !.came = @ \/ came,
                                         !.slipped = @ \/ (came /\ Counted),
                                         !.tied = @ \/ Tied',
                                         !.changes = @ + 1]

\* The keys of a new row; rows have no more values in common than there are rows.
FreshKeys ==
    CASE request.sort \in Dates -> Latest
      [] request.sort = "name" -> Unused
      [] request.sort \in {"buyer", "shared"} -> Keys \cap Rows
      [] request.sort = "same" -> {1}

Created ==
    \E i \in Rows, s \in RowStates \ {"unborn", "gone"}, k \in FreshKeys :
        /\ row[i] = "unborn" /\ \A j \in 1 .. i - 1 : row[j] # "unborn"
        /\ s = "own" => request.list.own
        /\ s = "other" => request.list.enters \/ "other" \in request.list.counted
        /\ row' = [row EXCEPT ![i] = s]
        /\ key' = [key EXCEPT ![i] = k]
        /\ Reading \/ reader.pc = "idle"
        /\ Notes({})

\* Rows are deleted, or change so that they do not match: one, or all of a user.
Left ==
    \E W \in SUBSET In(Matches), s \in {"gone", "other"} :
        /\ Reading /\ request.list.leaves
        /\ W # {}
        /\ s = "other" => request.list.enters
        /\ row' = [i \in Rows |-> IF i \in W THEN s ELSE row[i]]
        /\ UNCHANGED key
        /\ Notes(W)

Entered ==
    \E W \in SUBSET In({"other"}) :
        /\ Reading /\ request.list.enters
        /\ W # {}
        /\ row' = [i \in Rows |-> IF i \in W THEN "listed" ELSE row[i]]
        /\ UNCHANGED key
        /\ Notes(W)

\* A row is edited and gets a new date; a user takes another name, and so do the
\* user's payments.
Edited ==
    \E i \in Live, k \in IF request.sort = "updatedAt" THEN Latest ELSE Unused :
        LET W == IF request.sort = "buyer" THEN {j \in Live : key[j] = key[i]} ELSE {i}
        IN  /\ Reading /\ request.sort \in {"updatedAt", "name", "buyer"}
            /\ key' = [j \in Rows |-> IF j \in W THEN k ELSE key[j]]
            /\ UNCHANGED row
            /\ Notes(W)

-----------------------------------------------------------------------------
Next ==
    \/ Begin
    \/ Query
    \/ QueryFails
    \/ NextPage
    \/ Created
    \/ Left
    \/ Entered
    \/ Edited

Spec == Init /\ [][Next]_vars

-----------------------------------------------------------------------------
(* Properties *)

\* A reader of all pages sees each row that was there all the time and was not
\* edited, unless one that was listed before another left or moved behind it, or came
\* before it between the count and the page of a request, which makes the number of
\* pages one too small, or two rows had the same key, or a query failed.
NothingMissed ==
    reader.pc = "done" /\ ~request.list.own =>
        \/ reader.stay \subseteq reader.seen
        \/ reader.left \/ reader.slipped \/ reader.tied \/ reader.failed

\* It sees no row twice that was not changed, unless one came or moved before another,
\* or two had the same key.
NothingTwice == reader.twice /\ ~request.list.own => reader.came \/ reader.tied

\* A user sees all of his own comments on the post, and as many of the others as two
\* pages have room for beside them, on the first two pages, if no comment comes, goes or
\* is edited.  (From the third page on he misses some; and where his own leave no room,
\* the pages show others all the same, from the end.)
FirstTwoPagesAreWhole ==
    LET own    == In({"own"})
        others == In({"listed"})
        room   == 2 * (request.size - Cardinality(own))
    IN  /\ request.list.own /\ ~reader.tied /\ ~reader.failed
        /\ reader.stay = In(Matches) /\ reader.changed = {}
        /\ reader.pc = "done" \/ (reader.page = 2 /\ reader.pc = "answered") \/ reader.page > 2
        => /\ own \subseteq reader.seen
           /\ \A i \in others : Place(others, i) <= room => i \in reader.seen

=============================================================================
