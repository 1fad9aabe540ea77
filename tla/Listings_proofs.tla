--------------------------- MODULE Listings_proofs ---------------------------
(***************************************************************************)
(* Proofs about Listings for any number of rows and any page sizes: which  *)
(* rows a client that turns all pages sees, and which it sees twice.       *)
(***************************************************************************)
EXTENDS Listings, FiniteSetTheorems, WellFoundedInduction, TLAPS

-----------------------------------------------------------------------------
(* Places *)

\* A set of naturals has a least element.
LEMMA Least ==
    ASSUME NEW T, T \subseteq Nat, T # {}
    PROVE  \E m \in T : \A k \in T : m <= k
<1> DEFINE Less == OpToRel(<, Nat)
<1>1. PICK m \in T : \A k \in T : ~(<<k, m>> \in Less)
  <2> HIDE DEF Less
  <2> QED  BY WFMin, NatLessThanWellFounded, Zenon DEF Less
<1>2. \A k \in T : ~(k < m)  BY <1>1 DEF OpToRel
<1> QED  BY <1>2

LEMMA RowsAreFinite ==
    ASSUME NEW S, S \subseteq Rows
    PROVE  /\ IsFiniteSet(S) /\ Cardinality(S) \in Nat
           /\ \A T \in SUBSET S : IsFiniteSet(T) /\ Cardinality(T) \in Nat
                                  /\ Cardinality(T) <= Cardinality(S)
<1>1. IsFiniteSet(Rows)  BY ListingsAssumption, FS_Interval DEF Rows
<1>2. IsFiniteSet(S)  BY <1>1, FS_Subset
<1> QED  BY <1>2, FS_Subset, FS_CardinalityType

LEMMA PlaceBounds ==
    ASSUME NEW S, S \subseteq Rows, NEW i \in S
    PROVE  Place(S, i) \in Nat /\ Place(S, i) >= 1 /\ Place(S, i) <= Cardinality(S)
<1> DEFINE A == {j \in S : j = i \/ Ahead(j, i)}
<1>1. A \subseteq S /\ i \in A  OBVIOUS
<1>2. IsFiniteSet(A) /\ Cardinality(A) \in Nat /\ Cardinality(A) <= Cardinality(S)
  BY <1>1, RowsAreFinite
<1>3. Cardinality(A) # 0  BY <1>1, <1>2, FS_EmptySet
<1> QED  BY <1>2, <1>3, RowsAreFinite DEF Place

KeysOK == key \in [Rows -> Keys]

Apart(S) == \A j, k \in S : key[j] = key[k] => j = k

\* Where no two rows of S have the same key, and some row of S has a place after the
\* first n, one has the next.
LEMMA NoGap ==
    ASSUME KeysOK, NEW S, S \subseteq Rows, Apart(S), NEW n \in Nat,
           NEW i \in S, Place(S, i) > n
    PROVE  \E j \in S : Place(S, j) = n + 1
<1> DEFINE Key(j) == IF request.newest THEN MaxKey + 1 - key[j] ELSE key[j]
           T      == {j \in S : Place(S, j) > n}
<1>1. /\ \A j \in S : Key(j) \in 1 .. MaxKey
      /\ \A j, k \in S : /\ Ahead(j, k) <=> Key(j) < Key(k)
                         /\ Key(j) = Key(k) => j = k
  <2>1. \A j \in S : key[j] \in 1 .. MaxKey  BY DEF KeysOK, Keys
  <2> QED  BY <2>1, ListingsAssumption DEF Ahead, Apart
<1> HIDE DEF Key
<1>2. PICK m \in T : \A j \in T : Key(m) <= Key(j)
  <2>1. {Key(j) : j \in T} # {} /\ {Key(j) : j \in T} \subseteq Nat  BY <1>1
  <2>2. PICK c \in {Key(j) : j \in T} : \A k \in {Key(j) : j \in T} : c <= k
    BY <2>1, Least
  <2> QED  BY <2>2
<1> DEFINE A == {j \in S : j = m \/ Ahead(j, m)} \ {m}
<1>3. /\ IsFiniteSet(A) /\ Cardinality(A) = Place(S, m) - 1
      /\ Place(S, m) \in Nat /\ Place(S, m) > n /\ Place(S, m) >= 1
  <2>1. m \in {j \in S : j = m \/ Ahead(j, m)}  OBVIOUS
  <2>2. IsFiniteSet({j \in S : j = m \/ Ahead(j, m)})
    <3>1. {j \in S : j = m \/ Ahead(j, m)} \subseteq Rows  OBVIOUS
    <3> QED  BY <3>1, RowsAreFinite
  <2>3. /\ IsFiniteSet(A)
        /\ Cardinality(A) = Cardinality({j \in S : j = m \/ Ahead(j, m)}) - 1
    BY <2>1, <2>2, FS_RemoveElement
  <2>4. Place(S, m) = Cardinality({j \in S : j = m \/ Ahead(j, m)})  BY DEF Place
  <2>5. Place(S, m) \in Nat /\ Place(S, m) >= 1  BY PlaceBounds
  <2>6. Place(S, m) > n  OBVIOUS
  <2> QED  BY <2>3, <2>4, <2>5, <2>6
<1>4. CASE A = {}
  <2>1. Cardinality(A) = 0  BY <1>4, FS_EmptySet
  <2>2. Place(S, m) = n + 1  BY <1>3, <2>1
  <2> QED  BY <2>2
<1>5. CASE A # {}
  <2>1. PICK l \in A : \A j \in A : Key(j) <= Key(l)
    <3> DEFINE B == {MaxKey + 1 - Key(j) : j \in A}
    <3>1. B # {} /\ B \subseteq Nat  BY <1>1, <1>5, ListingsAssumption
    <3>2. PICK c \in B : \A k \in B : c <= k  BY <3>1, Least
    <3>3. PICK l \in A : c = MaxKey + 1 - Key(l)  BY <3>2
    <3>4. \A j \in A : MaxKey + 1 - Key(l) <= MaxKey + 1 - Key(j)  BY <3>2, <3>3
    <3> QED  BY <1>1, <3>4, ListingsAssumption
  <2>2. {j \in S : j = l \/ Ahead(j, l)} = A
    <3>1. \A j \in S : j = l \/ Ahead(j, l) => j \in A  BY <1>1, <2>1
    <3>2. \A j \in A : j = l \/ Ahead(j, l)  BY <1>1, <2>1
    <3> QED  BY <3>1, <3>2
  <2>3. Place(S, l) = Place(S, m) - 1  BY <1>3, <2>2 DEF Place
  <2>4. ~(Key(m) <= Key(l))  BY <1>1, <2>1
  <2>5. ~(Place(S, l) > n)  BY <1>2, <2>1, <2>4
  <2>6. Place(S, m) = n + 1  BY <1>3, <2>3, <2>5
  <2> QED  BY <2>6
<1> QED  BY <1>4, <1>5

\* Where no two rows have the same key, the database has no choice.
LEMMA NoChoice ==
    ASSUME NEW tie \in Ties, NEW S, S \subseteq Rows, Apart(S), NEW skip, NEW take
    PROVE  /\ \A i \in S : PlaceBy(tie, S, i) = Place(S, i)
           /\ Slice(tie, S, skip, take) =
                LET from == IF take < 0 THEN Cardinality(S) - skip + take ELSE skip
                    to   == IF take < 0 THEN Cardinality(S) - skip ELSE skip + take
                IN  {i \in S : from < Place(S, i) /\ Place(S, i) <= to}
<1>1. \A i \in Rows : tie[i] \in Int
  <2>1. tie \in [Rows -> Rows]  BY DEF Ties, Bijection, Injection
  <2> QED  BY <2>1 DEF Rows
<1>2. ASSUME NEW i \in S PROVE PlaceBy(tie, S, i) = Place(S, i)
  <2>1. \A j \in S : key[j] = key[i] /\ tie[j] <= tie[i] <=> j = i  BY <1>1 DEF Apart
  <2>2. {j \in S : Ahead(j, i) \/ (key[j] = key[i] /\ tie[j] <= tie[i])}
          = {j \in S : j = i \/ Ahead(j, i)}
    BY <2>1
  <2> QED  BY <2>2 DEF PlaceBy, Place
<1> QED  BY <1>2 DEF Slice

-----------------------------------------------------------------------------
(* The invariant *)

\* What is left of a plan while its queries are answered.
Plans    == {<<>>, <<"page">>, <<"count">>, <<"count", "page">>, <<"page", "count">>}
OwnPlans == {<<>>, <<"count">>, <<"page", "count">>, <<"own", "page", "count">>}

Answers == [own : SUBSET Rows, items : SUBSET Rows, total : Nat]

Readers == [pc : {"idle", "asked", "answered", "done"}, page : Nat \ {0},
            todo : Plans \cup OwnPlans, answer : Answers, seen : SUBSET Rows, twice : BOOLEAN,
            stay : SUBSET Rows, changed : SUBSET Rows, left : BOOLEAN, came : BOOLEAN,
            slipped : BOOLEAN, tied : BOOLEAN, failed : BOOLEAN, changes : Nat]

TypeOK == row \in [Rows -> RowStates] /\ KeysOK /\ request \in Requests /\ reader \in Readers

Got   == reader.seen \cup reader.answer.items
Paged == reader.pc \in {"answered", "done"} \/ reader.todo = <<"count">>

\* How many places the pages asked for so far had.
Read == IF Paged THEN request.size * reader.page ELSE request.size * (reader.page - 1)

\* What a request knows at each query.
Phases ==
    /\ reader.pc = "asked" <=> reader.todo # <<>>
    /\ reader.todo \in IF request.list.own THEN OwnPlans ELSE Plans
    /\ reader.todo # <<"count">> => reader.answer.items = {}
    /\ ~request.list.own => reader.answer.own = {}
    /\ reader.pc = "idle" => /\ reader.page = 1 /\ reader.seen = {} /\ reader.stay = {}
                             /\ ~reader.twice /\ ~reader.failed
    /\ reader.failed => reader.pc = "done"
    /\ reader.pc # "idle" /\ ~reader.tied => ~Tied

\* Only created rows are seen, and rows that stay match.
Remembered ==
    /\ \A i \in Got \cup reader.answer.own : row[i] # "unborn"
    /\ reader.stay \subseteq In(Matches)

\* What was seen and not changed is within the places read, unless rows came before it.
Once ==
    ~request.list.own /\ ~reader.came /\ ~reader.tied =>
        /\ ~reader.twice
        /\ (reader.answer.items \cap reader.seen) \ reader.changed = {}
        /\ \A i \in Got \ reader.changed : row[i] \in Matches => Place(In(Matches), i) <= Read

\* What was not seen lies behind the places read, unless rows left; between count
\* and page it was counted; and a page without rows is behind all.
Unseen ==
    ~request.list.own /\ ~reader.left /\ ~reader.tied /\ ~reader.failed =>
        /\ \A i \in reader.stay \ Got : Place(In(Matches), i) > Read
        /\ reader.todo = <<"page">> /\ ~reader.slipped =>
             \A i \in reader.stay \ reader.seen : Place(In(Matches), i) <= reader.answer.total
        /\ reader.todo = <<"count">> /\ reader.answer.items = {} => reader.stay \subseteq reader.seen

Turned(n) == reader.page > n \/ (reader.page = n /\ reader.pc \in {"answered", "done"})

\* The rows of S up to place n were seen.
SeenTo(S, n) == \A i \in S : Place(S, i) <= n => i \in reader.seen

\* No comment came, went or was edited.
Quiet ==
    /\ request.list.own /\ ~reader.tied /\ ~reader.failed /\ reader.pc # "idle"
    /\ reader.stay = In(Matches) /\ reader.changed = {}

\* The others on a page beside the reader's own.
Others(page) ==
    LET own    == Cardinality(In({"own"}))
        others == In({"listed"})
        skip   == Skip(request.size, page, own)
    IN  {i \in others : skip < Place(others, i) /\ Place(others, i) <= skip + (request.size - own)}

\* Where own comments come first: what a request holds of them and of the others,
\* and what the first two requests brought.
OwnFirst ==
    LET own    == In({"own"})
        others == In({"listed"})
        room   == request.size - Cardinality(own)
    IN  Quiet =>
        /\ reader.todo \in {<<"page", "count">>, <<"count">>} => reader.answer.own = own
        /\ Turned(1) => own \subseteq reader.seen
        /\ Cardinality(own) < request.size =>
             /\ reader.todo = <<"count">> => reader.answer.items = Others(reader.page)
             /\ Turned(1) => SeenTo(others, room)
             /\ Turned(2) => SeenTo(others, 2 * room)
             /\ reader.pc = "done" /\ reader.page = 1 => Cardinality(others) <= room

IInv == TypeOK /\ Phases /\ Remembered /\ Once /\ Unseen /\ OwnFirst /\ NothingMissed

-----------------------------------------------------------------------------
(* The listings and their plans *)

LEMMA ListsKnown ==
    ASSUME NEW r \in Requests
    PROVE  /\ r.size \in Sizes /\ r.sort \in Sorts /\ r.list.own \in BOOLEAN
           /\ Matches \subseteq r.list.counted
           /\ ~r.list.own => r.list.plans \subseteq {<<"count", "page">>, <<"page", "count">>}
           /\ r.list.own => /\ r.list.plans = {<<"own", "page", "count">>}
                            /\ ~r.list.enters /\ r.list.counted = Matches
<1> DEFINE Known(l) ==
      /\ l.own \in BOOLEAN
      /\ Matches \subseteq l.counted
      /\ ~l.own => l.plans \subseteq {<<"count", "page">>, <<"page", "count">>}
      /\ l.own => /\ l.plans = {<<"own", "page", "count">>}
                  /\ ~l.enters /\ l.counted = Matches
<1>1. \A l : \A sorts \in SUBSET Sorts : \A q \in Asked(l, sorts) :
        q.list = l /\ q.size \in Sizes /\ q.sort \in Sorts
  BY DEF Asked
<1>2. \A leaves, enters \in BOOLEAN : /\ Known(Listing(CountFirst, leaves, enters))
                                      /\ Known(Listing(PageFirst, leaves, enters))
  BY DEF Listing, CountFirst, PageFirst
<1>3. Known([Listing(CountFirst, FALSE, TRUE) EXCEPT !.loud = TRUE])
  BY DEF Listing, CountFirst
<1>4. Known([Listing({<<"own", "page", "count">>}, TRUE, FALSE) EXCEPT !.own = TRUE])
  BY DEF Listing
<1>5. Known([Listing(CountFirst \cup PageFirst, TRUE, FALSE)
               EXCEPT !.counted = Matches \cup {"other"}, !.loud = TRUE])
  BY DEF Listing, CountFirst, PageFirst
<1> HIDE DEF Known
<1>6. CASE r \in CommentsForUser  BY <1>1, <1>4, <1>6 DEF CommentsForUser, Known, Sorts, Dates
<1>7. CASE r \in PostImages  BY <1>1, <1>5, <1>7 DEF PostImages, Known, Sorts
<1>8. CASE r \in MyPayments  BY <1>1, <1>3, <1>8 DEF MyPayments, Known, Sorts
<1>9. CASE r \in CommentsOfPost \cup AllPayments \cup PaymentsOfBuyers \cup PaymentsOfUser
  <2>1. PICK leaves, enters \in BOOLEAN, sorts \in SUBSET Sorts :
          r \in Asked(Listing(PageFirst, leaves, enters), sorts)
    BY <1>9 DEF CommentsOfPost, AllPayments, PaymentsOfBuyers, PaymentsOfUser, Sorts, Dates
  <2>2. /\ r.list = Listing(PageFirst, leaves, enters)
        /\ r.size \in Sizes /\ r.sort \in Sorts
    BY <1>1, <2>1
  <2>3. Known(r.list)  BY <1>2, <2>2
  <2> QED  BY <2>2, <2>3 DEF Known
<1>10. CASE r \in RepliesToComment \cup PostsOfUser \cup PublicPosts \cup PostsForAdmin
                    \cup UsersForAdmin \cup MyNotifications
  <2>1. PICK leaves, enters \in BOOLEAN, sorts \in SUBSET Sorts :
          r \in Asked(Listing(CountFirst, leaves, enters), sorts)
    BY <1>10 DEF RepliesToComment, PostsOfUser, PublicPosts, PostsForAdmin, UsersForAdmin,
       MyNotifications, Sorts, Dates
  <2>2. /\ r.list = Listing(CountFirst, leaves, enters)
        /\ r.size \in Sizes /\ r.sort \in Sorts
    BY <1>1, <2>1
  <2>3. Known(r.list)  BY <1>2, <2>2
  <2> QED  BY <2>2, <2>3 DEF Known
<1> QED  BY <1>6, <1>7, <1>8, <1>9, <1>10 DEF Requests

LEMMA PlansUnfold ==
    /\ Head(<<"page">>) = "page" /\ Tail(<<"page">>) = <<>>
    /\ Head(<<"count">>) = "count" /\ Tail(<<"count">>) = <<>>
    /\ Head(<<"count", "page">>) = "count" /\ Tail(<<"count", "page">>) = <<"page">>
    /\ Head(<<"page", "count">>) = "page" /\ Tail(<<"page", "count">>) = <<"count">>
    /\ Head(<<"own", "page", "count">>) = "own"
    /\ Tail(<<"own", "page", "count">>) = <<"page", "count">>
OBVIOUS

LEMMA PlansDiffer ==
    /\ <<>> # <<"page">> /\ <<>> # <<"count">> /\ <<"page">> # <<"count">>
    /\ \A q, r \in {"own", "page", "count"} :
         /\ <<q, r>> # <<>> /\ \A p \in {"own", "page", "count"} : <<q, r>> # <<p>>
         /\ \A p \in {"own", "page", "count"} : <<p, q, r>> # <<>>
         /\ \A p, o \in {"own", "page", "count"} : <<p, q, r>> # <<o>>
         /\ \A p, o, n \in {"own", "page", "count"} : <<p, q, r>> # <<n, o>>
OBVIOUS

-----------------------------------------------------------------------------
(* Arithmetic of pages *)

LEMMA Products ==
    \A n, p \in Nat : /\ n * p \in Nat /\ n * (p + 1) = n * p + n
                      /\ p >= 1 => n * (p - 1) \in Nat /\ n * (p - 1) + n = n * p
                      /\ n * 0 = 0 /\ n * 1 = n
OBVIOUS

LEMMA PagesSuffice ==
    \A t \in Nat, n \in Nat \ {0}, p \in Nat : p >= PagesCount(t, n) => t <= n * p
<1> SUFFICES ASSUME NEW t \in Nat, NEW n \in Nat \ {0}, NEW p \in Nat, p >= PagesCount(t, n)
    PROVE  t <= n * p
  OBVIOUS
<1>1. PICK q \in Int : q = PagesCount(t, n)  BY DEF PagesCount
<1>2. t + n - 1 < n * (q + 1)  BY <1>1 DEF PagesCount
<1>3. n * (q + 1) = n * q + n  OBVIOUS
<1>4. n * p >= n * q  BY <1>1
<1> QED  BY <1>2, <1>3, <1>4

-----------------------------------------------------------------------------
(* The rows change *)

\* A change of the rows W leaves the request alone, and marks what it may do harm to.
Noted(W) ==
    /\ request' = request
    /\ reader'.pc = reader.pc /\ reader'.page = reader.page /\ reader'.todo = reader.todo
    /\ reader'.answer = reader.answer /\ reader'.seen = reader.seen
    /\ reader'.twice = reader.twice /\ reader'.failed = reader.failed
    /\ reader.pc = "idle" => reader' = reader
    /\ reader.pc # "idle" =>
         /\ reader'.stay = reader.stay \ W /\ reader'.changed = reader.changed \cup W
         /\ ~reader'.left => /\ ~reader.left
                             /\ \A j \in In(Matches) \ W : Before(j) \subseteq Before(j)'
         /\ ~reader'.came => /\ ~reader.came
                             /\ \A j \in In(Matches) \ W : Before(j)' \subseteq Before(j)
         /\ ~reader'.slipped =>
              /\ ~reader.slipped
              /\ reader.todo = <<"page">> => \A j \in In(Matches) \ W : Before(j)' \subseteq Before(j)
         /\ ~reader'.tied => ~reader.tied /\ ~Tied'

LEMMA NotesNote ==
    ASSUME TypeOK, Phases, NEW W \in SUBSET Rows, Notes(W)
    PROVE  Noted(W) /\ reader' \in Readers
<1>1. reader \in Readers /\ request' = request  BY DEF TypeOK, Notes
<1>2. CASE reader.pc = "idle"
  <2>1. reader' = reader  BY <1>2 DEF Notes
  <2> QED  BY <1>1, <1>2, <2>1 DEF Noted
<1>3. CASE reader.pc # "idle"
  <2> DEFINE came == \E j \in In(Matches) \ W : ~(Before(j)' \subseteq Before(j))
             left == \E j \in In(Matches) \ W : ~(Before(j) \subseteq Before(j)')
  <2>1. reader' = [reader EXCEPT !.stay = @ \ W, !.changed = @ \cup W,
                                 !.left = @ \/ left, !.came = @ \/ came,
                                 !.slipped = @ \/ (came /\ Counted),
                                 !.tied = @ \/ Tied', !.changes = @ + 1]
    BY <1>3, Zenon DEF Notes
  <2>2. Counted <=> reader.todo = <<"page">>  BY PlansDiffer DEF Counted, Phases
  <2>3. PICK stay, changed \in SUBSET Rows :
          stay = reader.stay \ W /\ changed = reader.changed \cup W
    BY <1>1 DEF Readers
  <2>4. PICK l, c, s, t \in BOOLEAN :
          /\ l = (reader.left \/ left) /\ c = (reader.came \/ came)
          /\ s = (reader.slipped \/ (came /\ Counted)) /\ t = (reader.tied \/ Tied')
    <3> HIDE DEF came, left
    <3> QED  BY Zenon
  <2>5. PICK n \in Nat : n = reader.changes + 1
    <3>1. reader.changes \in Nat  BY <1>1 DEF Readers
    <3> QED  BY <3>1
  <2>6. reader' = [reader EXCEPT !.stay = stay, !.changed = changed, !.left = l, !.came = c,
                                 !.slipped = s, !.tied = t, !.changes = n]
    <3> HIDE DEF came, left
    <3> QED  BY <2>1, <2>3, <2>4, <2>5, Zenon
  <2> HIDE DEF came, left
  <2>7. reader' \in Readers
    <3> DEFINE mid == [reader EXCEPT !.stay = stay, !.changed = changed, !.changes = n]
    <3>1. mid \in Readers  BY <1>1 DEF Readers
    <3>2. reader' = [mid EXCEPT !.left = l, !.came = c, !.slipped = s, !.tied = t]
      BY <1>1, <2>6 DEF Readers
    <3> HIDE DEF mid
    <3> QED  BY <3>1, <3>2 DEF Readers
  <2>8. /\ reader'.pc = reader.pc /\ reader'.page = reader.page /\ reader'.todo = reader.todo
        /\ reader'.answer = reader.answer /\ reader'.seen = reader.seen
        /\ reader'.twice = reader.twice /\ reader'.failed = reader.failed
        /\ reader'.stay = stay /\ reader'.changed = changed
        /\ reader'.left = l /\ reader'.came = c /\ reader'.slipped = s /\ reader'.tied = t
    BY <1>1, <2>6 DEF Readers
  <2>9. ~reader'.left => ~reader.left /\ \A j \in In(Matches) \ W : Before(j) \subseteq Before(j)'
    BY <2>4, <2>8, Zenon DEF left
  <2>10. ~reader'.came => ~reader.came /\ ~came  BY <2>4, <2>8, Zenon
  <2>11. ~reader'.slipped => ~reader.slipped /\ (reader.todo = <<"page">> => ~came)
    BY <2>2, <2>4, <2>8, Zenon
  <2>12. ~reader'.tied => ~reader.tied /\ ~Tied'  BY <2>4, <2>8, Zenon
  <2>13. ~came => \A j \in In(Matches) \ W : Before(j)' \subseteq Before(j)
    BY Zenon DEF came
  <2> QED  BY <1>1, <1>3, <2>3, <2>7, <2>8, <2>9, <2>10, <2>11, <2>12, <2>13, Zenon DEF Noted
<1> QED  BY <1>2, <1>3

RowsStep == Created \/ Left \/ Entered \/ Edited

\* The keys of new rows.
LEMMA KeysAreFresh ==
    ASSUME IInv
    PROVE  FreshKeys \subseteq Keys /\ Latest \subseteq Keys /\ Unused \subseteq Keys
<1>1. request.sort \in Sorts  BY ListsKnown DEF IInv, TypeOK
<1>2. 1 \in Keys  BY ListingsAssumption DEF Keys
<1>3. Latest \subseteq Keys /\ Unused \subseteq Keys  BY DEF Latest, Unused
<1>4. CASE request.sort \in Dates  BY <1>3, <1>4 DEF FreshKeys, Dates
<1>5. CASE request.sort \in {"name", "buyer", "shared", "same"}
  BY <1>2, <1>3, <1>5 DEF FreshKeys, Dates
<1> QED  BY <1>1, <1>3, <1>4, <1>5 DEF Sorts, Dates

\* Rows are changed that the client's history notes; and where own comments come first,
\* that is always to be seen.
LEMMA RowsMove ==
    ASSUME IInv, RowsStep
    PROVE  \E W \in SUBSET Rows :
             /\ Noted(W) /\ reader' \in Readers
             /\ row' \in [Rows -> RowStates] /\ KeysOK'
             /\ \A i \in Rows : row[i] # "unborn" => row'[i] # "unborn"
             /\ \A i \in Rows \ W : row[i] # "unborn" => row'[i] = row[i]
             /\ request.list.own /\ reader.pc # "idle" =>
                  ~(reader'.changed = {} /\ reader'.stay = In(Matches)')
<1>1. /\ row \in [Rows -> RowStates] /\ key \in [Rows -> Keys] /\ reader \in Readers
      /\ TypeOK /\ Phases
  BY DEF IInv, TypeOK, KeysOK
<1>2. CASE Created
  <2>1. PICK i \in Rows, s \in RowStates \ {"unborn", "gone"}, k \in FreshKeys :
          /\ row[i] = "unborn"
          /\ s = "other" => request.list.enters \/ "other" \in request.list.counted
          /\ row' = [row EXCEPT ![i] = s]
          /\ key' = [key EXCEPT ![i] = k]
          /\ Notes({})
    BY <1>2 DEF Created
  <2>2. Noted({}) /\ reader' \in Readers  BY <1>1, <2>1, NotesNote
  <2>3. row' \in [Rows -> RowStates]  BY <1>1, <2>1
  <2>4. KeysOK'  BY <1>1, <2>1, KeysAreFresh DEF KeysOK
  <2>5. /\ \A j \in Rows : row[j] # "unborn" => row'[j] = row[j]
        /\ \A j \in Rows : row[j] # "unborn" => row'[j] # "unborn"
    BY <1>1, <2>1
  <2>6. ASSUME request.list.own, reader.pc # "idle", reader'.stay = In(Matches)' PROVE FALSE
    <3>1. ~request.list.enters /\ request.list.counted = Matches
      BY <2>6, ListsKnown DEF IInv, TypeOK
    <3>2. s \in Matches  BY <2>1, <3>1 DEF RowStates, Matches
    <3>3. i \in In(Matches)'  BY <1>1, <2>1, <3>2 DEF In
    <3>4. i \notin In(Matches)  BY <2>1 DEF In, Matches
    <3>5. reader'.stay \subseteq In(Matches)  BY <2>2, <2>6 DEF Noted, IInv, Remembered
    <3> QED  BY <2>6, <3>3, <3>4, <3>5
  <2> QED  BY <2>2, <2>3, <2>4, <2>5, <2>6
<1>3. CASE Left
  <2>1. PICK W \in SUBSET In(Matches), s \in {"gone", "other"} :
          /\ W # {} /\ row' = [i \in Rows |-> IF i \in W THEN s ELSE row[i]]
          /\ key' = key /\ Notes(W)
    BY <1>3 DEF Left
  <2>2. W \in SUBSET Rows  BY DEF In
  <2>3. Noted(W) /\ reader' \in Readers  BY <1>1, <2>1, <2>2, NotesNote
  <2>4. row' \in [Rows -> RowStates]  BY <1>1, <2>1 DEF RowStates
  <2>5. KeysOK'  BY <1>1, <2>1 DEF KeysOK
  <2>6. /\ \A i \in Rows \ W : row'[i] = row[i]
        /\ \A i \in Rows : row[i] # "unborn" => row'[i] # "unborn"
    BY <1>1, <2>1
  <2>7. reader.pc # "idle" => reader'.changed # {}  BY <2>1, <2>3 DEF Noted
  <2> QED  BY <2>2, <2>3, <2>4, <2>5, <2>6, <2>7
<1>4. CASE Entered
  <2>1. PICK W \in SUBSET In({"other"}) :
          /\ request.list.enters /\ row' = [i \in Rows |-> IF i \in W THEN "listed" ELSE row[i]]
          /\ key' = key /\ Notes(W)
    BY <1>4 DEF Entered
  <2>2. W \in SUBSET Rows  BY DEF In
  <2>3. Noted(W) /\ reader' \in Readers  BY <1>1, <2>1, <2>2, NotesNote
  <2>4. row' \in [Rows -> RowStates]  BY <1>1, <2>1 DEF RowStates, Matches
  <2>5. KeysOK'  BY <1>1, <2>1 DEF KeysOK
  <2>6. /\ \A i \in Rows \ W : row'[i] = row[i]
        /\ \A i \in Rows : row[i] # "unborn" => row'[i] # "unborn"
    BY <1>1, <2>1
  <2>7. ~request.list.own  BY <2>1, ListsKnown DEF IInv, TypeOK
  <2> QED  BY <2>2, <2>3, <2>4, <2>5, <2>6, <2>7
<1>5. CASE Edited
  <2>1. PICK i \in Live, k \in IF request.sort = "updatedAt" THEN Latest ELSE Unused :
          LET W == IF request.sort = "buyer" THEN {j \in Live : key[j] = key[i]} ELSE {i}
          IN  /\ key' = [j \in Rows |-> IF j \in W THEN k ELSE key[j]]
              /\ row' = row /\ Notes(W)
    BY <1>5, Zenon DEF Edited
  <2>2. PICK W : W = IF request.sort = "buyer" THEN {j \in Live : key[j] = key[i]} ELSE {i}
    OBVIOUS
  <2>3. W \in SUBSET Rows /\ i \in W /\ k \in Keys  BY <2>2, KeysAreFresh DEF Live
  <2>4. /\ key' = [j \in Rows |-> IF j \in W THEN k ELSE key[j]]
        /\ row' = row /\ Notes(W)
    BY <2>1, <2>2
  <2>5. Noted(W) /\ reader' \in Readers  BY <1>1, <2>3, <2>4, NotesNote
  <2>6. KeysOK'  BY <1>1, <2>3, <2>4 DEF KeysOK
  <2>7. reader.pc # "idle" => reader'.changed # {}  BY <2>3, <2>5 DEF Noted
  <2> QED  BY <1>1, <2>3, <2>4, <2>5, <2>6, <2>7
<1> QED  BY <1>2, <1>3, <1>4, <1>5 DEF RowsStep

LEMMA ReaderNumbers ==
    ASSUME TypeOK
    PROVE  /\ request.size \in Nat /\ request.size >= 1
           /\ reader.page \in Nat /\ reader.page >= 1
<1>1. request.size \in Sizes /\ reader.page \in Nat \ {0}  BY ListsKnown DEF TypeOK, Readers
<1>2. request.size \in Nat \ {0}  BY <1>1, ListingsAssumption, Zenon
<1>3. \A n \in Nat \ {0} : n \in Nat /\ n >= 1  OBVIOUS
<1> QED  BY <1>1, <1>2, <1>3

\* A row's place is one more than the number of those before it.
LEMMA Places ==
    /\ \A i \in In(Matches) : Place(In(Matches), i) = Cardinality(Before(i) \cup {i})
    /\ \A i \in In(Matches)' : Place(In(Matches), i)' = Cardinality(Before(i)' \cup {i})
<1>1. ASSUME NEW i \in In(Matches)
      PROVE  Place(In(Matches), i) = Cardinality(Before(i) \cup {i})
  <2>1. {j \in In(Matches) : j = i \/ Ahead(j, i)} = Before(i) \cup {i}  BY DEF Before
  <2> QED  BY <2>1 DEF Place
<1>2. ASSUME NEW i \in In(Matches)'
      PROVE  Place(In(Matches), i)' = Cardinality(Before(i)' \cup {i})
  <2>1. {j \in In(Matches)' : j = i \/ Ahead(j, i)'} = Before(i)' \cup {i}  BY DEF Before
  <2> QED  BY <2>1 DEF Place
<1> QED  BY <1>1, <1>2

\* A row keeps a place as late while it has all those before it that it had, and one as
\* early while it has no others.
LEMMA PlacesMove ==
    ASSUME NEW i \in In(Matches), i \in In(Matches)'
    PROVE  /\ Place(In(Matches), i) \in Nat /\ Place(In(Matches), i)' \in Nat
           /\ Before(i) \subseteq Before(i)' =>
                Place(In(Matches), i) <= Place(In(Matches), i)'
           /\ Before(i)' \subseteq Before(i) =>
                Place(In(Matches), i)' <= Place(In(Matches), i)
<1>1. PICK A, B : A = Before(i) \cup {i} /\ B = Before(i)' \cup {i}  OBVIOUS
<1>2. A \subseteq Rows /\ B \subseteq Rows  BY <1>1 DEF Before, In
<1>3. Place(In(Matches), i) = Cardinality(A) /\ Place(In(Matches), i)' = Cardinality(B)
  BY <1>1, Places
<1>4. /\ Before(i) \subseteq Before(i)' => A \subseteq B
      /\ Before(i)' \subseteq Before(i) => B \subseteq A
  BY <1>1
<1> QED  BY <1>2, <1>3, <1>4, RowsAreFinite

\* While no row loses one before it, places only grow; while none gets one, those of the
\* rows that were there only shrink.
LEMMA RowsKeep ==
    ASSUME IInv, RowsStep
    PROVE  IInv'
<1>1. PICK W \in SUBSET Rows :
        /\ Noted(W) /\ reader' \in Readers
        /\ row' \in [Rows -> RowStates] /\ KeysOK'
        /\ \A i \in Rows : row[i] # "unborn" => row'[i] # "unborn"
        /\ \A i \in Rows \ W : row[i] # "unborn" => row'[i] = row[i]
        /\ request.list.own /\ reader.pc # "idle" =>
             ~(reader'.changed = {} /\ reader'.stay = In(Matches)')
  BY RowsMove, Zenon
<1>2. TypeOK /\ TypeOK'  BY <1>1 DEF IInv, TypeOK, Noted
<1>3. \A i \in In(Matches) \ W : i \in In(Matches)' /\ i \in In(Matches)
  <2> SUFFICES ASSUME NEW i \in Rows \ W, row[i] \in Matches PROVE row'[i] \in Matches
    BY DEF In
  <2>1. row[i] # "unborn"  BY DEF Matches
  <2> QED  BY <1>1, <2>1
<1>4. \A i \in Rows \ W : row[i] # "unborn" /\ row'[i] \in Matches => i \in In(Matches)
  BY <1>1 DEF In
<1>5. ASSUME \A j \in In(Matches) \ W : Before(j) \subseteq Before(j)', NEW i \in In(Matches) \ W
      PROVE  /\ Place(In(Matches), i) \in Nat /\ Place(In(Matches), i)' \in Nat
             /\ Place(In(Matches), i) <= Place(In(Matches), i)'
  BY <1>3, <1>5, PlacesMove
<1>6. ASSUME \A j \in In(Matches) \ W : Before(j)' \subseteq Before(j), NEW i \in In(Matches) \ W
      PROVE  /\ Place(In(Matches), i) \in Nat /\ Place(In(Matches), i)' \in Nat
             /\ Place(In(Matches), i)' <= Place(In(Matches), i)
  BY <1>3, <1>6, PlacesMove
<1>7. reader \in Readers /\ Read \in Int /\ Read' = Read /\ Got' = Got
      /\ Got \cup reader.answer.own \subseteq Rows
  <2>1. reader \in Readers /\ request.size \in Nat /\ reader.page \in Nat /\ reader.page >= 1
    BY <1>2, ReaderNumbers DEF TypeOK
  <2>2. Read \in Int  BY <2>1, Products DEF Read
  <2>3. Read' = Read /\ Got' = Got  BY <1>1 DEF Read, Got, Paged, Noted
  <2>4. Got \cup reader.answer.own \subseteq Rows  BY <2>1 DEF Got, Readers, Answers
  <2> QED  BY <2>1, <2>2, <2>3, <2>4
<1>8. CASE reader.pc = "idle"
  <2>1. reader' = reader /\ request' = request  BY <1>1, <1>8 DEF Noted
  <2>2. Phases'  BY <1>8, <2>1 DEF IInv, Phases
  <2>3. Got = {} /\ reader.stay = {} /\ ~reader.twice /\ reader.todo = <<>>
    BY <1>8, PlansDiffer DEF IInv, Phases, Got
  <2>4. reader.answer.items = {}  BY <2>3 DEF Got
  <2>5. Remembered'  BY <1>1, <1>7, <2>1, <2>3 DEF IInv, Remembered
  <2>6. Once'  BY <1>7, <2>1, <2>3, <2>4 DEF Once
  <2>7. Unseen'  BY <1>7, <2>1, <2>3, PlansDiffer DEF Unseen
  <2>8. OwnFirst' /\ NothingMissed'  BY <1>8, <2>1 DEF OwnFirst, Quiet, NothingMissed
  <2> QED  BY <1>2, <2>2, <2>5, <2>6, <2>7, <2>8 DEF IInv
<1>9. CASE reader.pc # "idle"
  <2>1. /\ reader'.stay = reader.stay \ W /\ reader'.changed = reader.changed \cup W
        /\ ~reader'.left => /\ ~reader.left
                            /\ \A j \in In(Matches) \ W : Before(j) \subseteq Before(j)'
        /\ ~reader'.came => /\ ~reader.came
                            /\ \A j \in In(Matches) \ W : Before(j)' \subseteq Before(j)
        /\ ~reader'.slipped =>
             /\ ~reader.slipped
             /\ reader.todo = <<"page">> => \A j \in In(Matches) \ W : Before(j)' \subseteq Before(j)
        /\ ~reader'.tied => ~reader.tied /\ ~Tied'
    BY <1>1, <1>9 DEF Noted
  <2>2. Phases'  BY <1>1, <1>9, <2>1 DEF IInv, Phases, Noted
  <2>3. Remembered'
    <3>1. \A i \in reader.stay \ W : i \in In(Matches)'  BY <1>3 DEF IInv, Remembered
    <3>2. reader'.stay \subseteq In(Matches)'  BY <2>1, <3>1
    <3>3. reader'.answer = reader.answer  BY <1>1 DEF Noted
    <3>4. \A i \in Got' \cup reader'.answer.own : row'[i] # "unborn"
      BY <1>1, <1>7, <3>3 DEF IInv, Remembered
    <3> QED  BY <3>2, <3>4 DEF Remembered
  <2>4. Once'
    <3> SUFFICES ASSUME ~request.list.own, ~reader'.came, ~reader'.tied
                 PROVE  /\ ~reader.twice
                        /\ (reader.answer.items \cap reader.seen) \ (reader.changed \cup W) = {}
                        /\ \A i \in Got \ (reader.changed \cup W) :
                             row'[i] \in Matches => Place(In(Matches), i)' <= Read
      BY <1>1, <1>7, <2>1 DEF Once, Noted
    <3>1. /\ ~reader.twice /\ (reader.answer.items \cap reader.seen) \ reader.changed = {}
          /\ \A i \in Got \ reader.changed : row[i] \in Matches => Place(In(Matches), i) <= Read
      BY <2>1 DEF IInv, Once
    <3>2. ASSUME NEW i \in Got \ (reader.changed \cup W), row'[i] \in Matches
          PROVE  Place(In(Matches), i)' <= Read
      <4>1. i \in In(Matches) \ W
        <5>1. i \in Rows \ W /\ row[i] # "unborn"  BY <1>7, <3>2 DEF IInv, Remembered
        <5> QED  BY <1>4, <3>2, <5>1
      <4>2. /\ Place(In(Matches), i) \in Nat /\ Place(In(Matches), i)' \in Nat
            /\ Place(In(Matches), i)' <= Place(In(Matches), i)
        BY <1>6, <2>1, <4>1
      <4>3. Place(In(Matches), i) <= Read  BY <3>1, <3>2, <4>1 DEF In
      <4> QED  BY <1>7, <4>2, <4>3
    <3> QED  BY <3>1, <3>2
  <2>5. Unseen'
    <3> SUFFICES ASSUME ~request.list.own, ~reader'.left, ~reader'.tied, ~reader.failed
                 PROVE  /\ \A i \in (reader.stay \ W) \ Got : Place(In(Matches), i)' > Read
                        /\ reader.todo = <<"page">> /\ ~reader'.slipped =>
                             \A i \in (reader.stay \ W) \ reader.seen :
                               Place(In(Matches), i)' <= reader.answer.total
                        /\ reader.todo = <<"count">> /\ reader.answer.items = {}
                             => reader.stay \ W \subseteq reader.seen
      BY <1>1, <1>7, <2>1 DEF Unseen, Noted
    <3>1. reader.stay \ W \subseteq In(Matches) \ W  BY DEF IInv, Remembered
    <3>2. /\ \A i \in reader.stay \ Got : Place(In(Matches), i) > Read
          /\ reader.todo = <<"page">> /\ ~reader.slipped =>
               \A i \in reader.stay \ reader.seen : Place(In(Matches), i) <= reader.answer.total
          /\ reader.todo = <<"count">> /\ reader.answer.items = {}
               => reader.stay \subseteq reader.seen
      BY <2>1 DEF IInv, Unseen
    <3>3. ASSUME NEW i \in (reader.stay \ W) \ Got PROVE Place(In(Matches), i)' > Read
      <4>1. i \in In(Matches) \ W  BY <3>1
      <4>2. /\ Place(In(Matches), i) \in Nat /\ Place(In(Matches), i)' \in Nat
            /\ Place(In(Matches), i) <= Place(In(Matches), i)'
        BY <1>5, <2>1, <4>1
      <4> QED  BY <1>7, <3>2, <4>2
    <3>4. ASSUME reader.todo = <<"page">>, ~reader'.slipped,
                 NEW i \in (reader.stay \ W) \ reader.seen
          PROVE  Place(In(Matches), i)' <= reader.answer.total
      <4>1. i \in In(Matches) \ W  BY <3>1
      <4>2. reader.answer.total \in Int  BY <1>7 DEF Readers, Answers
      <4>3. /\ Place(In(Matches), i) \in Nat /\ Place(In(Matches), i)' \in Nat
            /\ Place(In(Matches), i)' <= Place(In(Matches), i)
        BY <1>6, <2>1, <3>4, <4>1
      <4> QED  BY <2>1, <3>2, <3>4, <4>2, <4>3
    <3> QED  BY <3>2, <3>3, <3>4
  <2>6. OwnFirst'
    <3>1. ~Quiet'  BY <1>1, <1>9 DEF Quiet, Noted
    <3> QED  BY <3>1 DEF OwnFirst
  <2>7. NothingMissed'
    BY <1>1, <2>1 DEF IInv, NothingMissed, Noted
  <2> QED  BY <1>2, <2>2, <2>3, <2>4, <2>5, <2>6, <2>7 DEF IInv
<1> QED  BY <1>8, <1>9

-----------------------------------------------------------------------------
(* The reader goes on *)

\* What the reader's own steps leave alone.
Steady ==
    /\ row' = row /\ key' = key /\ request' = request
    /\ reader'.left = reader.left /\ reader'.came = reader.came
    /\ reader'.slipped = reader.slipped /\ reader'.changed = reader.changed

LEMMA SteadyPlaces ==
    ASSUME Steady
    PROVE  /\ \A U : In(U)' = In(U)
           /\ \A U, i : Place(U, i)' = Place(U, i)
           /\ Tied' <=> Tied
           /\ \A n : Others(n)' = Others(n)
           /\ \A U : Cardinality(In(U))' = Cardinality(In(U))
<1>1. \A U : In(U)' = In(U)  BY DEF Steady, In
<1>2. \A U, i : Place(U, i)' = Place(U, i)  BY DEF Steady, Place, Ahead
<1>3. Tied' <=> Tied  BY <1>1 DEF Steady, Tied
<1>4. \A n : Others(n)' = Others(n)  BY <1>1, <1>2 DEF Steady, Others, Skip
<1> QED  BY <1>1, <1>2, <1>3, <1>4

\* A new request knows nothing yet.
LEMMA AskKeeps ==
    ASSUME IInv, Begin \/ NextPage
    PROVE  IInv'
<1>1. reader \in Readers /\ row' = row /\ key' = key /\ request' = request
  BY DEF IInv, TypeOK, Begin, NextPage
<1>2. PICK plan \in request.list.plans :
        \/ reader.pc = "idle" /\ reader' = [reader EXCEPT !.pc = "asked", !.todo = plan,
                                                          !.stay = In(Matches), !.tied = Tied]
        \/ reader.pc = "answered" /\ reader' = [reader EXCEPT !.pc = "asked", !.todo = plan,
                                                              !.page = @ + 1]
  BY DEF Begin, NextPage
<1>3. plan \in IF request.list.own THEN {<<"own", "page", "count">>}
                                   ELSE {<<"count", "page">>, <<"page", "count">>}
  <2>1. request \in Requests  BY DEF IInv, TypeOK
  <2> QED  BY <1>2, <2>1, ListsKnown
<1>4. /\ request.size \in Nat /\ request.size >= 1 /\ reader.page \in Nat /\ reader.page >= 1
      /\ reader.page + 1 \in Nat \ {0} /\ reader.page \in Nat \ {0}
  <2>1. TypeOK  BY DEF IInv
  <2>2. \A n \in Nat : n >= 1 => n + 1 \in Nat \ {0} /\ n \in Nat \ {0}  OBVIOUS
  <2> QED  BY <2>1, <2>2, ReaderNumbers
<1>5. plan # <<>> /\ plan # <<"page">> /\ plan # <<"count">>  BY <1>3, PlansDiffer
<1>6. /\ Steady /\ reader'.pc = "asked" /\ reader'.todo = plan
      /\ reader'.answer = reader.answer /\ reader'.seen = reader.seen
      /\ reader'.twice = reader.twice /\ reader'.failed = reader.failed
      /\ reader' \in Readers /\ reader'.page \in Nat \ {0}
      /\ reader.pc = "idle" => /\ reader'.page = 1 /\ reader'.stay = In(Matches)
                               /\ ~reader'.tied => ~Tied
      /\ reader.pc = "answered" => /\ reader'.page = reader.page + 1
                                   /\ reader'.stay = reader.stay /\ reader'.tied = reader.tied
  <2>1. plan \in Plans \cup OwnPlans  BY <1>3 DEF Plans, OwnPlans
  <2>2. CASE reader.pc = "idle"
    <3>1. PICK S \in SUBSET Rows : S = In(Matches)  BY DEF In
    <3>2. PICK t \in BOOLEAN : t = Tied
      <4>1. Tied \in BOOLEAN  BY Zenon DEF Tied
      <4> QED  BY <4>1
    <3>3. reader' = [reader EXCEPT !.pc = "asked", !.todo = plan, !.stay = S, !.tied = t]
      BY <1>2, <2>2, <3>1, <3>2
    <3>4. reader.page = 1  BY <2>2 DEF IInv, Phases
    <3>5. reader' \in Readers  BY <1>1, <2>1, <3>3 DEF Readers
    <3>6. /\ reader'.pc = "asked" /\ reader'.todo = plan /\ reader'.tied = t
          /\ reader'.answer = reader.answer /\ reader'.seen = reader.seen
          /\ reader'.twice = reader.twice /\ reader'.failed = reader.failed
          /\ reader'.page = reader.page /\ reader'.stay = S /\ Steady
      BY <1>1, <3>3 DEF Steady, Readers
    <3>7. ~reader'.tied => ~Tied
      <4>1. ASSUME Tied PROVE t = TRUE
        <5>1. Tied = TRUE  BY <4>1
        <5> QED  BY <3>2, <5>1, Zenon
      <4> QED  BY <3>6, <4>1
    <3> QED  BY <1>4, <2>2, <3>1, <3>4, <3>5, <3>6, <3>7
  <2>3. CASE reader.pc = "answered"
    <3>1. PICK p \in Nat \ {0} : p = reader.page + 1  BY <1>4
    <3>2. reader' = [reader EXCEPT !.pc = "asked", !.todo = plan, !.page = p]
      BY <1>2, <2>3, <3>1
    <3>3. reader' \in Readers  BY <1>1, <2>1, <3>2 DEF Readers
    <3> QED  BY <1>1, <2>3, <3>1, <3>2, <3>3 DEF Steady, Readers
  <2> QED  BY <1>2, <2>2, <2>3
<1>7. /\ request.size \in Nat /\ request.size >= 1 /\ reader.page \in Nat /\ reader.page >= 1
      /\ reader'.page \in Nat \ {0}
      /\ reader.pc = "idle" => reader'.page = 1 /\ reader'.stay = In(Matches)
      /\ reader.pc = "answered" => /\ reader'.page = reader.page + 1
                                   /\ reader'.stay = reader.stay /\ reader'.tied = reader.tied
  BY <1>4, <1>6
<1>8. reader.answer.items = {} /\ ~(reader.todo = <<"count">>)
  BY <1>2, PlansDiffer DEF IInv, Phases
<1>9. Got' = Got  BY <1>6 DEF Got
<1>10. TypeOK'  BY <1>1, <1>6 DEF IInv, TypeOK, KeysOK
<1>11. Phases'
  <2>1. plan \in IF request.list.own THEN OwnPlans ELSE Plans
    BY <1>3 DEF Plans, OwnPlans
  <2>2. ~reader'.tied => ~Tied'
    BY <1>2, <1>6, SteadyPlaces DEF IInv, Phases
  <2>3. ~reader.failed  BY <1>2 DEF IInv, Phases
  <2> QED  BY <1>5, <1>6, <1>8, <2>1, <2>2, <2>3 DEF IInv, Phases, Steady
<1>12. Remembered'
  BY <1>1, <1>2, <1>7, <1>9, SteadyPlaces, <1>6 DEF IInv, Remembered
<1>13. Read' = Read /\ Read \in Int /\ (reader.pc = "idle" => Read = 0)
  <2>1. ~Paged'  BY <1>5, <1>6 DEF Paged
  <2>2. Read' = request.size * (reader'.page - 1)  BY <1>6, <2>1 DEF Read, Steady
  <2>3. CASE reader.pc = "idle"
    <3>1. ~Paged /\ reader.page = 1  BY <1>8, <2>3 DEF Paged, IInv, Phases
    <3> QED  BY <1>7, <2>2, <2>3, <3>1, Products DEF Read
  <2>4. CASE reader.pc = "answered"
    <3>1. Paged  BY <2>4 DEF Paged
    <3> QED  BY <1>7, <2>2, <2>4, <3>1, Products DEF Read
  <2> QED  BY <1>2, <2>3, <2>4
<1>14. Once'
  <2>1. CASE reader.pc = "idle"
    <3>1. Got = {} /\ ~reader.twice  BY <1>8, <2>1 DEF IInv, Phases, Got
    <3> QED  BY <1>6, <1>8, <1>9, <3>1 DEF Once
  <2>2. CASE reader.pc = "answered"
    BY <1>6, <1>7, <1>8, <1>9, <1>13, <2>2, SteadyPlaces DEF IInv, Once, Steady
  <2> QED  BY <1>2, <2>1, <2>2
<1>15. Unseen'
  <2>1. CASE reader.pc = "idle"
    <3>1. Got = {}  BY <1>8, <2>1 DEF IInv, Phases, Got
    <3>2. \A i \in In(Matches) : Place(In(Matches), i) > 0
      <4>1. In(Matches) \subseteq Rows  BY DEF In
      <4> QED  BY <4>1, PlaceBounds
    <3> QED  BY <1>5, <1>6, <1>7, <1>9, <1>13, <2>1, <3>1, <3>2, SteadyPlaces DEF Unseen
  <2>2. CASE reader.pc = "answered"
    BY <1>5, <1>6, <1>7, <1>9, <1>13, <2>2, SteadyPlaces DEF IInv, Unseen, Steady
  <2> QED  BY <1>2, <2>1, <2>2
<1>16. OwnFirst'
  <2>1. request.list.own => plan = <<"own", "page", "count">>  BY <1>3
  <2>2. plan = <<"own", "page", "count">> => plan \notin {<<"page", "count">>, <<"count">>}
    BY PlansDiffer
  <2>3. CASE reader.pc = "idle"
    <3>1. ~Turned(1)' /\ ~Turned(2)'  BY <1>6, <1>7, <2>3 DEF Turned
    <3> QED  BY <1>6, <2>1, <2>2, <3>1 DEF OwnFirst, Quiet, Steady
  <2>4. CASE reader.pc = "answered"
    <3>1. Turned(1) /\ (Turned(2)' => Turned(2))  BY <1>6, <1>7, <2>4 DEF Turned
    <3>2. \A S, n : SeenTo(S, n)' <=> SeenTo(S, n)  BY <1>6, SteadyPlaces DEF SeenTo
    <3>3. Quiet' => Quiet  BY <1>6, <2>4, SteadyPlaces DEF Quiet, Steady
    <3> QED
      BY <1>6, <2>1, <2>2, <2>4, <3>1, <3>2, <3>3, SteadyPlaces DEF IInv, OwnFirst, Quiet, Steady
  <2> QED  BY <1>2, <2>3, <2>4
<1>17. NothingMissed'  BY <1>6 DEF NothingMissed
<1> QED  BY <1>10, <1>11, <1>12, <1>14, <1>15, <1>16, <1>17 DEF IInv

\* A failed query ends the reading: nothing more is claimed of what was not seen.
LEMMA FailKeeps ==
    ASSUME IInv, QueryFails
    PROVE  IInv'
<1>1. /\ TypeOK /\ reader \in Readers /\ reader.pc = "asked"
      /\ row' = row /\ key' = key /\ request' = request
      /\ reader' = [reader EXCEPT !.pc = "done", !.todo = <<>>, !.answer = NoPage, !.failed = TRUE]
  BY DEF IInv, TypeOK, QueryFails
<1>2. /\ reader' \in Readers /\ Steady
      /\ reader'.pc = "done" /\ reader'.todo = <<>> /\ reader'.answer = NoPage /\ reader'.failed
      /\ reader'.page = reader.page /\ reader'.seen = reader.seen /\ reader'.twice = reader.twice
      /\ reader'.stay = reader.stay /\ reader'.tied = reader.tied
  <2>1. <<>> \in Plans \cup OwnPlans /\ NoPage \in Answers  BY DEF Plans, OwnPlans, NoPage, Answers
  <2> QED  BY <1>1, <2>1 DEF Readers, Steady
<1>3. TypeOK'  BY <1>1, <1>2 DEF TypeOK, KeysOK
<1>4. Phases'
  BY <1>1, <1>2, SteadyPlaces DEF IInv, Phases, NoPage, Plans, OwnPlans
<1>5. Got' \subseteq Got /\ Got' = reader.seen /\ reader'.answer.own = {} /\ reader'.answer.items = {}
  BY <1>2 DEF Got, NoPage
<1>6. Remembered'  BY <1>1, <1>2, <1>5, SteadyPlaces DEF IInv, Remembered
<1>7. Read \in Int /\ Read' \in Int /\ Read <= Read'
  <2>1. /\ request.size \in Nat /\ reader.page \in Nat
        /\ request.size * (reader.page - 1) \in Nat /\ request.size * reader.page \in Nat
        /\ request.size * (reader.page - 1) + request.size = request.size * reader.page
    BY <1>1, ReaderNumbers, Products
  <2>2. Read' = request.size * reader.page  BY <1>1, <1>2 DEF Read, Paged
  <2>3. Read \in {request.size * (reader.page - 1), request.size * reader.page}  BY DEF Read
  <2> QED  BY <2>1, <2>2, <2>3
<1>8. Once'
  <2> SUFFICES ASSUME ~request.list.own, ~reader.came, ~reader.tied
               PROVE  /\ ~reader.twice
                      /\ \A i \in reader.seen \ reader.changed :
                           row[i] \in Matches => Place(In(Matches), i) <= Read'
    BY <1>1, <1>2, <1>5, SteadyPlaces DEF Once, Steady
  <2>1. /\ ~reader.twice
        /\ \A i \in reader.seen \ reader.changed :
             row[i] \in Matches => i \in In(Matches) /\ Place(In(Matches), i) <= Read
    <3>1. reader.seen \subseteq Got /\ reader.seen \subseteq Rows  BY <1>1 DEF Got, Readers
    <3> QED  BY <3>1 DEF IInv, Once, In
  <2>2. \A i \in In(Matches) : Place(In(Matches), i) \in Nat
    <3>1. In(Matches) \subseteq Rows  BY DEF In
    <3> QED  BY <3>1, PlaceBounds
  <2> QED  BY <1>7, <2>1, <2>2
<1>9. Unseen' /\ OwnFirst' /\ NothingMissed'
  BY <1>2 DEF Unseen, OwnFirst, Quiet, NothingMissed
<1> QED  BY <1>3, <1>4, <1>6, <1>8, <1>9 DEF IInv

-----------------------------------------------------------------------------
(* The queries *)

\* The queries of a request that are left.
Queries == {<<"count", "page">>, <<"page", "count">>, <<"page">>, <<"count">>,
            <<"own", "page", "count">>}

LEMMA QueriesLeft ==
    ASSUME IInv, reader.pc = "asked"
    PROVE  /\ reader.todo \in Queries
           /\ request.list.own => reader.todo \in OwnPlans \ {<<>>}
           /\ ~request.list.own => reader.todo \in Plans \ {<<>>}
<1>1. reader.todo # <<>> /\ reader.todo \in IF request.list.own THEN OwnPlans ELSE Plans
  BY DEF IInv, Phases
<1> QED  BY <1>1 DEF Queries, Plans, OwnPlans

\* What the page query asks for.
Page(tie, own) ==
    Slice(tie, Listed, Skip(request.size, reader.page, Cardinality(own)),
          request.size - Cardinality(own))

\* Each query fills in its part of the answer.
LEMMA QueriedFills ==
    ASSUME TypeOK, NEW q \in {"own", "page", "count"}, NEW a \in Answers, NEW b \in Queried(q, a)
    PROVE  /\ b \in Answers
           /\ b.own = IF q = "own" THEN In({"own"}) ELSE a.own
           /\ q # "page" => b.items = a.items
           /\ q = "page" => \E tie \in Ties : b.items = Page(tie, a.own)
           /\ b.total = IF q = "count" THEN Cardinality(In(request.list.counted)) ELSE a.total
<1>1. PICK own \in SUBSET Rows : own = In({"own"})  BY DEF In
<1>2. PICK total \in Nat : total = Cardinality(In(request.list.counted))
  <2>1. In(request.list.counted) \subseteq Rows  BY DEF In
  <2> QED  BY <2>1, RowsAreFinite
<1>3. CASE q = "own"
  <2>1. b = [a EXCEPT !.own = own]  BY <1>1, <1>3 DEF Queried
  <2> QED  BY <1>1, <1>3, <2>1 DEF Answers
<1>4. CASE q = "page"
  <2>1. PICK tie \in Ties : b = [a EXCEPT !.items = Page(tie, a.own)]
    BY <1>4 DEF Queried, Page
  <2>2. PICK items \in SUBSET Rows : items = Page(tie, a.own)
    BY DEF Page, Slice, Listed, In
  <2>3. b = [a EXCEPT !.items = items]  BY <2>1, <2>2
  <2> QED  BY <1>4, <2>2, <2>3 DEF Answers
<1>5. CASE q = "count"
  <2>1. b = [a EXCEPT !.total = total]  BY <1>2, <1>5 DEF Queried
  <2> QED  BY <1>2, <1>5, <2>1 DEF Answers
<1> QED  BY <1>3, <1>4, <1>5

\* A query that is not the last of its request leaves a to the next one.
More(a) ==
    /\ reader'.pc = "asked" /\ reader'.todo = Tail(reader.todo) /\ reader'.answer = a
    /\ reader'.seen = reader.seen /\ reader'.twice = reader.twice

\* The last one shows a.
Shown(a) ==
    /\ reader'.pc = IF Last(a) THEN "done" ELSE "answered"
    /\ reader'.todo = <<>> /\ reader'.answer = NoPage
    /\ reader'.seen = reader.seen \cup a.own \cup a.items
    /\ reader'.twice <=> reader.twice \/ (reader.seen \cap (a.own \cup a.items))
                                            \ reader.changed # {}

LEMMA QueryCases ==
    ASSUME IInv, Query
    PROVE  /\ reader.pc = "asked" /\ Steady /\ reader' \in Readers
           /\ reader'.page = reader.page /\ reader'.stay = reader.stay
           /\ reader'.tied = reader.tied /\ reader'.failed = reader.failed
           /\ \E q \in {"own", "page", "count"}, a \in Answers :
                /\ q = Head(reader.todo) /\ a \in Queried(q, reader.answer)
                /\ IF Tail(reader.todo) # <<>> THEN More(a) ELSE Shown(a)
<1>1. reader \in Readers /\ row' = row /\ key' = key /\ request' = request /\ reader.pc = "asked"
  BY DEF IInv, TypeOK, Query
<1>2. reader.todo \in Queries  BY <1>1, QueriesLeft
<1>3. /\ Head(reader.todo) \in {"own", "page", "count"}
      /\ Tail(reader.todo) \in Plans \cup OwnPlans
  BY <1>2, PlansUnfold DEF Queries, Plans, OwnPlans
<1>4. reader.answer \in Answers  BY <1>1 DEF Readers
<1>5. PICK a \in Queried(Head(reader.todo), reader.answer) :
        LET more == a.own \cup a.items
        IN  reader' = IF Tail(reader.todo) # <<>>
                      THEN [reader EXCEPT !.todo = Tail(@), !.answer = a]
                      ELSE [reader EXCEPT !.todo = <<>>, !.answer = NoPage,
                                          !.pc = IF Last(a) THEN "done" ELSE "answered",
                                          !.seen = @ \cup more,
                                          !.twice = @ \/ (reader.seen \cap more)
                                                           \ reader.changed # {}]
  BY DEF Query
<1>6. a \in Answers  BY <1>3, <1>4, QueriedFills DEF IInv
<1>7. CASE Tail(reader.todo) # <<>>
  <2>1. reader' = [reader EXCEPT !.todo = Tail(reader.todo), !.answer = a]
    BY <1>5, <1>7
  <2>2. reader' \in Readers  BY <1>1, <1>3, <1>6, <2>1 DEF Readers
  <2>3. More(a) /\ Steady /\ reader'.page = reader.page /\ reader'.stay = reader.stay
        /\ reader'.tied = reader.tied /\ reader'.failed = reader.failed
    BY <1>1, <2>1 DEF Steady, More, Readers
  <2> QED  BY <1>1, <1>3, <1>6, <1>7, <2>2, <2>3
<1>8. CASE Tail(reader.todo) = <<>>
  <2>1. PICK pc \in {"done", "answered"} : pc = IF Last(a) THEN "done" ELSE "answered"
    OBVIOUS
  <2>2. PICK S \in SUBSET Rows : S = reader.seen \cup (a.own \cup a.items)
    BY <1>1, <1>6 DEF Readers, Answers
  <2>3. PICK t \in BOOLEAN :
          t = (reader.twice \/ (reader.seen \cap (a.own \cup a.items)) \ reader.changed # {})
    BY Zenon
  <2>4. reader' = [reader EXCEPT !.todo = <<>>, !.answer = NoPage, !.pc = pc,
                                 !.seen = S, !.twice = t]
    BY <1>5, <1>8, <2>1, <2>2, <2>3
  <2>5. <<>> \in Plans \cup OwnPlans /\ NoPage \in Answers
    BY DEF Plans, OwnPlans, NoPage, Answers
  <2>6. reader' \in Readers  BY <1>1, <2>4, <2>5 DEF Readers
  <2>7. /\ reader'.todo = <<>> /\ reader'.answer = NoPage /\ reader'.pc = pc
        /\ reader'.seen = S /\ reader'.twice = t /\ reader'.page = reader.page
        /\ reader'.stay = reader.stay /\ Steady
        /\ reader'.tied = reader.tied /\ reader'.failed = reader.failed
    BY <1>1, <2>4 DEF Steady, Readers
  <2>8. Shown(a)  BY <2>1, <2>2, <2>3, <2>7 DEF Shown
  <2> QED  BY <1>1, <1>3, <1>6, <1>8, <2>6, <2>7, <2>8
<1> QED  BY <1>7, <1>8

\* Where own comments do not come first, a page has the places of its number.
PageRows ==
    {i \in In(Matches) : /\ request.size * (reader.page - 1) < Place(In(Matches), i)
                         /\ Place(In(Matches), i) <= request.size * reader.page}

LEMMA Untied ==
    ASSUME IInv, reader.pc # "idle", ~reader.tied
    PROVE  Apart(In(Matches)) /\ In(Matches) \subseteq Rows
BY DEF IInv, Phases, Tied, Apart, In

LEMMA PlainPage ==
    ASSUME IInv, ~request.list.own, reader.pc # "idle", ~reader.tied, NEW tie \in Ties
    PROVE  Page(tie, reader.answer.own) = PageRows
<1>1. Cardinality(reader.answer.own) = 0  BY FS_EmptySet DEF IInv, Phases
<1>2. TypeOK  BY DEF IInv
<1>3. /\ request.size \in Nat /\ request.size * (reader.page - 1) \in Nat
      /\ request.size * (reader.page - 1) + request.size = request.size * reader.page
  BY <1>2, ReaderNumbers, Products
<1>4. Skip(request.size, reader.page, 0) = request.size * (reader.page - 1)
  BY <1>3 DEF Skip
<1>5. ~(request.size - 0 < 0) /\ request.size - 0 = request.size  BY <1>3
<1>6. Listed = In(Matches)  BY DEF Listed
<1>7. \A m, n : Slice(tie, In(Matches), m, n) =
                  LET from == IF n < 0 THEN Cardinality(In(Matches)) - m + n ELSE m
                      to   == IF n < 0 THEN Cardinality(In(Matches)) - m ELSE m + n
                  IN  {i \in In(Matches) : from < Place(In(Matches), i) /\ Place(In(Matches), i) <= to}
  BY Untied, NoChoice
<1> QED  BY <1>1, <1>3, <1>4, <1>5, <1>6, <1>7 DEF Page, PageRows

\* A page shows rows after those of the pages before it, and all up to its end.
LEMMA PageTurns ==
    ASSUME IInv, reader.pc = "asked", ~request.list.own, reader.todo # <<"count">>, ~reader.tied
    PROVE  /\ Got = reader.seen /\ Read = request.size * (reader.page - 1)
           /\ ~reader.came =>
                /\ (PageRows \cap reader.seen) \ reader.changed = {}
                /\ \A i \in (reader.seen \cup PageRows) \ reader.changed : row[i] \in Matches =>
                     Place(In(Matches), i) <= request.size * reader.page
           /\ ~reader.left =>
                /\ \A i \in reader.stay \ (reader.seen \cup PageRows) :
                     Place(In(Matches), i) > request.size * reader.page
                /\ PageRows = {} => reader.stay \subseteq reader.seen
<1>1. TypeOK /\ KeysOK /\ reader \in Readers /\ ~reader.failed
  BY DEF IInv, TypeOK, Phases
<1>2. /\ request.size \in Nat /\ request.size >= 1
      /\ request.size * (reader.page - 1) \in Nat
      /\ request.size * (reader.page - 1) + request.size = request.size * reader.page
  BY <1>1, ReaderNumbers, Products
<1>3. Got = reader.seen /\ Read = request.size * (reader.page - 1)
  BY DEF IInv, Phases, Got, Read, Paged
<1>4. PICK S, n, m : S = In(Matches) /\ n = request.size * (reader.page - 1)
                     /\ m = request.size * reader.page
  OBVIOUS
<1>5. /\ n \in Nat /\ m \in Nat /\ n + 1 <= m /\ S \subseteq Rows /\ Apart(S)
      /\ \A i \in S : Place(S, i) \in Nat
      /\ \A i \in PageRows : i \in S /\ n < Place(S, i) /\ Place(S, i) <= m
      /\ \A i \in S : n < Place(S, i) /\ Place(S, i) <= m => i \in PageRows
      /\ \A i \in Rows : i \in S <=> row[i] \in Matches
      /\ reader.seen \subseteq Rows
  <2>1. S \subseteq Rows /\ Apart(S)  BY <1>4, Untied
  <2>2. \A i \in S : Place(S, i) \in Nat  BY <2>1, PlaceBounds
  <2>3. n \in Nat /\ m \in Nat /\ n + 1 <= m  BY <1>2, <1>4
  <2>4. reader.seen \subseteq Rows  BY <1>1 DEF Readers
  <2> QED  BY <1>4, <2>1, <2>2, <2>3, <2>4 DEF PageRows, In
<1>6. ASSUME ~reader.came
      PROVE  /\ (PageRows \cap reader.seen) \ reader.changed = {}
             /\ \A i \in (reader.seen \cup PageRows) \ reader.changed :
                  row[i] \in Matches => Place(S, i) <= m
  <2>1. \A i \in reader.seen \ reader.changed : i \in S => Place(S, i) <= n
    BY <1>3, <1>4, <1>5, <1>6 DEF IInv, Once
  <2>2. \A k \in Nat : k <= n => k <= m /\ ~(n < k)  BY <1>5
  <2> QED  BY <1>5, <2>1, <2>2
<1>7. ASSUME ~reader.left
      PROVE  /\ \A i \in reader.stay \ (reader.seen \cup PageRows) : Place(S, i) > m
             /\ PageRows = {} => reader.stay \subseteq reader.seen
  <2>1. \A i \in reader.stay \ reader.seen : i \in S /\ Place(S, i) > n
    BY <1>1, <1>3, <1>4, <1>7 DEF IInv, Unseen, Remembered
  <2>2. \A i \in reader.stay \ (reader.seen \cup PageRows) : Place(S, i) > m
    BY <1>5, <2>1
  <2>3. ASSUME PageRows = {}, NEW i \in reader.stay \ reader.seen PROVE FALSE
    <3>1. PICK j \in S : Place(S, j) = n + 1  BY <1>1, <1>5, <2>1, NoGap
    <3>2. n < Place(S, j) /\ Place(S, j) <= m  BY <1>5, <3>1
    <3> QED  BY <1>5, <2>3, <3>2
  <2> QED  BY <2>2, <2>3
<1> QED  BY <1>3, <1>4, <1>6, <1>7

\* The rows a request counts are all that match.
LEMMA CountedAll ==
    ASSUME IInv
    PROVE  /\ Cardinality(In(request.list.counted)) \in Nat
           /\ \A i \in In(Matches) :
                Place(In(Matches), i) <= Cardinality(In(request.list.counted))
<1>1. request \in Requests  BY DEF IInv, TypeOK
<1>2. In(Matches) \subseteq In(request.list.counted)  BY <1>1, ListsKnown DEF In
<1>3. In(request.list.counted) \subseteq Rows  BY DEF In
<1>4. /\ Cardinality(In(request.list.counted)) \in Nat /\ Cardinality(In(Matches)) \in Nat
      /\ Cardinality(In(Matches)) <= Cardinality(In(request.list.counted))
  BY <1>2, <1>3, RowsAreFinite
<1>5. \A i \in In(Matches) : /\ Place(In(Matches), i) \in Nat
                             /\ Place(In(Matches), i) <= Cardinality(In(Matches))
  BY <1>2, <1>3, PlaceBounds
<1> QED  BY <1>4, <1>5

\* A request whose last query says that no page follows: what was not seen would lie
\* behind the places that were read, and there are no more rows than those.
LEMMA LastPage ==
    ASSUME IInv, NEW a \in Answers, Last(a), a.own = {},
           NEW i \in Rows, Place(In(Matches), i) \in Nat,
           Place(In(Matches), i) <= a.total,
           Place(In(Matches), i) > request.size * reader.page
    PROVE  a.items = {}
<1>1. TypeOK /\ a.total \in Nat  BY DEF IInv, Answers
<1>2. /\ request.size \in Nat \ {0} /\ reader.page \in Nat
      /\ request.size * reader.page \in Nat
  <2>1. request.size \in Nat /\ request.size >= 1 /\ reader.page \in Nat
    BY <1>1, ReaderNumbers
  <2> QED  BY <2>1, Products
<1>3. ~(a.total <= request.size * reader.page)  BY <1>1, <1>2
<1>4. ~(reader.page >= PagesCount(a.total, request.size))
  BY <1>1, <1>2, <1>3, PagesSuffice
<1> QED  BY <1>4 DEF Last

\* A query keeps the types, the plan and what is remembered.
LEMMA QueryKeepsShape ==
    ASSUME IInv, Query
    PROVE  TypeOK' /\ Phases' /\ Remembered'
<1>1. /\ reader.pc = "asked" /\ Steady /\ reader' \in Readers
      /\ reader'.page = reader.page /\ reader'.stay = reader.stay
      /\ reader'.tied = reader.tied /\ reader'.failed = reader.failed
  BY QueryCases
<1>2. PICK q \in {"own", "page", "count"}, a \in Answers :
        /\ q = Head(reader.todo) /\ a \in Queried(q, reader.answer)
        /\ IF Tail(reader.todo) # <<>> THEN More(a) ELSE Shown(a)
  BY QueryCases
<1>3. TypeOK /\ reader.answer \in Answers /\ reader.todo \in Queries
  BY <1>1, QueriesLeft DEF IInv, TypeOK, Readers
<1>4. /\ q # "own" => a.own = reader.answer.own
      /\ q # "page" => a.items = reader.answer.items
      /\ a.own \cup a.items \subseteq In(Matches) \cup reader.answer.own \cup reader.answer.items
  <2>1. /\ q # "own" => a.own = reader.answer.own
        /\ q = "own" => a.own = In({"own"})
        /\ q # "page" => a.items = reader.answer.items
        /\ q = "page" => \E tie \in Ties : a.items = Page(tie, reader.answer.own)
    BY <1>2, <1>3, QueriedFills
  <2>2. In({"own"}) \subseteq In(Matches) /\ Listed \subseteq In(Matches)
    BY DEF In, Matches, Listed
  <2>3. \A tie, U : Page(tie, U) \subseteq Listed  BY DEF Page, Slice
  <2> QED  BY <2>1, <2>2, <2>3
<1>5. TypeOK'  BY <1>1, <1>3 DEF TypeOK, KeysOK, Steady
<1>6. Phases'
  <2>1. /\ reader.todo \in IF request.list.own THEN OwnPlans ELSE Plans
        /\ reader.todo # <<"count">> => reader.answer.items = {}
        /\ ~request.list.own => reader.answer.own = {}
        /\ ~reader.failed
    BY <1>1 DEF IInv, Phases
  <2>2. request'.list = request.list  BY <1>1 DEF Steady
  <2>3. ~reader'.tied => ~Tied'  BY <1>1, SteadyPlaces DEF IInv, Phases
  <2>4. CASE Tail(reader.todo) # <<>>
    <3>1. /\ reader'.pc = "asked" /\ reader'.todo = Tail(reader.todo) /\ reader'.answer = a
      BY <1>2, <2>4 DEF More
    <3>2. Tail(reader.todo) \in IF request.list.own THEN OwnPlans ELSE Plans
      BY <1>3, <2>1, PlansUnfold, PlansDiffer DEF Queries, OwnPlans, Plans
    <3>3. Tail(reader.todo) # <<"count">> => q # "page"
      BY <1>2, <1>3, <2>4, PlansUnfold, PlansDiffer DEF Queries
    <3>4. reader.todo # <<"count">>  BY <2>4, PlansUnfold
    <3>5. ~request.list.own => q # "own"
      BY <1>2, <1>3, <2>1, PlansUnfold, PlansDiffer DEF Queries, Plans
    <3> QED  BY <1>1, <1>4, <2>1, <2>2, <2>3, <2>4, <3>1, <3>2, <3>3, <3>4, <3>5 DEF Phases
  <2>5. CASE Tail(reader.todo) = <<>>
    <3>1. /\ reader'.pc \in {"done", "answered"} /\ reader'.todo = <<>>
          /\ reader'.answer = NoPage
      BY <1>2, <2>5 DEF Shown
    <3> QED  BY <1>1, <2>1, <2>2, <2>3, <3>1 DEF Phases, NoPage, OwnPlans, Plans
  <2> QED  BY <2>4, <2>5
<1>7. Remembered'
  <2>1. row' = row /\ reader'.stay = reader.stay /\ In(Matches)' = In(Matches)
    BY <1>1, SteadyPlaces DEF Steady
  <2>2. \A i \in Got : row[i] # "unborn"  BY DEF IInv, Remembered
  <2>3. \A i \in In(Matches) : row[i] # "unborn"  BY DEF In, Matches
  <2>4. \A i \in reader.answer.own : row[i] # "unborn"
    BY DEF IInv, Remembered
  <2>5. Got' \subseteq reader.seen \cup a.own \cup a.items
    BY <1>2 DEF Got, More, Shown, NoPage
  <2>6. \A i \in Got' \cup reader'.answer.own : row[i] # "unborn"
    <3>1. reader'.answer.own \subseteq a.own  BY <1>2 DEF More, Shown, NoPage
    <3> QED  BY <1>4, <2>2, <2>3, <2>4, <2>5, <3>1 DEF Got
  <2> QED  BY <2>1, <2>6 DEF IInv, Remembered
<1> QED  BY <1>5, <1>6, <1>7

\* Where the count comes first, the page is the last query; where it comes last,
\* the page is held until then.
LEMMA PlainQuery ==
    ASSUME IInv, Query, ~request.list.own
    PROVE  Once' /\ Unseen' /\ NothingMissed'
<1>1. /\ reader.pc = "asked" /\ Steady
      /\ reader'.page = reader.page /\ reader'.stay = reader.stay
      /\ reader'.tied = reader.tied /\ reader'.failed = reader.failed
  BY QueryCases
<1>2. CASE reader.tied
  BY <1>1, <1>2 DEF Once, Unseen, NothingMissed
<1>3. CASE ~reader.tied
  <2>1. PICK q \in {"own", "page", "count"}, a \in Answers :
          /\ q = Head(reader.todo) /\ a \in Queried(q, reader.answer)
          /\ IF Tail(reader.todo) # <<>> THEN More(a) ELSE Shown(a)
    BY QueryCases
  <2>2. /\ TypeOK /\ reader.answer \in Answers /\ reader.answer.own = {} /\ ~reader.failed
        /\ reader.todo \in {<<"count", "page">>, <<"page", "count">>, <<"page">>, <<"count">>}
    BY <1>1, QueriesLeft DEF IInv, TypeOK, Readers, Phases, Plans
  <2>3. PICK S, n, m, t : /\ S = In(Matches) /\ n = request.size * (reader.page - 1)
                          /\ m = request.size * reader.page
                          /\ t = Cardinality(In(request.list.counted))
    OBVIOUS
  <2>4. /\ n \in Nat /\ m \in Nat /\ n <= m
    <3>1. request.size \in Nat /\ n \in Nat /\ n + request.size = m
      BY <2>2, <2>3, ReaderNumbers, Products
    <3> QED  BY <3>1
  <2>5. /\ t \in Nat /\ S \subseteq Rows /\ reader.stay \subseteq S /\ reader.seen \subseteq Rows
        /\ \A i \in S : Place(S, i) \in Nat /\ Place(S, i) <= t
        /\ \A i \in Rows : i \in S <=> row[i] \in Matches
    <3>1. S \subseteq Rows  BY <2>3 DEF In
    <3>2. \A i \in S : Place(S, i) \in Nat  BY <3>1, PlaceBounds
    <3>3. reader.stay \subseteq S /\ reader.seen \subseteq Rows
      BY <2>3 DEF IInv, TypeOK, Remembered, Readers
    <3> QED  BY <2>3, <3>1, <3>2, <3>3, CountedAll DEF In
  <2>6. /\ In(Matches)' = S /\ \A i : Place(In(Matches), i)' = Place(S, i)
        /\ row' = row /\ ~request'.list.own /\ reader'.came = reader.came
        /\ reader'.left = reader.left /\ reader'.slipped = reader.slipped
        /\ reader'.changed = reader.changed /\ request'.size = request.size
        /\ ~reader'.tied /\ ~reader'.failed
    BY <1>1, <1>3, <2>2, <2>3, SteadyPlaces DEF Steady
  <2>7. /\ q # "own" => a.own = {}
        /\ q = "page" => a.items = PageRows
        /\ q # "page" => a.items = reader.answer.items
        /\ a.total = IF q = "count" THEN t ELSE reader.answer.total
    <3>1. /\ a.own = IF q = "own" THEN In({"own"}) ELSE reader.answer.own
          /\ q # "page" => a.items = reader.answer.items
          /\ q = "page" => \E tie \in Ties : a.items = Page(tie, reader.answer.own)
          /\ a.total = IF q = "count" THEN Cardinality(In(request.list.counted))
                                      ELSE reader.answer.total
      <4>1. TypeOK /\ reader.answer \in Answers /\ a \in Queried(q, reader.answer)
        BY <2>1, <2>2
      <4> QED  BY <4>1, QueriedFills
    <3>2. reader.pc # "idle"  BY <1>1
    <3>3. \A tie \in Ties : Page(tie, reader.answer.own) = PageRows  BY <1>3, <3>2, PlainPage
    <3> QED  BY <2>2, <2>3, <3>1, <3>3
  <2>8. ASSUME ~reader.came
        PROVE  /\ ~reader.twice /\ (reader.answer.items \cap reader.seen) \ reader.changed = {}
               /\ \A i \in Got \ reader.changed : row[i] \in Matches => Place(S, i) <= Read
    BY <1>3, <2>3, <2>8 DEF IInv, Once
  <2>9. ASSUME ~reader.left
        PROVE  /\ \A i \in reader.stay \ Got : Place(S, i) > Read
               /\ reader.todo = <<"page">> /\ ~reader.slipped =>
                    \A i \in reader.stay \ reader.seen : Place(S, i) <= reader.answer.total
               /\ reader.todo = <<"count">> /\ reader.answer.items = {} =>
                    reader.stay \subseteq reader.seen
    BY <1>3, <2>2, <2>3, <2>9 DEF IInv, Unseen
  <2>10. CASE reader.todo = <<"count", "page">>
    <3>1. More(a) /\ q = "count"  BY <2>1, <2>10, PlansUnfold, PlansDiffer
    <3>2. /\ reader'.pc = "asked" /\ reader'.todo = <<"page">> /\ reader'.seen = reader.seen
          /\ reader'.twice = reader.twice /\ reader'.answer.items = reader.answer.items
          /\ reader'.answer.total = t
      BY <2>7, <2>10, <3>1, PlansUnfold DEF More
    <3>3. Got' = Got /\ Read' = Read
      BY <1>1, <2>6, <2>10, <3>2, PlansDiffer DEF Got, Read, Paged
    <3>4. Once'  BY <2>6, <2>8, <3>2, <3>3 DEF Once
    <3>5. Unseen'  BY <1>1, <2>5, <2>6, <2>9, <3>2, <3>3, PlansDiffer DEF Unseen
    <3> QED  BY <3>2, <3>4, <3>5 DEF NothingMissed
  <2>11. CASE reader.todo = <<"page", "count">>
    <3>1. More(a) /\ q = "page"  BY <2>1, <2>11, PlansUnfold, PlansDiffer
    <3>2. /\ reader'.pc = "asked" /\ reader'.todo = <<"count">> /\ reader'.seen = reader.seen
          /\ reader'.twice = reader.twice /\ reader'.answer.items = PageRows
      BY <2>7, <2>11, <3>1, PlansUnfold DEF More
    <3>3. Got' = reader.seen \cup PageRows /\ Read' = m
      BY <1>1, <2>3, <2>6, <3>2 DEF Got, Read, Paged
    <3>4. reader.todo # <<"count">>  BY <2>11, PlansDiffer
    <3>5. Once'  BY <1>1, <1>3, <2>3, <2>6, <2>8, <3>2, <3>3, <3>4, PageTurns DEF Once
    <3>6. Unseen'
      BY <1>1, <1>3, <2>3, <2>6, <3>2, <3>3, <3>4, PageTurns, PlansDiffer DEF Unseen
    <3> QED  BY <3>2, <3>5, <3>6 DEF NothingMissed
  <2>12. CASE reader.todo = <<"count">>
    <3>1. /\ Shown(a) /\ q = "count" /\ a.own = {} /\ a.items = reader.answer.items
          /\ a.total = t
      BY <2>1, <2>7, <2>12, PlansUnfold
    <3>2. /\ reader'.pc = IF Last(a) THEN "done" ELSE "answered"
          /\ reader'.todo = <<>> /\ reader'.answer.items = {}
          /\ reader'.seen = reader.seen \cup reader.answer.items
          /\ reader'.twice <=> reader.twice \/ (reader.seen \cap reader.answer.items)
                                                  \ reader.changed # {}
      BY <3>1 DEF Shown, NoPage
    <3>3. Got' = Got /\ Read' = m /\ Read = m /\ reader'.seen = Got
      BY <1>1, <2>3, <2>6, <2>12, <3>2 DEF Got, Read, Paged
    <3>4. Once'  BY <2>6, <2>8, <3>2, <3>3 DEF Once
    <3>5. Unseen'  BY <1>1, <2>6, <2>9, <3>2, <3>3, PlansDiffer DEF Unseen
    <3>6. ASSUME Last(a), ~reader.left, NEW i \in reader.stay \ Got PROVE FALSE
      <4>1. i \in S /\ i \in Rows /\ Place(S, i) > m  BY <2>5, <2>9, <3>3, <3>6
      <4>2. a.items = {}  BY <2>3, <2>5, <3>1, <3>6, <4>1, LastPage
      <4> QED  BY <2>9, <2>12, <3>1, <3>6, <4>2 DEF Got
    <3>7. NothingMissed'  BY <1>1, <2>6, <3>2, <3>3, <3>6 DEF NothingMissed
    <3> QED  BY <3>4, <3>5, <3>7
  <2>13. CASE reader.todo = <<"page">>
    <3>1. /\ Shown(a) /\ q = "page" /\ a.own = {} /\ a.items = PageRows
          /\ a.total = reader.answer.total
      BY <2>1, <2>7, <2>13, PlansUnfold
    <3>2. /\ reader'.pc = IF Last(a) THEN "done" ELSE "answered"
          /\ reader'.todo = <<>> /\ reader'.answer.items = {}
          /\ reader'.seen = reader.seen \cup PageRows
          /\ reader'.twice <=> reader.twice \/ (reader.seen \cap PageRows) \ reader.changed # {}
      BY <3>1 DEF Shown, NoPage
    <3>3. Got' = reader'.seen /\ Read' = m
      BY <1>1, <2>3, <2>6, <3>2 DEF Got, Read, Paged
    <3>4. reader.todo # <<"count">>  BY <2>13, PlansDiffer
    <3>5. Once'  BY <1>1, <1>3, <2>3, <2>6, <2>8, <3>2, <3>3, <3>4, PageTurns DEF Once
    <3>6. Unseen'
      BY <1>1, <1>3, <2>3, <2>6, <3>2, <3>3, <3>4, PageTurns, PlansDiffer DEF Unseen
    <3>7. ASSUME Last(a), ~reader.left, ~reader.slipped,
                 NEW i \in reader.stay \ (reader.seen \cup PageRows)
          PROVE  FALSE
      <4>1. i \in S /\ i \in Rows /\ Place(S, i) > m
        BY <1>1, <1>3, <2>3, <2>5, <3>4, <3>7, PageTurns
      <4>2. Place(S, i) <= a.total  BY <2>9, <2>13, <3>1, <3>7
      <4>3. a.items = {}  BY <2>3, <2>5, <3>1, <3>7, <4>1, <4>2, LastPage
      <4> QED  BY <1>1, <1>3, <3>1, <3>4, <3>7, <4>3, PageTurns
    <3>8. NothingMissed'  BY <1>1, <2>6, <3>2, <3>7 DEF NothingMissed
    <3> QED  BY <3>5, <3>6, <3>8
  <2> QED  BY <2>2, <2>10, <2>11, <2>12, <2>13
<1> QED  BY <1>2, <1>3

-----------------------------------------------------------------------------
(* Own comments first *)

\* What matches are the reader's own rows and the others.
LEMMA OwnAndOthers ==
    /\ In({"own"}) \subseteq Rows /\ In({"listed"}) \subseteq Rows
    /\ Cardinality(In({"own"})) \in Nat /\ Cardinality(In({"listed"})) \in Nat
    /\ Cardinality(In(Matches)) = Cardinality(In({"own"})) + Cardinality(In({"listed"}))
<1>1. /\ In({"own"}) \subseteq Rows /\ In({"listed"}) \subseteq Rows
      /\ In(Matches) = In({"own"}) \cup In({"listed"})
      /\ In({"own"}) \cap In({"listed"}) = {}
  BY DEF In, Matches
<1>2. /\ IsFiniteSet(In({"own"})) /\ IsFiniteSet(In({"listed"}))
      /\ Cardinality(In({"own"})) \in Nat /\ Cardinality(In({"listed"})) \in Nat
  BY <1>1, RowsAreFinite
<1>3. Cardinality(In(Matches)) = Cardinality(In({"own"})) + Cardinality(In({"listed"}))
                                 - Cardinality(In({"own"}) \cap In({"listed"}))
  BY <1>1, <1>2, FS_Union
<1>4. Cardinality(In({"own"}) \cap In({"listed"})) = 0  BY <1>1, FS_EmptySet
<1> QED  BY <1>1, <1>2, <1>3, <1>4

\* What a page holds of the others, on the first page and on the second.
LEMMA OwnPages ==
    ASSUME TypeOK, Cardinality(In({"own"})) < request.size
    PROVE  LET room == request.size - Cardinality(In({"own"}))
           IN  \A i \in In({"listed"}) :
                 LET place == Place(In({"listed"}), i)
                 IN  /\ i \in Others(1) <=> place <= room
                     /\ i \in Others(2) <=> room < place /\ place <= 2 * room
<1>1. PICK S, k, n : S = In({"listed"}) /\ k = Cardinality(In({"own"})) /\ n = request.size
  OBVIOUS
<1>2. S \subseteq Rows /\ k \in Nat /\ n \in Nat /\ k < n
  BY <1>1, OwnAndOthers, ReaderNumbers
<1>3. \A i \in S : Place(S, i) \in Nat /\ 0 < Place(S, i)  BY <1>2, PlaceBounds
<1>4. Skip(n, 1, k) = 0 /\ Skip(n, 2, k) = n - k  BY <1>2 DEF Skip
<1>5. \A m : Others(m) = {i \in S : /\ Skip(n, m, k) < Place(S, i)
                                    /\ Place(S, i) <= Skip(n, m, k) + (n - k)}
  BY <1>1 DEF Others
<1>6. \A i \in S : /\ i \in Others(1) <=> 0 < Place(S, i) /\ Place(S, i) <= 0 + (n - k)
                   /\ i \in Others(2) <=> n - k < Place(S, i) /\ Place(S, i) <= (n - k) + (n - k)
  BY <1>4, <1>5
<1>7. \A i \in S : /\ i \in Others(1) <=> Place(S, i) <= n - k
                   /\ i \in Others(2) <=> n - k < Place(S, i) /\ Place(S, i) <= 2 * (n - k)
  BY <1>2, <1>3, <1>6
<1> QED  BY <1>1, <1>7

\* The query for the others, where they have room.
LEMMA OthersPage ==
    ASSUME IInv, request.list.own, reader.pc # "idle", ~reader.tied,
           Cardinality(In({"own"})) < request.size, NEW tie \in Ties
    PROVE  Page(tie, In({"own"})) = Others(reader.page)
<1>1. PICK S, k, n : S = In({"listed"}) /\ k = Cardinality(In({"own"})) /\ n = request.size
  OBVIOUS
<1>2. S \subseteq Rows /\ k \in Nat /\ n \in Nat /\ k < n
  BY <1>1, OwnAndOthers, ReaderNumbers DEF IInv
<1>3. Apart(S)
  <2>1. S \subseteq In(Matches)  BY <1>1 DEF In, Matches
  <2> QED  BY <2>1, Untied DEF Apart
<1>4. ~(n - k < 0) /\ Listed = S  BY <1>1, <1>2 DEF Listed
<1>5. \A m, p : Slice(tie, S, m, p) =
                  LET from == IF p < 0 THEN Cardinality(S) - m + p ELSE m
                      to   == IF p < 0 THEN Cardinality(S) - m ELSE m + p
                  IN  {i \in S : from < Place(S, i) /\ Place(S, i) <= to}
  BY <1>2, <1>3, NoChoice
<1>6. Page(tie, In({"own"})) = Slice(tie, S, Skip(n, reader.page, k), n - k)
  BY <1>1, <1>4 DEF Page
<1>7. Slice(tie, S, Skip(n, reader.page, k), n - k)
        = {i \in S : /\ Skip(n, reader.page, k) < Place(S, i)
                     /\ Place(S, i) <= Skip(n, reader.page, k) + (n - k)}
  BY <1>4, <1>5
<1> QED  BY <1>1, <1>6, <1>7 DEF Others

\* A first page that says that no other follows has all the others.
LEMMA OnlyPage ==
    ASSUME IInv, Quiet, reader.page = 1, Cardinality(In({"own"})) < request.size,
           NEW a, Last(a), a.total = Cardinality(In(request.list.counted)),
           a.items = Others(1)
    PROVE  Cardinality(In({"listed"})) <= request.size - Cardinality(In({"own"}))
<1>1. PICK S, k, c : S = In({"listed"}) /\ k = Cardinality(In({"own"})) /\ c = Cardinality(S)
  OBVIOUS
<1>2. TypeOK /\ KeysOK /\ request \in Requests /\ request.list.own  BY DEF IInv, TypeOK, Quiet
<1>3. /\ S \subseteq Rows /\ k \in Nat /\ c \in Nat /\ k < request.size
      /\ request.size \in Nat \ {0} /\ request.size \in Nat /\ Cardinality(In(Matches)) = k + c
  BY <1>1, <1>2, OwnAndOthers, ReaderNumbers
<1>4. CASE reader.page >= PagesCount(a.total, request.size)
  <2>1. a.total = k + c /\ a.total \in Nat  BY <1>2, <1>3, ListsKnown
  <2>2. a.total <= request.size * 1  BY <1>3, <1>4, <2>1, PagesSuffice
  <2>3. k + c <= request.size  BY <1>3, <2>1, <2>2, Products
  <2> QED  BY <1>1, <1>3, <2>3
<1>5. CASE a.items = {}
  <2>1. \A i \in S : ~(Place(S, i) <= request.size - k)  BY <1>1, <1>2, <1>5, OwnPages
  <2>2. Apart(S)
    <3>1. S \subseteq In(Matches)  BY <1>1 DEF In, Matches
    <3> QED  BY <3>1, Untied DEF Quiet, Apart
  <2>3. ASSUME NEW i \in S PROVE FALSE
    <3>1. Place(S, i) > 0
      <4>1. Place(S, i) \in Nat /\ Place(S, i) >= 1  BY <1>3, PlaceBounds, Zenon
      <4> QED  BY <4>1
    <3>2. PICK j \in S : Place(S, j) = 0 + 1  BY <1>2, <1>3, <2>2, <3>1, NoGap
    <3>3. 1 <= request.size - k  BY <1>3
    <3> QED  BY <2>1, <3>2, <3>3
  <2>4. c = 0  BY <1>1, <2>3, FS_EmptySet
  <2> QED  BY <1>1, <1>3, <2>4
<1> QED  BY <1>4, <1>5 DEF Last

LEMMA OwnQuery ==
    ASSUME IInv, Query
    PROVE  OwnFirst'
<1> DEFINE own    == In({"own"})
           others == In({"listed"})
           k      == Cardinality(own)
           room   == request.size - k
<1>1. /\ reader.pc = "asked" /\ Steady
      /\ reader'.page = reader.page /\ reader'.stay = reader.stay
      /\ reader'.tied = reader.tied /\ reader'.failed = reader.failed
  BY QueryCases
<1>2. PICK q \in {"own", "page", "count"}, a \in Answers :
        /\ q = Head(reader.todo) /\ a \in Queried(q, reader.answer)
        /\ IF Tail(reader.todo) # <<>> THEN More(a) ELSE Shown(a)
  BY QueryCases
<1>3. SUFFICES ASSUME Quiet PROVE OwnFirst'
  <2>1. Quiet' => Quiet  BY <1>1, SteadyPlaces DEF Quiet, Steady
  <2> QED  BY <2>1 DEF OwnFirst
<1>4. /\ TypeOK /\ reader.answer \in Answers /\ request.list.own /\ ~reader.tied
      /\ reader.todo \in {<<"own", "page", "count">>, <<"page", "count">>, <<"count">>}
  BY <1>1, <1>3, QueriesLeft DEF IInv, TypeOK, Readers, OwnPlans, Quiet
<1>5. /\ reader.todo \in {<<"page", "count">>, <<"count">>} => reader.answer.own = own
      /\ Turned(1) => own \subseteq reader.seen
      /\ k < request.size =>
           /\ reader.todo = <<"count">> => reader.answer.items = Others(reader.page)
           /\ Turned(1) => SeenTo(others, room)
           /\ Turned(2) => SeenTo(others, 2 * room)
  BY <1>3 DEF IInv, OwnFirst
<1>6. /\ request.size \in Nat /\ reader.page \in Nat /\ reader.page >= 1 /\ k \in Nat
      /\ \A i \in others : Place(others, i) \in Nat
  <2>1. others \subseteq Rows /\ k \in Nat  BY OwnAndOthers
  <2>2. \A i \in others : Place(others, i) \in Nat  BY <2>1, PlaceBounds
  <2> QED  BY <1>4, <2>1, <2>2, ReaderNumbers
<1>7. /\ In({"own"})' = own /\ In({"listed"})' = others /\ Cardinality(In({"own"}))' = k
      /\ Cardinality(In({"listed"}))' = Cardinality(others)
      /\ \A U, i : Place(U, i)' = Place(U, i)
      /\ request'.size = request.size /\ reader'.page = reader.page
      /\ Others(reader.page)' = Others(reader.page)
  BY <1>1, SteadyPlaces DEF Steady
<1>8. SUFFICES
        /\ reader'.todo \in {<<"page", "count">>, <<"count">>} => reader'.answer.own = own
        /\ Turned(1)' => own \subseteq reader'.seen
        /\ k < request.size =>
             /\ reader'.todo = <<"count">> => reader'.answer.items = Others(reader.page)
             /\ Turned(1)' => \A i \in others : Place(others, i) <= room => i \in reader'.seen
             /\ Turned(2)' => \A i \in others : Place(others, i) <= 2 * room => i \in reader'.seen
             /\ reader'.pc = "done" /\ reader.page = 1 => Cardinality(others) <= room
  BY <1>7 DEF OwnFirst, SeenTo
<1>9. ASSUME reader'.pc = "asked", reader'.seen = reader.seen
      PROVE  /\ Turned(1)' => own \subseteq reader'.seen
             /\ k < request.size =>
                  /\ Turned(1)' => \A i \in others : Place(others, i) <= room => i \in reader'.seen
                  /\ Turned(2)' => \A i \in others : Place(others, i) <= 2 * room => i \in reader'.seen
  <2>1. (Turned(1)' => Turned(1)) /\ (Turned(2)' => Turned(2))  BY <1>7, <1>9 DEF Turned
  <2> QED  BY <1>5, <1>9, <2>1 DEF SeenTo
<1>10. CASE reader.todo = <<"own", "page", "count">>
  <2>1. More(a) /\ q = "own"  BY <1>2, <1>10, PlansUnfold, PlansDiffer
  <2>2. a.own = own  BY <1>2, <1>4, <2>1, QueriedFills
  <2>3. /\ reader'.pc = "asked" /\ reader'.todo = <<"page", "count">>
        /\ reader'.seen = reader.seen /\ reader'.answer.own = own
    BY <1>10, <2>1, <2>2, PlansUnfold DEF More
  <2> QED  BY <1>9, <2>3, PlansDiffer
<1>11. CASE reader.todo = <<"page", "count">>
  <2>1. More(a) /\ q = "page"  BY <1>2, <1>11, PlansUnfold, PlansDiffer
  <2>2. a.own = own /\ \E tie \in Ties : a.items = Page(tie, own)
    BY <1>2, <1>4, <1>5, <1>11, <2>1, QueriedFills
  <2>3. k < request.size => a.items = Others(reader.page)
    BY <1>1, <1>4, <2>2, OthersPage
  <2>4. /\ reader'.pc = "asked" /\ reader'.todo = <<"count">>
        /\ reader'.seen = reader.seen /\ reader'.answer = a
    BY <1>11, <2>1, PlansUnfold DEF More
  <2> QED  BY <1>9, <2>2, <2>3, <2>4
<1>12. CASE reader.todo = <<"count">>
  <2>1. Shown(a) /\ q = "count"  BY <1>2, <1>12, PlansUnfold
  <2>2. a.own = own /\ a.items = reader.answer.items
        /\ a.total = Cardinality(In(request.list.counted))
    BY <1>2, <1>4, <1>5, <1>12, <2>1, QueriedFills
  <2>3. /\ reader'.todo = <<>> /\ reader'.pc \in {"done", "answered"}
        /\ reader'.seen = reader.seen \cup own \cup a.items
        /\ reader'.pc = "done" => Last(a)
    BY <2>1, <2>2 DEF Shown
  <2>4. ASSUME k < request.size
        PROVE  /\ \A i \in others : Place(others, i) <= room => i \in reader'.seen
               /\ Turned(2)' => \A i \in others : Place(others, i) <= 2 * room => i \in reader'.seen
               /\ reader'.pc = "done" /\ reader.page = 1 => Cardinality(others) <= room
    <3>1. a.items = Others(reader.page)  BY <1>5, <1>12, <2>2, <2>4
    <3>2. \A i \in others : /\ i \in Others(1) <=> Place(others, i) <= room
                            /\ i \in Others(2) <=> room < Place(others, i) /\ Place(others, i) <= 2 * room
      BY <1>4, <2>4, OwnPages
    <3>3. \A i \in others : Place(others, i) <= room => i \in reader'.seen
      <4>1. CASE reader.page = 1  BY <2>3, <3>1, <3>2, <4>1
      <4>2. CASE reader.page > 1
        BY <1>5, <2>3, <2>4, <4>2 DEF Turned, SeenTo
      <4> QED  BY <1>6, <4>1, <4>2
    <3>4. ASSUME Turned(2)', NEW i \in others, Place(others, i) <= 2 * room
          PROVE  i \in reader'.seen
      <4>1. reader.page = 2 \/ reader.page > 2  BY <1>6, <1>7, <3>4 DEF Turned
      <4>2. CASE reader.page = 2
        <5>1. CASE Place(others, i) <= room  BY <3>3, <5>1
        <5>2. CASE room < Place(others, i)  BY <2>3, <3>1, <3>2, <3>4, <4>2, <5>2
        <5> QED  BY <1>6, <5>1, <5>2
      <4>3. CASE reader.page > 2  BY <1>5, <2>3, <2>4, <3>4, <4>3 DEF Turned, SeenTo
      <4> QED  BY <4>1, <4>2, <4>3
    <3>5. ASSUME reader'.pc = "done", reader.page = 1 PROVE Cardinality(others) <= room
      BY <1>3, <2>2, <2>3, <2>4, <3>1, <3>5, OnlyPage
    <3> QED  BY <3>3, <3>4, <3>5
  <2> QED  BY <2>3, <2>4, PlansDiffer
<1> QED  BY <1>4, <1>10, <1>11, <1>12

-----------------------------------------------------------------------------
(* The theorems *)

LEMMA InitIInv == Init => IInv
<1> SUFFICES ASSUME Init PROVE IInv
  OBVIOUS
<1>1. /\ row = [i \in Rows |-> "unborn"] /\ key = [i \in Rows |-> 1] /\ request \in Requests
      /\ reader.pc = "idle" /\ reader.page = 1 /\ reader.todo = <<>> /\ reader.answer = NoPage
      /\ reader.seen = {} /\ reader.twice = FALSE /\ reader.stay = {} /\ reader.failed = FALSE
  BY DEF Init
<1>2. reader \in Readers
  <2>1. NoPage \in Answers /\ <<>> \in Plans \cup OwnPlans /\ 1 \in Nat \ {0}
    BY DEF NoPage, Answers, Plans
  <2>2. FALSE \in BOOLEAN /\ {} \in SUBSET Rows  OBVIOUS
  <2>3. reader = [pc |-> "idle", page |-> 1, todo |-> <<>>, answer |-> NoPage, seen |-> {},
                  twice |-> FALSE, stay |-> {}, changed |-> {}, left |-> FALSE,
                  came |-> FALSE, slipped |-> FALSE, tied |-> FALSE, failed |-> FALSE,
                  changes |-> 0]
    BY DEF Init
  <2> QED  BY <2>1, <2>2, <2>3 DEF Readers
<1>3. KeysOK
  <2>1. 1 \in Keys  BY ListingsAssumption DEF Keys
  <2> QED  BY <1>1, <2>1 DEF KeysOK
<1>4. TypeOK  BY <1>1, <1>2, <1>3 DEF TypeOK, RowStates
<1>5. Phases  BY <1>1, PlansDiffer DEF Phases, NoPage, Plans, OwnPlans
<1>6. Got = {} /\ reader.answer.items = {} /\ reader.answer.own = {}
  BY <1>1 DEF Got, NoPage
<1>7. Remembered  BY <1>1, <1>6 DEF Remembered
<1>8. Once  BY <1>1, <1>6 DEF Once
<1>9. Unseen  BY <1>1, <1>6, PlansDiffer DEF Unseen
<1>10. OwnFirst /\ NothingMissed  BY <1>1 DEF OwnFirst, Quiet, NothingMissed
<1> QED  BY <1>4, <1>5, <1>7, <1>8, <1>9, <1>10 DEF IInv

LEMMA QueryKeeps ==
    ASSUME IInv, Query
    PROVE  IInv'
<1>1. TypeOK' /\ Phases' /\ Remembered'  BY QueryKeepsShape
<1>2. OwnFirst'  BY OwnQuery
<1>3. CASE ~request.list.own
  <2>1. Once' /\ Unseen' /\ NothingMissed'  BY <1>3, PlainQuery
  <2> QED  BY <1>1, <1>2, <2>1 DEF IInv
<1>4. CASE request.list.own
  <2>1. request'.list.own  BY <1>4, QueryCases DEF Steady
  <2> QED  BY <1>1, <1>2, <2>1 DEF IInv, Once, Unseen, NothingMissed
<1> QED  BY <1>3, <1>4

\* The claims above hold all the time, while the client reads and the rows change.
THEOREM ReadingKeeps == Spec => []IInv
<1>1. Init => IInv  BY InitIInv
<1>2. IInv /\ [Next]_vars => IInv'
  <2> SUFFICES ASSUME IInv, [Next]_vars PROVE IInv'
    OBVIOUS
  <2>1. CASE Begin \/ NextPage  BY <2>1, AskKeeps
  <2>2. CASE Query  BY <2>2, QueryKeeps
  <2>3. CASE QueryFails  BY <2>3, FailKeeps
  <2>4. CASE RowsStep  BY <2>4, RowsKeep
  <2>5. CASE UNCHANGED vars
    <3>1. row' = row /\ key' = key /\ request' = request /\ reader' = reader /\ Steady
      BY <2>5 DEF vars, Steady
    <3>2. TypeOK' /\ Phases' /\ NothingMissed'
      BY <3>1, SteadyPlaces DEF IInv, TypeOK, KeysOK, Phases, NothingMissed
    <3>3. Got' = Got /\ Read' = Read  BY <3>1 DEF Got, Read, Paged
    <3>4. Remembered' /\ Once' /\ Unseen'
      BY <3>1, <3>3, SteadyPlaces DEF IInv, Remembered, Once, Unseen
    <3>5. /\ Turned(1)' = Turned(1) /\ Turned(2)' = Turned(2)
          /\ \A U, n : SeenTo(U, n)' = SeenTo(U, n)
      BY <3>1, SteadyPlaces DEF Turned, SeenTo
    <3>6. Quiet' <=> Quiet  BY <3>1, SteadyPlaces DEF Quiet
    <3>7. OwnFirst'  BY <3>1, <3>5, <3>6, SteadyPlaces DEF IInv, OwnFirst
    <3> QED  BY <3>2, <3>4, <3>7 DEF IInv
  <2> QED  BY <2>1, <2>2, <2>3, <2>4, <2>5 DEF Next, RowsStep
<1> QED  BY <1>1, <1>2, PTL DEF Spec

\* A client that turned the pages until the last one has seen each row that was there all
\* the time and was not edited (NothingMissed), whatever the listing, the field and the
\* direction it is sorted by and the page size, and whatever was created, edited or deleted
\* meanwhile, unless one that was listed before another left or moved behind it, one came
\* before another between the count and the page of one request, two had the same key, or
\* a query failed.
THEOREM PagesMissNothing == Spec => []NothingMissed
<1>1. IInv => NothingMissed  BY DEF IInv
<1> QED  BY <1>1, ReadingKeeps, PTL

\* No row that was not changed is on two pages (NothingTwice), unless one came or moved
\* before another, or two had the same key.
THEOREM PagesRepeatNothing == Spec => []NothingTwice
<1>1. IInv => NothingTwice  BY DEF IInv, Once, NothingTwice
<1> QED  BY <1>1, ReadingKeeps, PTL

\* findCommentsByPostId for a user, sorted by either date: however many comments are his,
\* he sees all of them on the first two pages, and of the others as many as the pages have
\* room for beside them, while no comment comes, goes or is edited (FirstTwoPagesAreWhole).
THEOREM OwnPagesAreWhole == Spec => []FirstTwoPagesAreWhole
<1>1. ASSUME IInv PROVE FirstTwoPagesAreWhole
  <2> DEFINE own    == In({"own"})
             others == In({"listed"})
             room   == 2 * (request.size - Cardinality(own))
  <2> SUFFICES ASSUME request.list.own, ~reader.tied, ~reader.failed,
                      reader.stay = In(Matches), reader.changed = {},
                      \/ reader.pc = "done"
                      \/ reader.page = 2 /\ reader.pc = "answered"
                      \/ reader.page > 2
               PROVE  /\ own \subseteq reader.seen
                      /\ \A i \in others : Place(others, i) <= room => i \in reader.seen
    BY DEF FirstTwoPagesAreWhole
  <2>1. /\ request.size \in Nat /\ reader.page \in Nat /\ reader.page >= 1
        /\ others \subseteq Rows /\ Cardinality(own) \in Nat /\ Cardinality(others) \in Nat
        /\ \A i \in others : /\ Place(others, i) \in Nat /\ Place(others, i) >= 1
                             /\ Place(others, i) <= Cardinality(others)
    <3>1. TypeOK /\ others \subseteq Rows  BY <1>1, OwnAndOthers DEF IInv
    <3>2. \A i \in others : /\ Place(others, i) \in Nat /\ Place(others, i) >= 1
                            /\ Place(others, i) <= Cardinality(others)
      BY <3>1, PlaceBounds
    <3> QED  BY <3>1, <3>2, OwnAndOthers, ReaderNumbers
  <2>2. Quiet
    <3>1. reader.pc # "idle"  BY <1>1, <2>1 DEF IInv, Phases
    <3> QED  BY <3>1 DEF Quiet
  <2>3. /\ Turned(1) => own \subseteq reader.seen
        /\ Cardinality(own) < request.size =>
             /\ Turned(1) => SeenTo(others, request.size - Cardinality(own))
             /\ Turned(2) => SeenTo(others, room)
             /\ reader.pc = "done" /\ reader.page = 1 =>
                  Cardinality(others) <= request.size - Cardinality(own)
    BY <1>1, <2>2 DEF IInv, OwnFirst
  <2>4. own \subseteq reader.seen
    <3>1. Turned(1)  BY <2>1 DEF Turned
    <3> QED  BY <2>3, <3>1
  <2>5. ASSUME NEW i \in others, Place(others, i) <= room PROVE i \in reader.seen
    <3>1. Cardinality(own) < request.size  BY <2>1, <2>5
    <3>2. CASE reader.pc = "done" /\ reader.page = 1
      <4>1. Turned(1)  BY <3>2 DEF Turned
      <4>2. Place(others, i) <= request.size - Cardinality(own)
        BY <2>1, <2>3, <3>1, <3>2
      <4> QED  BY <2>3, <3>1, <4>1, <4>2 DEF SeenTo
    <3>3. CASE ~(reader.pc = "done" /\ reader.page = 1)
      <4>1. Turned(2)  BY <2>1, <3>3 DEF Turned
      <4> QED  BY <2>3, <2>5, <3>1, <4>1 DEF SeenTo
    <3> QED  BY <3>2, <3>3
  <2> QED  BY <2>4, <2>5
<1> QED  BY <1>1, ReadingKeeps, PTL

=============================================================================
