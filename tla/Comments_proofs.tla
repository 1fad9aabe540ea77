-------------------------- MODULE Comments_proofs --------------------------
(***************************************************************************)
(* Proofs about Comments for any number of users, posts, requests and      *)
(* comments: its types, that threads stay whole, and who removes comments. *)
(***************************************************************************)
EXTENDS Comments, TLAPS

IInv == TypeOK /\ ThreadsAreWhole

\* A request that deletes comes from who may, as long as its comment is there.
Judged ==
    \A r \in Requests : Asked(r, "delete", "write") /\ Exists(Target(r)) =>
        MayDelete(req[r].user, Target(r))

\* A request to comment finds its post as it was, or was overtaken.
Punctual ==
    \A r \in Requests : req[r] # Idle /\ req[r].op = "create" /\ ~req[r].late =>
        Live(req[r].post)

JInv == IInv /\ Judged /\ Punctual

-----------------------------------------------------------------------------
(* The cascade *)

\* What the cascade removes holds what it starts from.
LEMMA ThreadsHold ==
    ASSUME NEW S \in SUBSET Ids
    PROVE  S \subseteq Threads(S)
  BY DEF Threads

\* A reply goes with the comment it answers.
LEMMA RepliesGo ==
    ASSUME NEW S \in SUBSET Ids, NEW c \in Ids, Exists(c), comment[c].parent \in Threads(S)
    PROVE  c \in Threads(S)
<1>1. ASSUME NEW T \in SUBSET Ids, S \subseteq T,
             \A e \in Ids : Exists(e) /\ comment[e].parent \in T => e \in T
      PROVE  c \in T
  BY <1>1 DEF Threads
<1> QED
  BY <1>1 DEF Threads

\* The cascade leaves rows as they are, or removes them.
LEMMA WithoutLeaves ==
    ASSUME NEW S \in SUBSET Ids, TypeOK
    PROVE  /\ Without(S) \in [Ids -> CommentRows \cup {None}]
           /\ \A c \in Ids : Without(S)[c] # None =>
                  Without(S)[c] = comment[c] /\ Exists(c) /\ c \notin Threads(S)
  BY DEF Without, TypeOK, Exists

\* What remains after the cascade is whole.
LEMMA WithoutIsWhole ==
    ASSUME NEW S \in SUBSET Ids, IInv, comment' = Without(S)
    PROVE  \A c \in Ids : Exists(c)' =>
               /\ comment'[c] = comment[c] /\ Exists(c) /\ c \notin S
               /\ comment[c].parent # None =>
                     comment[c].parent < c /\ Exists(comment[c].parent)'
<1> SUFFICES ASSUME NEW c \in Ids, Exists(c)'
             PROVE  /\ comment'[c] = comment[c] /\ Exists(c) /\ c \notin S
                    /\ comment[c].parent # None =>
                          comment[c].parent < c /\ Exists(comment[c].parent)'
  OBVIOUS
<1>1. comment'[c] = comment[c] /\ Exists(c) /\ c \notin Threads(S)
  BY WithoutLeaves DEF Exists, IInv
<1>2. c \notin S
  BY <1>1, ThreadsHold
<1>3. ASSUME comment[c].parent # None
      PROVE  comment[c].parent < c /\ Exists(comment[c].parent)'
  <2> DEFINE p == comment[c].parent
  <2>1. p \in Ids
    BY <1>1, <1>3 DEF IInv, TypeOK, Exists, CommentRows
  <2>2. p < c /\ Exists(p)
    BY <1>1, <1>3 DEF IInv, ThreadsAreWhole
  <2>3. p \notin Threads(S)
    BY <1>1, RepliesGo
  <2>4. comment'[p] = comment[p]
    BY <2>1, <2>3 DEF Without
  <2> QED
    BY <1>1, <2>2, <2>4 DEF Exists
<1> QED
  BY <1>1, <1>2, <1>3

-----------------------------------------------------------------------------
(* The requests *)

\* What is known of a request that writes.
LEMMA WriterIs ==
    ASSUME TypeOK, NEW r \in Requests, req[r] # Idle
    PROVE  /\ req[r] \in InFlight
           /\ req[r].post \in Posts /\ req[r].user \in Users
           /\ Target(r) \in Ids \cup {None}
           /\ req[r].op \in {"update", "delete"} => Target(r) \in Ids
           /\ req[r].pc \in {"parent", "write"}
           /\ req[r].late \in BOOLEAN
  BY DEF TypeOK, InFlight, Target

\* A request that ends keeps the types of the others.
LEMMA OverIsTyped ==
    ASSUME TypeOK, NEW r \in Requests, Over(r)
    PROVE  /\ req' \in [Requests -> InFlight \cup {Idle}]
           /\ \A q \in Requests : req'[q].pc = "write" =>
                  req'[q] = req[q] /\ req[q].pc = "write"
  BY DEF TypeOK, Over, Idle

-----------------------------------------------------------------------------
(* The invariant is inductive *)

\* There are no comments at first.
LEMMA InitIInv == Init => IInv
<1> SUFFICES ASSUME Init PROVE IInv
  OBVIOUS
<1>1. TypeOK
  BY CommentsAssumption DEF Init, TypeOK, PostStates, Exists, Ids, Idle
<1>2. ThreadsAreWhole
  BY DEF Init, ThreadsAreWhole, Exists
<1> QED
  BY <1>1, <1>2 DEF IInv

\* A step that leaves posts and comments alone keeps threads whole.
LEMMA FrameWhole ==
    ASSUME IInv, UNCHANGED <<post, comment>>
    PROVE  ThreadsAreWhole'
  BY DEF IInv, ThreadsAreWhole, Exists

\* A request that arrives, and asks for a parent that is there or a comment.
LEMMA FindPostIInv ==
    ASSUME IInv, NEW r \in Requests, NEW u \in Users, NEW p \in Posts,
           NEW parent \in Ids \cup {None}, FindPost(r, u, p, parent)
    PROVE  IInv'
<1> DEFINE new == [op |-> "create", user |-> u, post |-> p, target |-> parent,
                   pc |-> IF parent = None THEN "write" ELSE "parent", late |-> FALSE]
<1>1. new \in InFlight /\ (new.pc = "write" => new.target = None)
  BY DEF InFlight
<1>2. req' = [req EXCEPT ![r] = new] /\ UNCHANGED <<post, comment, made>>
  BY DEF FindPost
<1>3. TypeOK'
  BY <1>1, <1>2 DEF IInv, TypeOK, Target, Exists
<1> QED
  BY <1>2, <1>3, FrameWhole DEF IInv

LEMMA FindParentIInv ==
    ASSUME IInv, NEW r \in Requests, FindParent(r)
    PROVE  IInv'
<1>1. UNCHANGED <<post, comment, made>> /\ Asked(r, "create", "parent")
  BY DEF FindParent
<1>2. CASE ParentFound(Target(r))
  <2>1. req' = [req EXCEPT ![r].pc = "write"]
    BY <1>2 DEF FindParent
  <2>2. Target(r) # None => Target(r) \in Ids /\ Target(r) <= made
    BY <1>1, <1>2, WriterIs DEF ParentFound, IInv, TypeOK, Asked
  <2>3. [req[r] EXCEPT !.pc = "write"] \in InFlight
    BY <1>1, WriterIs DEF IInv, Asked, InFlight
  <2>4. [req[r] EXCEPT !.pc = "write"].target = Target(r)
    BY <1>1, WriterIs DEF IInv, Asked, InFlight, Target
  <2>5. TypeOK'
    BY <1>1, <2>1, <2>2, <2>3, <2>4 DEF IInv, TypeOK, Target, Exists
  <2> QED
    BY <1>1, <2>5, FrameWhole DEF IInv
<1>3. CASE ~ParentFound(Target(r))
  <2>1. Over(r)
    BY <1>3 DEF FindParent
  <2>2. TypeOK'
    BY <1>1, <2>1, OverIsTyped DEF IInv, TypeOK, Target, Exists
  <2> QED
    BY <1>1, <2>2, FrameWhole DEF IInv
<1> QED
  BY <1>2, <1>3

\* The insert: the foreign keys find the post and the parent again.
LEMMA CreateIInv ==
    ASSUME IInv, NEW r \in Requests, Create(r)
    PROVE  IInv'
<1>1. /\ Asked(r, "create", "write") /\ made < MaxComments
      /\ Over(r) /\ post' = post /\ made \in Nat
  BY CommentsAssumption DEF Create, IInv, TypeOK
<1>2. CASE ~Insertable(r)
  <2>1. UNCHANGED <<made, comment>>
    BY <1>2 DEF Create
  <2>2. TypeOK'
    BY <1>1, <2>1, OverIsTyped DEF IInv, TypeOK, Target, Exists
  <2> QED
    BY <1>1, <2>1, <2>2, FrameWhole DEF IInv
<1>3. CASE Insertable(r)
  <2> DEFINE new == [post |-> req[r].post, author |-> req[r].user, parent |-> Target(r)]
  <2>1. made' = made + 1 /\ comment' = [comment EXCEPT ![made + 1] = new]
    BY <1>3 DEF Create
  <2>2. new \in CommentRows /\ made + 1 \in Ids
    BY <1>1, WriterIs, CommentsAssumption DEF IInv, Asked, CommentRows, Ids
  <2>3. /\ post[req[r].post] # "gone"
        /\ Target(r) # None => /\ Exists(Target(r)) /\ Target(r) \in Ids
                               /\ Target(r) <= made
    BY <1>1, <1>3, WriterIs DEF Insertable, IInv, TypeOK, Asked
  <2>4. \A c \in Ids : c # made + 1 => comment'[c] = comment[c]
    BY <2>1 DEF IInv, TypeOK
  <2>5. comment'[made + 1] = new
    BY <2>1, <2>2 DEF IInv, TypeOK
  <2>6. ~Exists(made + 1)
    BY <1>1, <2>2 DEF IInv, TypeOK
  <2>7. comment' \in [Ids -> CommentRows \cup {None}]
    BY <2>1, <2>2 DEF IInv, TypeOK
  <2>8. made' \in 0 .. MaxComments /\ \A c \in Ids : c <= made => c <= made'
    BY <1>1, <2>1, CommentsAssumption DEF Ids
  <2>9. \A c \in Ids : Exists(c)' => c <= made'
    BY <1>1, <2>1, <2>4, <2>8 DEF IInv, TypeOK, Exists, Ids
  <2>10. \A q \in Requests : req'[q].pc = "write" /\ Target(q)' # None => Target(q)' <= made'
    <3> SUFFICES ASSUME NEW q \in Requests, req'[q].pc = "write", Target(q)' # None
                 PROVE  Target(q)' <= made'
      OBVIOUS
    <3>1. req'[q] = req[q] /\ req[q].pc = "write"
      BY <1>1, OverIsTyped DEF IInv
    <3>2. req[q] # Idle
      BY <3>1 DEF Idle
    <3>3. Target(q) \in Ids /\ Target(q) <= made
      BY <3>1, <3>2, WriterIs DEF IInv, TypeOK, Target
    <3> QED
      BY <3>1, <3>3, <2>8 DEF Target
  <2>11. TypeOK'
    BY <1>1, <2>7, <2>8, <2>9, <2>10, OverIsTyped DEF IInv, TypeOK
  <2>12. ThreadsAreWhole'
    <3> SUFFICES ASSUME NEW c \in Ids, Exists(c)'
                 PROVE  /\ post[comment'[c].post] # "gone"
                        /\ comment'[c].parent # None =>
                              comment'[c].parent < c /\ comment'[comment'[c].parent] # None
      BY <1>1 DEF ThreadsAreWhole, Exists
    <3>1. CASE c = made + 1
      BY <1>1, <3>1, <2>3, <2>4, <2>5, <2>6 DEF Exists, Ids
    <3>2. CASE c # made + 1
      <4>1. comment'[c] = comment[c] /\ Exists(c)
        BY <3>2, <2>4 DEF Exists
      <4>2. comment[c] \in CommentRows
        BY <4>1 DEF IInv, TypeOK, Exists
      <4>3. ASSUME comment[c].parent # None
            PROVE  comment[c].parent < c /\ comment'[comment[c].parent] # None
        <5>1. comment[c].parent \in Ids /\ comment[c].parent < c /\ Exists(comment[c].parent)
          BY <4>1, <4>2, <4>3 DEF CommentRows, IInv, ThreadsAreWhole
        <5>2. comment[c].parent # made + 1
          BY <5>1, <2>6
        <5> QED
          BY <5>1, <5>2, <2>4 DEF Exists
      <4> QED
        BY <4>1, <4>3 DEF IInv, ThreadsAreWhole
    <3> QED
      BY <3>1, <3>2
  <2> QED
    BY <2>11, <2>12 DEF IInv
<1> QED
  BY <1>2, <1>3

LEMMA FindCommentIInv ==
    ASSUME IInv, NEW r \in Requests, NEW op \in {"update", "delete"}, NEW u \in Users,
           NEW c \in Ids, FindComment(r, op, u, c)
    PROVE  IInv'
<1> DEFINE new == [op |-> op, pc |-> "write", user |-> u, target |-> c,
                   post |-> comment[c].post, late |-> FALSE]
<1>1. Exists(c) /\ req' = [req EXCEPT ![r] = new] /\ UNCHANGED <<post, comment, made>>
  BY DEF FindComment
<1>2. comment[c] \in CommentRows /\ c <= made
  BY <1>1 DEF IInv, TypeOK, Exists
<1>3. new \in InFlight
  BY <1>2 DEF InFlight, CommentRows
<1>4. TypeOK'
  BY <1>1, <1>2, <1>3 DEF IInv, TypeOK, Target, Exists
<1> QED
  BY <1>1, <1>4, FrameWhole DEF IInv

\* A request that ends without a change.
LEMMA OverIInv ==
    ASSUME IInv, NEW r \in Requests, Over(r), UNCHANGED <<post, comment, made>>
    PROVE  IInv'
<1>1. TypeOK'
  BY OverIsTyped DEF IInv, TypeOK, Target, Exists
<1> QED
  BY <1>1, FrameWhole DEF IInv

\* A step whose cascade starts from S.
LEMMA CascadeIInv ==
    ASSUME IInv, NEW S \in SUBSET Ids, comment' = Without(S), made' = made,
           post' \in [Posts -> PostStates],
           \A c \in Ids \ S : Exists(c) => post'[comment[c].post] # "gone",
           req' \in [Requests -> InFlight \cup {Idle}],
           \A q \in Requests : req'[q].pc = "write" => req'[q] = req[q] /\ req[q].pc = "write"
    PROVE  IInv'
<1>1. \A c \in Ids : Exists(c)' =>
          /\ comment'[c] = comment[c] /\ Exists(c) /\ c \notin S
          /\ comment[c].parent # None =>
                comment[c].parent < c /\ Exists(comment[c].parent)'
  BY WithoutIsWhole
<1>2. TypeOK'
  <2>1. comment' \in [Ids -> CommentRows \cup {None}]
    BY WithoutLeaves DEF IInv
  <2>2. \A c \in Ids : Exists(c)' => c <= made'
    BY <1>1 DEF IInv, TypeOK
  <2>3. \A q \in Requests : req'[q].pc = "write" /\ Target(q)' # None => Target(q)' <= made'
    BY DEF IInv, TypeOK, Target
  <2> QED
    BY <2>1, <2>2, <2>3 DEF IInv, TypeOK
<1>3. ThreadsAreWhole'
  BY <1>1 DEF ThreadsAreWhole
<1> QED
  BY <1>2, <1>3 DEF IInv

LEMMA DeleteIInv ==
    ASSUME IInv, NEW r \in Requests, Delete(r)
    PROVE  IInv'
<1>1. Over(r) /\ UNCHANGED <<post, made>> /\ Asked(r, "delete", "write")
  BY DEF Delete
<1>2. CASE ~Exists(Target(r))
  BY <1>1, <1>2, OverIInv DEF Delete
<1>3. CASE Exists(Target(r))
  <2> DEFINE S == {Target(r)}
  <2>1. S \in SUBSET Ids /\ comment' = Without(S)
    BY <1>1, <1>3, WriterIs DEF Delete, Asked, IInv
  <2>2. \A c \in Ids \ S : Exists(c) => post'[comment[c].post] # "gone"
    BY <1>1 DEF IInv, ThreadsAreWhole
  <2>3. post' \in [Posts -> PostStates]
    BY <1>1 DEF IInv, TypeOK
  <2>4. /\ req' \in [Requests -> InFlight \cup {Idle}]
        /\ \A q \in Requests : req'[q].pc = "write" => req'[q] = req[q] /\ req[q].pc = "write"
    BY <1>1, OverIsTyped DEF IInv
  <2> HIDE DEF S
  <2> QED
    BY <1>1, <2>1, <2>2, <2>3, <2>4, CascadeIInv
<1> QED
  BY <1>2, <1>3

\* The requests that are overtaken keep their types and their steps.
LEMMA OvertakenIsTyped ==
    ASSUME TypeOK, NEW p \in Posts, req' = Overtaken(p)
    PROVE  /\ req' \in [Requests -> InFlight \cup {Idle}]
           /\ \A q \in Requests : /\ req'[q].pc = req[q].pc
                                  /\ req'[q].pc = "write" => Target(q)' = Target(q)
<1> SUFFICES ASSUME NEW q \in Requests
             PROVE  /\ req'[q] \in InFlight \cup {Idle}
                    /\ req'[q].pc = req[q].pc
                    /\ req'[q].pc = "write" => Target(q)' = Target(q)
  BY DEF Overtaken
<1>1. CASE req[q] # Idle /\ req[q].post = p /\ req[q].op = "create"
  <2>1. req'[q] = [req[q] EXCEPT !.late = TRUE]
    BY <1>1 DEF Overtaken
  <2>2. req[q] \in [op : {"create"}, pc : {"parent", "write"}, user : Users, post : Posts,
                    target : Ids \cup {None}, late : BOOLEAN]
    BY <1>1, WriterIs DEF InFlight
  <2> QED
    BY <2>1, <2>2 DEF InFlight, Target
<1>2. CASE ~(req[q] # Idle /\ req[q].post = p /\ req[q].op = "create")
  BY <1>2 DEF Overtaken, TypeOK, Target
<1> QED
  BY <1>1, <1>2

LEMMA DeletePostIInv ==
    ASSUME IInv, NEW p \in Posts, DeletePost(p)
    PROVE  IInv'
<1>1. /\ post' = [post EXCEPT ![p] = "deleted"] /\ req' = Overtaken(p)
      /\ UNCHANGED <<comment, made>>
  BY DEF DeletePost
<1>2. TypeOK'
  BY <1>1, OvertakenIsTyped DEF IInv, TypeOK, PostStates, Exists
<1>3. \A q \in Posts : post[q] # "gone" => post'[q] # "gone"
  BY <1>1 DEF IInv, TypeOK
<1>4. \A c \in Ids : Exists(c) => comment[c].post \in Posts
  BY DEF IInv, TypeOK, Exists, CommentRows
<1>5. ThreadsAreWhole'
  BY <1>1, <1>3, <1>4 DEF IInv, ThreadsAreWhole, Exists
<1> QED
  BY <1>2, <1>5 DEF IInv

LEMMA FinallyDeleteIInv ==
    ASSUME IInv, NEW p \in Posts, FinallyDelete(p)
    PROVE  IInv'
<1> DEFINE S == {c \in Ids : Exists(c) /\ comment[c].post = p}
<1>1. /\ post' = [post EXCEPT ![p] = "gone"] /\ comment' = Without(S)
      /\ UNCHANGED <<made, req>>
  BY DEF FinallyDelete
<1>2. S \in SUBSET Ids
  OBVIOUS
<1>3. post' \in [Posts -> PostStates]
  BY <1>1 DEF IInv, TypeOK, PostStates
<1>4. \A c \in Ids \ S : Exists(c) => post'[comment[c].post] # "gone"
  BY <1>1 DEF IInv, TypeOK, ThreadsAreWhole, Exists, CommentRows
<1>5. /\ req' \in [Requests -> InFlight \cup {Idle}]
      /\ \A q \in Requests : req'[q].pc = "write" => req'[q] = req[q] /\ req[q].pc = "write"
  BY <1>1 DEF IInv, TypeOK
<1> HIDE DEF S
<1> QED
  BY <1>1, <1>2, <1>3, <1>4, <1>5, CascadeIInv

\* Every step keeps the invariant.
LEMMA NextIInv == IInv /\ [Next]_vars => IInv'
<1> SUFFICES ASSUME IInv, [Next]_vars PROVE IInv'
  OBVIOUS
<1>1. CASE UNCHANGED vars
  BY <1>1 DEF vars, IInv, TypeOK, ThreadsAreWhole, Exists, Target
<1>2. ASSUME NEW r \in Requests, Handle(r) PROVE IInv'
  <2>1. ASSUME NEW u \in Users, NEW p \in Posts, NEW parent \in Ids \cup {None},
               FindPost(r, u, p, parent)
        PROVE  IInv'
    BY <2>1, FindPostIInv
  <2>2. CASE FindParent(r)
    BY <2>2, FindParentIInv
  <2>3. CASE Create(r)
    BY <2>3, CreateIInv
  <2>4. ASSUME NEW op \in {"update", "delete"}, NEW u \in Users, NEW c \in Ids,
               FindComment(r, op, u, c)
        PROVE  IInv'
    BY <2>4, FindCommentIInv
  <2>5. CASE Update(r) \/ Fail(r)
    BY <2>5, OverIInv DEF Update, Fail
  <2>6. CASE Delete(r)
    BY <2>6, DeleteIInv
  <2> QED
    BY <1>2, <2>1, <2>2, <2>3, <2>4, <2>5, <2>6 DEF Handle
<1>3. ASSUME NEW p \in Posts, DeletePost(p) \/ FinallyDelete(p) PROVE IInv'
  BY <1>3, DeletePostIInv, FinallyDeleteIInv
<1> QED
  BY <1>1, <1>2, <1>3 DEF Next

-----------------------------------------------------------------------------
(* Who removes and who adds *)

\* What the cascade removes hangs under one of those it starts from.
LEMMA ThreadsSplit ==
    ASSUME NEW S \in SUBSET Ids, NEW c \in Threads(S)
    PROVE  \E a \in S : c \in Threads({a})
<1> DEFINE T == {d \in Ids : \E a \in S : d \in Threads({a})}
<1>1. S \subseteq T
  BY ThreadsHold
<1>2. ASSUME NEW e \in Ids, Exists(e), comment[e].parent \in T
      PROVE  e \in T
  <2>1. PICK a \in S : comment[e].parent \in Threads({a})
    BY <1>2
  <2>2. e \in Threads({a})
    BY <1>2, <2>1, RepliesGo
  <2> QED
    BY <2>2
<1>3. T \in SUBSET Ids
  OBVIOUS
<1>4. c \in T
  <2> HIDE DEF T
  <2> QED
    BY <1>1, <1>2, <1>3 DEF Threads
<1> QED
  BY <1>4

\* What a step does to the rows.
LEMMA RowsKept ==
    ASSUME IInv, [Next]_vars, NEW c \in Ids, Exists(c)', c <= made
    PROVE  comment'[c] = comment[c]
<1>1. CASE UNCHANGED comment
  BY <1>1
<1>2. ASSUME NEW r \in Requests, Create(r), ~UNCHANGED comment
      PROVE  comment'[c] = comment[c]
  <2>1. comment' = [comment EXCEPT ![made + 1] = [post |-> req[r].post, author |-> req[r].user,
                                                   parent |-> Target(r)]]
    BY <1>2 DEF Create
  <2>2. c # made + 1
    BY DEF IInv, TypeOK, Ids
  <2> QED
    BY <2>1, <2>2 DEF IInv, TypeOK
<1>3. ASSUME NEW S \in SUBSET Ids, comment' = Without(S)
      PROVE  comment'[c] = comment[c]
  BY <1>3, WithoutLeaves DEF IInv, Exists
<1>4. ASSUME NEW r \in Requests, Delete(r), ~UNCHANGED comment
      PROVE  comment'[c] = comment[c]
  <2>1. comment' = Without({Target(r)}) /\ {Target(r)} \in SUBSET Ids
    BY <1>4, WriterIs DEF Delete, Asked, IInv
  <2> QED
    BY <2>1, <1>3
<1>5. ASSUME NEW p \in Posts, FinallyDelete(p)
      PROVE  comment'[c] = comment[c]
  <2> DEFINE S == {d \in Ids : Exists(d) /\ comment[d].post = p}
  <2>1. S \in SUBSET Ids /\ comment' = Without(S)
    BY <1>5 DEF FinallyDelete
  <2> HIDE DEF S
  <2> QED
    BY <2>1, <1>3
<1> QED
  BY <1>1, <1>2, <1>4, <1>5
  DEF Next, Handle, FindPost, FindParent, FindComment, Update, Fail, DeletePost, vars

\* A request that a step changes arrives, is over, or is one to comment.
LEMMA Arrived ==
    ASSUME IInv, [Next]_vars, NEW r \in Requests, req'[r] # req[r], req'[r] # Idle
    PROVE  \/ \E op \in {"update", "delete"}, u \in Users, c \in Ids : FindComment(r, op, u, c)
           \/ \E u \in Users, p \in Posts, parent \in Ids \cup {None} : FindPost(r, u, p, parent)
           \/ FindParent(r) /\ req' = [req EXCEPT ![r].pc = "write"]
           \/ \E p \in Posts : req' = Overtaken(p) /\ DeletePost(p)
<1>1. \A q \in Requests : Over(q) => req'[r] = req[r] \/ req'[r] = Idle
  BY DEF Over, IInv, TypeOK
<1>2. \A q \in Requests : q # r =>
          /\ \A op \in {"update", "delete"}, u \in Users, c \in Ids :
                 ~FindComment(q, op, u, c)
          /\ \A u \in Users, p \in Posts, parent \in Ids \cup {None} :
                 ~FindPost(q, u, p, parent)
          /\ ~(FindParent(q) /\ req' = [req EXCEPT ![q].pc = "write"])
  BY DEF FindComment, FindPost, IInv, TypeOK
<1>3. \A q \in Requests : FindParent(q) => Over(q) \/ req' = [req EXCEPT ![q].pc = "write"]
  BY DEF FindParent
<1>4. \A q \in Requests : Create(q) \/ Update(q) \/ Delete(q) \/ Fail(q) => Over(q)
  BY DEF Create, Update, Delete, Fail
<1>5. \A p \in Posts : (DeletePost(p) => req' = Overtaken(p)) /\ (FinallyDelete(p) => req' = req)
  BY DEF DeletePost, FinallyDelete
<1> QED
  BY <1>1, <1>2, <1>3, <1>4, <1>5 DEF Next, Handle, vars

\* Whoever asks for a deletion may, and comments keep their authors and posts.
LEMMA JudgedStep == IInv /\ Judged /\ [Next]_vars => Judged'
<1> SUFFICES ASSUME IInv, Judged, [Next]_vars, NEW r \in Requests,
                    Asked(r, "delete", "write")', Exists(Target(r))'
             PROVE  MayDelete(req[r].user, Target(r))'
  BY DEF Judged
<1>1. CASE req'[r] = req[r]
  <2>1. Asked(r, "delete", "write") /\ Target(r)' = Target(r) /\ req'[r].user = req[r].user
    BY <1>1 DEF Asked, Target
  <2>2. Target(r) \in Ids /\ Target(r) <= made
    BY <2>1, WriterIs, CommentsAssumption DEF IInv, TypeOK, Asked, Ids
  <2>3. comment'[Target(r)] = comment[Target(r)]
    BY <2>1, <2>2, RowsKept DEF Exists
  <2> QED
    BY <2>1, <2>3 DEF Judged, MayDelete, Exists
<1>2. CASE req'[r] # req[r]
  <2>1. req'[r] # Idle /\ req'[r].op = "delete"
    BY DEF Asked
  <2>2. CASE \E op \in {"update", "delete"}, u \in Users, c \in Ids : FindComment(r, op, u, c)
    <3>1. PICK op \in {"update", "delete"}, u \in Users, c \in Ids : FindComment(r, op, u, c)
      BY <2>2
    <3>2. /\ req'[r] = [op |-> op, pc |-> "write", user |-> u, target |-> c,
                        post |-> comment[c].post, late |-> FALSE]
          /\ comment' = comment
      BY <3>1 DEF FindComment, IInv, TypeOK
    <3>3. op = "delete" /\ MayDelete(u, c)
      BY <2>1, <3>1, <3>2 DEF FindComment
    <3> QED
      BY <3>2, <3>3 DEF MayDelete, Target
  <2>3. ASSUME NEW u \in Users, NEW p \in Posts, NEW parent \in Ids \cup {None},
               FindPost(r, u, p, parent)
        PROVE  req'[r].op = "create"
    BY <2>3 DEF FindPost, IInv, TypeOK
  <2>4. ASSUME FindParent(r), req' = [req EXCEPT ![r].pc = "write"]
        PROVE  req'[r].op = "create"
    BY <2>4, WriterIs DEF FindParent, Asked, IInv, TypeOK, InFlight
  <2>5. ASSUME NEW p \in Posts, req' = Overtaken(p)
        PROVE  req'[r].op = "create"
    <3>1. req[r].op = "create" /\ req[r] # Idle /\ req'[r] = [req[r] EXCEPT !.late = TRUE]
      BY <1>2, <2>5 DEF Overtaken
    <3> QED
      BY <3>1, WriterIs DEF IInv, InFlight
  <2> QED
    BY <1>2, <2>1, <2>2, <2>3, <2>4, <2>5, Arrived
<1> QED
  BY <1>1, <1>2

\* A request to comment is overtaken by the deletion of its post.
LEMMA PunctualStep == IInv /\ Punctual /\ [Next]_vars => Punctual'
<1> SUFFICES ASSUME IInv, Punctual, [Next]_vars, NEW r \in Requests,
                    req'[r] # Idle, req'[r].op = "create", ~req'[r].late
             PROVE  post'[req'[r].post] = "live"
  BY DEF Punctual, Live
<1>1. CASE req'[r] = req[r]
  <2>1. Live(req[r].post) /\ req[r].post \in Posts /\ req[r] # Idle
    BY <1>1, WriterIs DEF Punctual, IInv
  <2>2. ASSUME NEW p \in Posts, DeletePost(p), p = req[r].post
        PROVE  FALSE
    <3>1. req'[r] = [req[r] EXCEPT !.late = TRUE]
      BY <1>1, <2>1, <2>2 DEF DeletePost, Overtaken
    <3> QED
      BY <3>1, <2>1, WriterIs DEF IInv, InFlight
  <2>3. ASSUME NEW p \in Posts, DeletePost(p) \/ FinallyDelete(p), p # req[r].post
        PROVE  post'[req[r].post] = post[req[r].post]
    BY <2>1, <2>3 DEF DeletePost, FinallyDelete, IInv, TypeOK
  <2>4. \A p \in Posts : FinallyDelete(p) => p # req[r].post
    BY <2>1 DEF FinallyDelete, Live
  <2>5. UNCHANGED post \/ \E p \in Posts : DeletePost(p) \/ FinallyDelete(p)
    BY DEF Next, Handle, FindPost, FindParent, Create, FindComment, Update, Delete, Fail, vars
  <2> QED
    BY <1>1, <2>1, <2>2, <2>3, <2>4, <2>5 DEF Live
<1>2. CASE req'[r] # req[r]
  <2>1. ASSUME NEW op \in {"update", "delete"}, NEW u \in Users, NEW c \in Ids,
               FindComment(r, op, u, c)
        PROVE  FALSE
    BY <2>1 DEF FindComment, IInv, TypeOK
  <2>2. ASSUME NEW u \in Users, NEW p \in Posts, NEW parent \in Ids \cup {None},
               FindPost(r, u, p, parent)
        PROVE  post'[req'[r].post] = "live"
    BY <2>2 DEF FindPost, MayComment, Live, IInv, TypeOK
  <2>3. ASSUME FindParent(r), req' = [req EXCEPT ![r].pc = "write"]
        PROVE  post'[req'[r].post] = "live"
    <3>1. req[r] # Idle /\ req[r].op = "create" /\ post' = post
      BY <2>3 DEF FindParent, Asked
    <3>2. req'[r] = [req[r] EXCEPT !.pc = "write"]
      BY <2>3 DEF IInv, TypeOK
    <3>3. req'[r].post = req[r].post /\ req'[r].late = req[r].late
      BY <3>1, <3>2, WriterIs DEF IInv, InFlight
    <3> QED
      BY <3>1, <3>3 DEF Punctual, Live
  <2>4. ASSUME NEW p \in Posts, req' = Overtaken(p)
        PROVE  FALSE
    <3>1. req[r] # Idle /\ req'[r] = [req[r] EXCEPT !.late = TRUE]
      BY <1>2, <2>4 DEF Overtaken
    <3> QED
      BY <3>1, WriterIs DEF IInv, InFlight
  <2> QED
    BY <1>2, <2>1, <2>2, <2>3, <2>4, Arrived
<1> QED
  BY <1>1, <1>2

\* The stronger invariant holds of every behaviour.
LEMMA JInvariant == Spec => []JInv
<1>1. Init => JInv
  BY InitIInv DEF Init, JInv, Judged, Punctual, Asked
<1>2. JInv /\ [Next]_vars => JInv'
  BY NextIInv, JudgedStep, PunctualStep DEF JInv
<1> QED
  BY <1>1, <1>2, PTL DEF Spec

\* A step removes only what was asked for.
LEMMA StepRemoves ==
    ASSUME JInv, [Next]_vars, NEW c \in Ids, Exists(c), ~Exists(c)'
    PROVE  \E a \in Ids : /\ Exists(a) /\ c \in Threads({a})
                          /\ (RemovalAsked(a) \/ post'[comment[a].post] = "gone")
<1>1. ASSUME NEW r \in Requests, Create(r) PROVE FALSE
  <2>1. comment' = comment \/
        comment' = [comment EXCEPT ![made + 1] = [post |-> req[r].post, author |-> req[r].user,
                                                   parent |-> Target(r)]]
    BY <1>1 DEF Create
  <2>2. c # made + 1
    BY DEF JInv, IInv, TypeOK, Ids
  <2> QED
    BY <2>1, <2>2 DEF JInv, IInv, TypeOK, Exists
<1>2. ASSUME NEW r \in Requests, Delete(r)
      PROVE  \E a \in Ids : Exists(a) /\ c \in Threads({a}) /\ RemovalAsked(a)
  <2>1. Exists(Target(r)) /\ comment' = Without({Target(r)}) /\ Asked(r, "delete", "write")
    BY <1>2 DEF Delete, Exists
  <2>2. Target(r) \in Ids
    BY <2>1, WriterIs DEF Asked, JInv, IInv
  <2>3. c \in Threads({Target(r)})
    BY <2>1 DEF Without, Exists
  <2>4. MayDelete(req[r].user, Target(r))
    BY <2>1 DEF JInv, Judged
  <2>5. RemovalAsked(Target(r))
    BY <2>1, <2>4 DEF RemovalAsked, MayDelete
  <2> QED
    BY <2>1, <2>2, <2>3, <2>5
<1>3. ASSUME NEW p \in Posts, FinallyDelete(p)
      PROVE  \E a \in Ids : Exists(a) /\ c \in Threads({a}) /\ post'[comment[a].post] = "gone"
  <2> DEFINE S == {d \in Ids : Exists(d) /\ comment[d].post = p}
  <2>1. comment' = Without(S) /\ post'[p] = "gone"
    BY <1>3 DEF FinallyDelete, JInv, IInv, TypeOK
  <2>2. c \in Threads(S)
    BY <2>1 DEF Without, Exists
  <2>3. PICK a \in S : c \in Threads({a})
    BY <2>2, ThreadsSplit
  <2> QED
    BY <2>1, <2>3
<1> QED
  BY <1>1, <1>2, <1>3
  DEF Next, Handle, FindPost, FindParent, FindComment, Update, Fail, DeletePost, vars, Exists

\* A step adds only comments whose request found the post.
LEMMA StepAdds ==
    ASSUME JInv, [Next]_vars, NEW c \in Ids, ~Exists(c), Exists(c)'
    PROVE  \/ Live(comment'[c].post)
           \/ \E r \in Requests : Asked(r, "create", "write") /\ req[r].late
<1>1. ASSUME NEW S \in SUBSET Ids, comment' = Without(S) PROVE FALSE
  BY <1>1, WithoutLeaves DEF JInv, IInv, Exists
<1>2. ASSUME NEW r \in Requests, Delete(r) PROVE FALSE
  <2>1. comment' = comment \/ (comment' = Without({Target(r)}) /\ {Target(r)} \in SUBSET Ids)
    BY <1>2, WriterIs DEF Delete, Asked, JInv, IInv
  <2> QED
    BY <2>1, <1>1 DEF Exists
<1>3. ASSUME NEW p \in Posts, FinallyDelete(p) PROVE FALSE
  <2> DEFINE S == {d \in Ids : Exists(d) /\ comment[d].post = p}
  <2>1. S \in SUBSET Ids /\ comment' = Without(S)
    BY <1>3 DEF FinallyDelete
  <2> HIDE DEF S
  <2> QED
    BY <2>1, <1>1
<1>4. ASSUME NEW r \in Requests, Create(r)
      PROVE  Live(comment'[c].post) \/ (Asked(r, "create", "write") /\ req[r].late)
  <2>1. Asked(r, "create", "write") /\ req[r] \in InFlight
    BY <1>4, WriterIs DEF Create, Asked, JInv, IInv
  <2>2. comment' = comment \/
        comment' = [comment EXCEPT ![made + 1] = [post |-> req[r].post, author |-> req[r].user,
                                                   parent |-> Target(r)]]
    BY <1>4 DEF Create
  <2>3. comment'[c].post = req[r].post
    BY <2>2 DEF Exists, JInv, IInv, TypeOK
  <2> QED
    BY <2>1, <2>3 DEF JInv, Punctual, Asked
<1> QED
  BY <1>2, <1>3, <1>4
  DEF Next, Handle, FindPost, FindParent, FindComment, Update, Fail, DeletePost, vars, Exists

-----------------------------------------------------------------------------
(* The theorems *)

\* The invariant holds of every behaviour.
LEMMA Invariant == Spec => []IInv
  BY InitIInv, NextIInv, PTL DEF Spec

\* Every variable keeps its type, whatever requests overtake one another.
THEOREM TypeCorrect == Spec => []TypeOK
<1>1. IInv => TypeOK
  BY DEF IInv
<1> QED
  BY <1>1, Invariant, PTL

\* No comment is left without its post or the comment it answers, for any number
\* of requests, posts and comments.
THEOREM ThreadsStayWhole == Spec => []ThreadsAreWhole
<1>1. IInv => ThreadsAreWhole
  BY DEF IInv
<1> QED
  BY <1>1, Invariant, PTL

\* Whatever requests are in flight, a comment goes only when its deletion, or the
\* one of a comment it hangs under, was asked for by who may, or with a post.
THEOREM RemovalsAreAsked == Spec => RemovalIsAsked
<1>1. JInv /\ [Next]_vars =>
        [\A c \in Ids : Exists(c) /\ ~Exists(c)' =>
            \E a \in Ids : /\ Exists(a) /\ c \in Threads({a})
                           /\ (RemovalAsked(a) \/ post'[comment[a].post] = "gone")]_vars
  BY StepRemoves
<1> QED
  BY <1>1, JInvariant, PTL DEF Spec, RemovalIsAsked

\* A deleted post gets new comments only from requests that found it before.
THEOREM CommentsArePunctual == Spec => NewCommentsArePunctual
<1>1. JInv /\ [Next]_vars =>
        [\A c \in Ids : ~Exists(c) /\ Exists(c)' =>
            \/ Live(comment'[c].post)
            \/ \E r \in Requests : Asked(r, "create", "write") /\ req[r].late]_vars
  BY StepAdds
<1> QED
  BY <1>1, JInvariant, PTL DEF Spec, NewCommentsArePunctual

=============================================================================
