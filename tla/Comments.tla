------------------------------ MODULE Comments ------------------------------
(***************************************************************************)
(* Comments and replies on posts (CommentController, its use cases,        *)
(* CommentsRepository), and the deletion of posts under them.  A request   *)
(* reads and writes in separate awaits, one action each; the first read    *)
(* belongs to its arrival, a request that finds nothing leaves no trace.   *)
(* Comments are numbered in the order they are created.                    *)
(***************************************************************************)
EXTENDS Naturals

CONSTANTS
    Users,
    Posts,       \* posts, written before
    Author,      \* the author of each
    Requests,    \* requests in flight
    MaxComments, \* comments that are ever created
    None         \* null

ASSUME CommentsAssumption ==
    /\ Author \in [Posts -> Users]
    /\ MaxComments \in Nat
    /\ None \notin Users \cup Posts \cup Nat

VARIABLES
    post,    \* what is left of each post
    comment, \* comment rows
    made,    \* comments created
    req      \* requests in flight

vars == <<post, comment, made, req>>

-----------------------------------------------------------------------------
(* Values *)

Ids        == 1 .. MaxComments
PostStates == {"live", "deleted", "gone"}

CommentRows == [post : Posts, author : Users, parent : Ids \cup {None}]

\* late: the post was deleted while the request was on its way.
InFlight ==
    [op : {"create"}, pc : {"parent", "write"}, user : Users, post : Posts,
     target : Ids \cup {None}, late : BOOLEAN]
    \cup [op : {"update", "delete"}, pc : {"write"}, user : Users, post : Posts,
          target : Ids, late : {FALSE}]

Idle == [pc |-> "idle"]

Asked(r, op, pc) == req[r] # Idle /\ req[r].op = op /\ req[r].pc = pc
Over(r)          == req' = [req EXCEPT ![r] = Idle]
Target(r)        == req[r].target
Exists(c)        == comment[c] # None
Live(p)          == post[p] = "live"

Init ==
    /\ post = [p \in Posts |-> "live"]
    /\ comment = [c \in Ids |-> None]
    /\ made = 0
    /\ req = [r \in Requests |-> Idle]

-----------------------------------------------------------------------------
(* Creating a comment *)

\* Mutant: findPostById without isDeleted.
MayCommentStored(p) == post[p] # "gone"

\* findPostById.
MayComment(p) == Live(p)

\* CreateCommentUseCase finds the post; then the parent, if one is named.
FindPost(r, u, p, parent) ==
    /\ req[r] = Idle
    /\ MayComment(p)
    /\ req' = [req EXCEPT ![r] = [op |-> "create", user |-> u, post |-> p, target |-> parent,
                                  pc |-> IF parent = None THEN "write" ELSE "parent",
                                  late |-> FALSE]]
    /\ UNCHANGED <<post, comment, made>>

\* Mutant: the parent that was looked up is not looked at.
ParentFoundAnyway(c) == TRUE

\* findCommentById: of any post.
ParentFound(c) == Exists(c)

FindParent(r) ==
    /\ Asked(r, "create", "parent")
    /\ IF ParentFound(Target(r)) THEN req' = [req EXCEPT ![r].pc = "write"] ELSE Over(r)
    /\ UNCHANGED <<post, comment, made>>

\* Mutant: no foreign key on the parent.
InsertableAnywhere(r) == post[req[r].post] # "gone"

\* What the foreign keys of a comment ask for.
Insertable(r) ==
    /\ post[req[r].post] # "gone"
    /\ Target(r) # None => Exists(Target(r))

Create(r) ==
    /\ Asked(r, "create", "write")
    /\ made < MaxComments
    /\ IF Insertable(r)
       THEN /\ made' = made + 1
            /\ comment' = [comment EXCEPT ![made + 1] =
                             [post |-> req[r].post, author |-> req[r].user,
                              parent |-> Target(r)]]
       ELSE UNCHANGED <<made, comment>>
    /\ Over(r)
    /\ UNCHANGED post

-----------------------------------------------------------------------------
(* Editing and deleting a comment *)

\* Mutant: the author of a post may delete on every post.
MayDeleteAnything(u, c) == \E p \in Posts : u \in {comment[c].author, Author[p]}

\* The author of the comment or of its post.
MayDelete(u, c) == u \in {comment[c].author, Author[comment[c].post]}

MayUpdate(u, c) == u = comment[c].author

\* Both use cases find the comment and compare the user.
FindComment(r, op, u, c) ==
    /\ req[r] = Idle
    /\ Exists(c)
    /\ \/ op = "update" /\ MayUpdate(u, c)
       \/ op = "delete" /\ MayDelete(u, c)
    /\ req' = [req EXCEPT ![r] = [op |-> op, pc |-> "write", user |-> u, target |-> c,
                                  post |-> comment[c].post, late |-> FALSE]]
    /\ UNCHANGED <<post, comment, made>>

\* update of the text, or an error when the comment is gone; the text is left out.
Update(r) ==
    /\ Asked(r, "update", "write")
    /\ Over(r)
    /\ UNCHANGED <<post, comment, made>>

\* The cascade: in every set that holds S and the replies to its members.
Threads(S) ==
    {d \in Ids : \A T \in SUBSET Ids :
        (S \subseteq T /\ \A e \in Ids : Exists(e) /\ comment[e].parent \in T => e \in T)
        => d \in T}

Without(S) == [c \in Ids |-> IF c \in Threads(S) THEN None ELSE comment[c]]

\* deleteCommentId, which throws when the comment is gone.
Delete(r) ==
    /\ Asked(r, "delete", "write")
    /\ comment' = IF Exists(Target(r)) THEN Without({Target(r)}) ELSE comment
    /\ Over(r)
    /\ UNCHANGED <<post, made>>

-----------------------------------------------------------------------------
(* The posts *)

Overtaken(p) ==
    [r \in Requests |-> IF req[r] # Idle /\ req[r].post = p
                        /\ req[r].op = "create"
                        THEN [req[r] EXCEPT !.late = TRUE] ELSE req[r]]

\* deletePost sets the flag.
DeletePost(p) ==
    /\ Live(p)
    /\ post' = [post EXCEPT ![p] = "deleted"]
    /\ req' = Overtaken(p)
    /\ UNCHANGED <<comment, made>>

\* finalDeletionPostById, and the cascade.
FinallyDelete(p) ==
    /\ post[p] = "deleted"
    /\ post' = [post EXCEPT ![p] = "gone"]
    /\ comment' = Without({c \in Ids : Exists(c) /\ comment[c].post = p})
    /\ UNCHANGED <<made, req>>

\* The database fails, or the process stops, under a request.
Fail(r) ==
    /\ req[r] # Idle
    /\ Over(r)
    /\ UNCHANGED <<post, comment, made>>

-----------------------------------------------------------------------------
Handle(r) ==
    \/ \E u \in Users, p \in Posts, parent \in Ids \cup {None} : FindPost(r, u, p, parent)
    \/ FindParent(r)
    \/ Create(r)
    \/ \E op \in {"update", "delete"}, u \in Users, c \in Ids : FindComment(r, op, u, c)
    \/ Update(r)
    \/ Delete(r)
    \/ Fail(r)

Next ==
    \/ \E r \in Requests : Handle(r)
    \/ \E p \in Posts : DeletePost(p) \/ FinallyDelete(p)

Spec == Init /\ [][Next]_vars

-----------------------------------------------------------------------------
(* Properties *)

TypeOK ==
    /\ post \in [Posts -> PostStates]
    /\ comment \in [Ids -> CommentRows \cup {None}]
    /\ made \in 0 .. MaxComments
    /\ \A c \in Ids : Exists(c) => c <= made
    /\ req \in [Requests -> InFlight \cup {Idle}]
    /\ \A r \in Requests : req[r].pc = "write" /\ Target(r) # None => Target(r) <= made

\* Every comment has its post, and every reply the comment it answers, which is
\* older, whatever was deleted between the checks of a request and its insert.
ThreadsAreWhole ==
    \A c \in Ids : Exists(c) =>
        /\ post[comment[c].post] # "gone"
        /\ comment[c].parent # None =>
              comment[c].parent < c /\ Exists(comment[c].parent)

\* Who may have c removed: a request on it by its author or its post's.
RemovalAsked(c) ==
    \E r \in Requests : /\ Asked(r, "delete", "write") /\ Target(r) = c
                        /\ req[r].user \in {comment[c].author, Author[comment[c].post]}

\* A comment goes only because its deletion, or the one of a comment it hangs
\* under, was asked for by who may, or because the post of one of them goes.
RemovalIsAsked ==
    [][\A c \in Ids : Exists(c) /\ ~Exists(c)' =>
          \E a \in Ids : /\ Exists(a) /\ c \in Threads({a})
                         /\ (RemovalAsked(a) \/ post'[comment[a].post] = "gone")]_vars

\* A post that was deleted gets new comments only from requests that found it
\* before.
NewCommentsArePunctual ==
    [][\A c \in Ids : ~Exists(c) /\ Exists(c)' =>
          \/ Live(comment'[c].post)
          \/ \E r \in Requests : Asked(r, "create", "write") /\ req[r].late]_vars

=============================================================================
