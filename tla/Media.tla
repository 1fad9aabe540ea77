------------------------------- MODULE Media -------------------------------
(***************************************************************************)
(* Avatars and posts of the instagram gateway, whose images the files      *)
(* service keeps: upload and deletion of an avatar, upload of images for a *)
(* post, creating, editing and deleting a post, and the weekly job that    *)
(* deletes posts for good (the use cases of features/users and             *)
(* features/posts, PostsRepository, PostsCleanupService and                *)
(* FileServiceAdapter).  A request runs until its next await on the        *)
(* database or the files service; the first read belongs to its arrival.   *)
(***************************************************************************)
EXTENDS Files

CONSTANTS
    Posts,     \* post ids (uuid), each used once
    Strays,    \* ids a post may name though no upload for posts was answered with them
    Requests,  \* requests the gateway can have in flight
    Keep,      \* days a deleted post is kept
    MaxClock,  \* last day
    MaxStarts  \* requests that arrive, those that create a post apart

ASSUME MediaAssumption ==
    /\ Keep \in Nat /\ MaxClock \in Nat /\ MaxStarts \in Nat
    /\ Strays \subseteq Images
    /\ Callers = Requests \cup {"cron"}
    /\ "cron" \notin Requests
    /\ None \notin Posts \cup Nat

VARIABLES
    avatar,   \* avatarId of each user
    post,     \* post rows with their post_image rows
    req,      \* requests in flight
    job,      \* the weekly job
    clock,    \* today
    started,  \* requests that arrived, as above
    taken,    \* image ids that were used
    offered,  \* image ids an upload for posts was answered with
    named,    \* history: images some post named
    shared,   \* history: images more than one post named
    since     \* history: the day each post was deleted first

history == <<taken, offered, named, shared, since>>
gateway == <<avatar, post, req, job, clock, started, history>>
vars    == <<files, happened, gateway>>

-----------------------------------------------------------------------------
(* Values *)

PostRows == [author : Users, images : SUBSET Images, edited : BOOLEAN,
             deletedAt : Nat \cup {None}]

\* A post id nobody has used, and one whose row is deleted for good.
Unborn == [state |-> "unborn"]
Gone   == [state |-> "gone"]

Operations == {"photo", "unphoto", "image", "edit", "delete"}

InFlight == [op : Operations, pc : {"wait", "write"}, user : Users,
             post : Posts \cup {None}, image : Images \cup {None}, stale : BOOLEAN]

Idle == [pc |-> "idle"]

Request(op, pc, u) == [op |-> op, pc |-> pc, user |-> u, post |-> None, image |-> None,
                       stale |-> FALSE]

Asked(r, op, pc) == req[r] # Idle /\ req[r].op = op /\ req[r].pc = pc
Over(r) == req' = [req EXCEPT ![r] = Idle]
Rows    == {p \in Posts : post[p] \notin {Unborn, Gone}}
Live(p) == p \in Rows /\ post[p].deletedAt = None

Begin(r, q) ==
    /\ req[r] = Idle /\ r = CHOOSE s \in Requests : req[s] = Idle
    /\ started < MaxStarts
    /\ started' = started + 1
    /\ req' = [req EXCEPT ![r] = q]

\* Mutant: posts of the day before the last one kept go as well.
DueEarly(p) == p \in Rows /\ post[p].deletedAt # None /\ ~(post[p].deletedAt + Keep > clock)

\* findPostsToDelete: deletedAt < now - 7 days.
Due(p) == p \in Rows /\ post[p].deletedAt # None /\ post[p].deletedAt + Keep < clock

\* Images are numbered in the order of their uploads; a post may name one before.
NewImage == CHOOSE i \in Images : i \notin taken
NewPost  == CHOOSE p \in Posts : post[p] = Unborn

NoJob == [pc |-> "idle", images |-> {}, posts |-> {}]

Init ==
    /\ FilesInit
    /\ avatar = [u \in Users |-> None]
    /\ post = [p \in Posts |-> Unborn]
    /\ req = [r \in Requests |-> Idle]
    /\ job = NoJob
    /\ clock = 0
    /\ started = 0
    /\ taken = {}
    /\ offered = {}
    /\ named = {}
    /\ shared = {}
    /\ since = [p \in Posts |-> None]

-----------------------------------------------------------------------------
(* Calls to the files service, FileServiceAdapter *)

Waits(who) ==
    IF who = "cron" THEN job.pc = "wait" ELSE req[who] # Idle /\ req[who].pc = "wait"

\* The answer of the service to whoever waits, or the error after ten seconds,
\* which comes when the service is down, and may come while it is still at work.
Hears(who, ok) ==
    /\ Waits(who)
    /\ \/ \E c \in Calls : /\ Doing(c, "answered") /\ call[c].who = who /\ call[c].ok = ok
                           /\ call' = [call EXCEPT ![c] = Free]
                           /\ NoFault
       \/ ~ok /\ (\A c \in Calls : call[c].who # who) /\ UNCHANGED call /\ NoFault
       \/ ~ok /\ \E c \in Calls : /\ ~Doing(c, "answered") /\ call[c].who = who
                                  /\ call' = [call EXCEPT ![c].who = None]
                                  /\ Fault("timeout")
    /\ UNCHANGED <<object, file>>

-----------------------------------------------------------------------------
(* Avatars, and images for posts *)

\* UploadUserPhotoUseCase and UploadPostPhotoUseCase send a valid image.
Upload(r, c, op, u) ==
    /\ op \in {"photo", "image"}
    /\ taken # Images
    /\ LET i == NewImage IN
       /\ taken' = taken \cup {i}
       /\ AskToStore(c, r, i, [owner |-> u, type |-> IF op = "photo" THEN "avatar"
                                                ELSE "post_image"])
       /\ Begin(r, [Request(op, "wait", u) EXCEPT !.image = i])
    /\ UNCHANGED <<object, file, happened, avatar, post, job, clock, offered, named,
                   shared, since>>

\* The id is stored as the avatar next, or returned to the author of a post.
Uploaded(r) ==
    /\ Asked(r, "photo", "wait") \/ Asked(r, "image", "wait")
    /\ \/ Hears(r, FALSE) /\ Over(r) /\ UNCHANGED offered
       \/ /\ Hears(r, TRUE)
          /\ IF req[r].op = "photo"
             THEN req' = [req EXCEPT ![r].pc = "write"] /\ UNCHANGED offered
             ELSE Over(r) /\ offered' = offered \cup {req[r].image}
    /\ UNCHANGED <<avatar, post, job, clock, started, taken, named, shared, since>>

\* updateAvatarId with the new file; the old one's file is left alone.
SetAvatar(r) ==
    /\ Asked(r, "photo", "write")
    /\ \/ /\ avatar' = [avatar EXCEPT ![req[r].user] = req[r].image]
          /\ req' = [q \in Requests |->
                       IF q = r THEN Idle
                       ELSE IF req[q] # Idle /\ req[q].op = "unphoto" /\ req[q].user = req[r].user
                       THEN [req[q] EXCEPT !.stale = TRUE] ELSE req[q]]
          /\ NoFault
       \/ Fault("db") /\ Over(r) /\ UNCHANGED avatar
    /\ UNCHANGED <<files, post, job, clock, started, history>>

\* Mutant: the file asked for is any of the user's.
AnyFileOf(u) ==
    IF \E i \in Images : file[i] # None /\ file[i].owner = u
    THEN CHOOSE i \in Images : file[i] # None /\ file[i].owner = u ELSE None

\* The avatarId of the user read.
AvatarOf(u) == avatar[u]

\* DeleteUserPhotoUseCase has the file of the avatar deleted, if there is one.
DeletePhoto(r, c, u) ==
    /\ AskToDelete(c, r, AvatarOf(u))
    /\ Begin(r, [Request("unphoto", "wait", u) EXCEPT !.image = AvatarOf(u)])
    /\ UNCHANGED <<object, file, happened, avatar, post, job, clock, history>>

\* Mutant: the test is the wrong way round.
AfterDeletionNot(ok) == ~ok

\* The avatar is cleared only after the service answered.
AfterDeletion(ok) == ok

PhotoDeleted(r) ==
    /\ Asked(r, "unphoto", "wait")
    /\ \E ok \in BOOLEAN :
         /\ Hears(r, ok)
         /\ IF AfterDeletion(ok) THEN req' = [req EXCEPT ![r].pc = "write"] ELSE Over(r)
    /\ UNCHANGED <<avatar, post, job, clock, started, history>>

\* updateAvatarId(null).
ClearAvatar(r) ==
    /\ Asked(r, "unphoto", "write")
    /\ \/ avatar' = [avatar EXCEPT ![req[r].user] = None] /\ NoFault
       \/ Fault("db") /\ UNCHANGED avatar
    /\ Over(r)
    /\ UNCHANGED <<files, post, job, clock, started, history>>

-----------------------------------------------------------------------------
(* Posts *)

\* createPost with any ids at all: the author's images, those of others, avatars,
\* and ids of no file, or of none yet.  A failed write leaves nothing.
CreatePost(u, images) ==
    /\ \E p \in Posts : post[p] = Unborn
    /\ images # {} /\ images \subseteq offered \cup Strays
    /\ post' = [post EXCEPT ![NewPost] = [author |-> u, images |-> images, edited |-> FALSE,
                                          deletedAt |-> None]]
    /\ named' = named \cup images
    /\ shared' = shared \cup (images \cap named)
    /\ UNCHANGED <<files, happened, avatar, req, job, clock, started, taken, offered, since>>

\* UpdatePostUseCase and DeletePostUseCase find a live post of the user.
FindPost(r, op, p) ==
    /\ op \in {"edit", "delete"}
    /\ Live(p)
    /\ Begin(r, [Request(op, "write", post[p].author) EXCEPT !.post = p])
    /\ UNCHANGED <<files, happened, avatar, post, job, clock, history>>

\* updatePost, where isDeleted is false.
Editable(p) == Live(p)

EditPost(r) ==
    /\ Asked(r, "edit", "write")
    /\ LET p == req[r].post IN
       post' = IF Editable(p) THEN [post EXCEPT ![p].edited = TRUE] ELSE post
    /\ Over(r)
    /\ UNCHANGED <<files, happened, avatar, job, clock, started, history>>

\* deletePost looks for no flag: a second deletion sets the date anew.
DeletePost(r) ==
    /\ Asked(r, "delete", "write")
    /\ LET p == req[r].post IN
       \/ /\ p \in Rows
          /\ post' = [post EXCEPT ![p].deletedAt = clock]
          /\ since' = [since EXCEPT ![p] = IF @ = None THEN clock ELSE @]
          /\ NoFault
       \/ p \notin Rows /\ NoFault /\ UNCHANGED <<post, since>>
       \/ Fault("db") /\ UNCHANGED <<post, since>>
    /\ Over(r)
    /\ UNCHANGED <<files, avatar, job, clock, started, taken, offered, named, shared>>

-----------------------------------------------------------------------------
(* The weekly job, PostsCleanupService *)

\* findPostsToDelete, with the images of the posts.
CleanupStart ==
    /\ job.pc = "idle"
    /\ LET due == {p \in Posts : Due(p)} IN
       /\ due # {}
       /\ job' = [pc |-> "images", posts |-> due,
                  images |-> UNION {{p} \X post[p].images : p \in due}]
    /\ UNCHANGED <<files, happened, avatar, post, req, clock, started, history>>

\* deleteImages: one call after the other, in the order of the rows.
CleanupImage(c) ==
    /\ job.pc = "images"
    /\ \E x \in job.images : /\ AskToDelete(c, "cron", x[2])
                             /\ job' = [job EXCEPT !.pc = "wait", !.images = @ \ {x}]
    /\ UNCHANGED <<object, file, happened, avatar, post, req, clock, started, history>>

\* Whether the file was deleted makes no difference.
CleanupHears ==
    /\ job.pc = "wait"
    /\ \E ok \in BOOLEAN : Hears("cron", ok)
    /\ job' = [job EXCEPT !.pc = "images"]
    /\ UNCHANGED <<avatar, post, req, clock, started, history>>

\* Mutant: the flag asked for is the one of the other queries.
MayGoLive(p) == Live(p)

\* finalDeletionPostById, where isDeleted is true.
MayGo(p) == p \in Rows /\ ~Live(p)

\* deletePosts, one after the other; a failure is logged.
CleanupPost(p) ==
    /\ job.pc = "images" /\ job.images = {}
    /\ p \in job.posts
    /\ \/ post' = (IF MayGo(p) THEN [post EXCEPT ![p] = Gone] ELSE post) /\ NoFault
       \/ Fault("db") /\ UNCHANGED post
    /\ job' = IF job.posts = {p} THEN NoJob ELSE [job EXCEPT !.posts = @ \ {p}]
    /\ UNCHANGED <<files, avatar, req, clock, started, history>>

-----------------------------------------------------------------------------
(* The process and the clock *)

\* The gateway stops and starts again; nobody waits for the calls any more.
GatewayStop ==
    /\ Fault("stop")
    /\ req' = [r \in Requests |-> Idle]
    /\ job' = NoJob
    /\ call' = [c \in Calls |-> IF Doing(c, "answered") THEN Free
                                ELSE [call[c] EXCEPT !.who = None]]
    /\ UNCHANGED <<object, file, avatar, post, clock, started, history>>

Tick ==
    /\ clock < MaxClock
    /\ clock' = clock + 1
    /\ UNCHANGED <<files, happened, avatar, post, req, job, started, history>>

-----------------------------------------------------------------------------
Arrive(r) ==
    \/ \E c \in Calls, u \in Users :
          \/ \E op \in Operations : Upload(r, c, op, u)
          \/ DeletePhoto(r, c, u)
    \/ \E op \in Operations, p \in Posts : FindPost(r, op, p)

Hear(r)  == Uploaded(r) \/ PhotoDeleted(r)
Write(r) == SetAvatar(r) \/ ClearAvatar(r) \/ EditPost(r) \/ DeletePost(r)
Serve(c) == Serving(c) /\ UNCHANGED gateway

Cleanup ==
    \/ CleanupStart
    \/ \E c \in Calls : CleanupImage(c)
    \/ CleanupHears
    \/ \E p \in Posts : CleanupPost(p)

Next ==
    \/ \E c \in Calls : Serve(c)
    \/ ServiceCrash /\ UNCHANGED gateway
    \/ \E r \in Requests : Arrive(r) \/ Hear(r) \/ Write(r)
    \/ \E u \in Users, images \in SUBSET Images : CreatePost(u, images)
    \/ Cleanup
    \/ GatewayStop
    \/ Tick

Spec == Init /\ [][Next]_vars

\* Calls are served and heard of, and the job is called every week.
Fairness ==
    /\ \A c \in Calls : WF_vars(Serve(c))
    /\ \A r \in Requests : WF_vars(Hear(r))
    /\ WF_vars(Cleanup)

FairSpec == Spec /\ Fairness

-----------------------------------------------------------------------------
(* Properties *)

TypeOK ==
    /\ FilesTypeOK
    /\ avatar \in [Users -> Images \cup {None}]
    /\ post \in [Posts -> PostRows \cup {Unborn, Gone}]
    /\ req \in [Requests -> InFlight \cup {Idle}]
    /\ job \in [pc : {"idle", "images", "wait"}, images : SUBSET (Posts \X Images),
               posts : SUBSET Posts]
    /\ clock \in 0 .. MaxClock
    /\ started \in 0 .. MaxStarts
    /\ offered \subseteq taken /\ taken \subseteq Images
    /\ shared \subseteq named /\ named \subseteq Images
    /\ since \in [Posts -> Nat \cup {None}]

\* Every image of a post that was not deleted can be shown, whatever failed on
\* either side while it was uploaded and whichever posts the job cleaned up, once
\* an upload for posts was answered with its id; images that two posts name go
\* with the first of them.
PostImagesStand ==
    \A p \in Posts : Live(p) =>
        \A i \in (post[p].images \cap offered) \ shared : i \in object /\ file[i] # None

\* A user's avatar has a file, unless a request of his to delete it is on its
\* way, one was cut off between the file and the user, or a post named its id:
\* the job deletes the files of a post whatever they are.
DanglingAvatarNeedsFault ==
    \A u \in Users : avatar[u] # None =>
        \/ file[avatar[u]] # None
        \/ avatar[u] \in named
        \/ \E r \in Requests : req[r] # Idle /\ req[r].op = "unphoto" /\ req[r].image = avatar[u]
        \/ happened \cap {"timeout", "crash", "db", "stop"} # {}

\* An avatar is cleared only by a request that saw this avatar, or another one
\* that was replaced while the request was on its way.
ClearTakesWhatItSaw ==
    [][\A u \in Users : avatar[u] # None /\ avatar'[u] = None =>
          \E r \in Requests : /\ Asked(r, "unphoto", "write") /\ req[r].user = u
                             /\ (req[r].image = avatar[u] \/ req[r].stale)]_vars

\* A post goes for good, with its images, only days after it was deleted, and
\* never without having been deleted.
GoneAreOld ==
    [][\A p \in Posts : p \in Rows /\ post'[p] = Gone =>
          since[p] # None /\ since[p] + Keep < clock]_vars

\* A deleted post whose time is over goes in the end, unless its deletion is
\* dated anew.
DueIsCleaned == \A p \in Posts : Due(p) ~> ~Due(p)

=============================================================================
