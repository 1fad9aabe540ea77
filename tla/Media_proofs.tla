---------------------------- MODULE Media_proofs ----------------------------
(***************************************************************************)
(* Proofs about Media for any number of users, posts, images, requests,    *)
(* calls and faults: which images have a file, whose file a deletion       *)
(* takes, and when a post goes for good.                                   *)
(***************************************************************************)
EXTENDS Media, TLAPS

Storing(c)   == call[c].pc \in {"put", "create"}
Deleting(c)  == call[c].pc \in {"find", "unput", "remove", "again"}
Cutting(c)   == call[c].pc \in {"unput", "remove", "again"}
Uploading(r) == req[r] # Idle /\ req[r].op \in {"photo", "image"}
Unphoto(r)   == req[r] # Idle /\ req[r].op = "unphoto"
Stands(i)    == i \in object /\ file[i] # None

\* An image every live post of which shares it with another one.
Doomed(i) == i \in named /\ \A p \in Posts : Live(p) /\ i \in post[p].images => i \in shared

\* What an upload that was answered can say of its image.
Arrived(i) == Stands(i) \/ Doomed(i)

\* A deletion for the job that has not found a file, of an image that may go.
ForJob(c) == /\ call[c].pc \in {"find", "answered"} /\ call[c].who \in {"cron", None}
             /\ Doomed(Image(c))

\* Where a call is tells what is in S3 and in Mongo.
CallsKnow ==
    \A c \in Calls :
      /\ Storing(c) => Image(c) \in Images /\ call[c].row \in FileRows /\ file[Image(c)] = None
      /\ Doing(c, "create") => Image(c) \in object
      /\ Doing(c, "find") => ~call[c].deleted
      /\ Doing(c, "unput") => ~call[c].deleted
      /\ Cutting(c) => Image(c) \in Images
      /\ Doing(c, "remove") => IF call[c].deleted THEN Image(c) \notin object
                                                  ELSE "status" \in happened
      /\ Doing(c, "again") => "status" \in happened /\ file[Image(c)] = None

\* Nobody waits for a call only after a fault.
Waited ==
    \A c \in Calls : call[c] # Free /\ call[c].who = None => happened \cap {"timeout", "stop"} # {}

\* A file being stored is nobody else's, but a post may have named it before.
StoredAlone ==
    \A c \in Calls : Storing(c) =>
      /\ Image(c) \notin offered
      /\ \A d \in Calls : Image(d) = Image(c) => d = c \/ ForJob(d)
      /\ \A u \in Users : avatar[u] # Image(c)
      /\ \A r \in Requests : req[r] # Idle /\ req[r].image = Image(c) => call[c].who = r

\* Who waits for a call asked for it, and for one only.
CallersWait ==
    /\ \A c, d \in Calls : call[c].who = call[d].who /\ call[c].who # None => c = d
    /\ \A c \in Calls, r \in Requests : call[c].who = r =>
         /\ req[r] # Idle /\ req[r].pc = "wait" /\ req[r].image = Image(c)
         /\ Storing(c) => Uploading(r)
         /\ Deleting(c) => Unphoto(r)
         /\ Doing(c, "answered") /\ call[c].ok /\ Uploading(r) => Arrived(Image(c))
    /\ \A c \in Calls : call[c].who = "cron" =>
         job.pc = "wait" /\ ~Storing(c) /\ Doomed(Image(c))

\* The image of an upload is nobody else's yet, and its file goes only for the job.
UploadsOwn ==
    \A r \in Requests : Uploading(r) =>
      /\ req[r].image \in Images \ offered
      /\ \A u \in Users : avatar[u] # req[r].image
      /\ \A q \in Requests : req[q] # Idle /\ req[q].image = req[r].image => q = r
      /\ \A c \in Calls : Image(c) = req[r].image =>
           call[c].who = r \/ (call[c].who \in {"cron", None} /\ Doomed(Image(c)))
      /\ req[r].pc = "write" =>
           /\ file[req[r].image] # None \/ req[r].image \in named
           /\ req[r].op = "photo"

\* A deletion of an avatar is of the user's own, as it was read.
UnphotosOwn ==
    \A r \in Requests : Unphoto(r) =>
      /\ req[r].image \notin offered
      /\ req[r].image = avatar[req[r].user] \/ req[r].stale \/ avatar[req[r].user] = None
      /\ \A u \in Users : avatar[u] # None /\ avatar[u] = req[r].image => u = req[r].user

\* An avatar is one user's, and no upload for posts was answered with it.
AvatarsOwn ==
    /\ \A u \in Users : avatar[u] \notin offered
    /\ \A u, v \in Users : avatar[u] # None /\ avatar[u] = avatar[v] => u = v

\* Calls delete what no post may need, and images to be named stand.
DeletionsSafe ==
    /\ \A c \in Calls : Deleting(c) => Image(c) \notin offered \/ Doomed(Image(c))
    /\ \A x \in job.images : Doomed(x[2])
    /\ \A i \in offered \ named : Stands(i)

\* Images of posts are named, and those of two posts shared.
PostsName ==
    /\ \A p \in Rows : post[p].images \subseteq named
    /\ \A p, q \in Rows : p # q => post[p].images \cap post[q].images \subseteq shared

\* Image ids that are in use were taken, but where a post named them before.
Known ==
    /\ object \subseteq taken
    /\ \A i \in Images : file[i] # None => i \in taken
    /\ \A c \in Calls : Image(c) \in taken \cup {None} \/ ForJob(c)
    /\ \A u \in Users : avatar[u] \in taken \cup {None}
    /\ \A r \in Requests : req[r] # Idle => req[r].image \in taken \cup {None}

\* Deletions are dated by the first, and the job takes what was old when it read.
Dated ==
    /\ \A p \in Posts : since[p] # None => since[p] <= clock
    /\ \A p \in Rows : post[p].deletedAt # None => since[p] # None /\ since[p] <= post[p].deletedAt
    /\ \A p \in job.posts : since[p] # None /\ since[p] + Keep < clock

\* A deletion of an avatar that ends by clearing it, if nothing fails.
WillClear(r) ==
    /\ Unphoto(r)
    /\ \/ req[r].pc = "write"
       \/ \E c \in Calls : /\ call[c].who = r
                           /\ Cutting(c) \/ (Doing(c, "answered") /\ call[c].ok)

Spoiled == happened \cap {"timeout", "crash", "db", "stop"} # {}

\* An avatar without a file is about to be cleared, or a post named it.
Undangling ==
    \A u \in Users : avatar[u] # None =>
      \/ file[avatar[u]] # None \/ avatar[u] \in named
      \/ \E r \in Requests : WillClear(r) /\ req[r].image = avatar[u]
      \/ Spoiled

\* What requests, avatars and the service's calls know of one another.
Ownership == StoredAlone /\ CallersWait /\ UploadsOwn /\ UnphotosOwn /\ AvatarsOwn /\ Known

MediaInv ==
    /\ TypeOK
    /\ CallsKnow /\ Waited /\ ObjectsMatchRows
    /\ Ownership
    /\ DeletionsSafe /\ PostsName /\ PostImagesStand
    /\ Dated
    /\ Undangling

-----------------------------------------------------------------------------
(* The invariant at first *)

LEMMA InitMediaInv == Init => MediaInv
<1> SUFFICES ASSUME Init PROVE MediaInv
  OBVIOUS
<1>1. \A c \in Calls : call[c] = Free /\ ~Storing(c) /\ ~Deleting(c) /\ ~Cutting(c) /\ call[c].pc = "free"
  BY DEF Init, FilesInit, Storing, Deleting, Cutting, Free
<1>2. \A r \in Requests : req[r] = Idle
  BY DEF Init
<1>3. Rows = {}
  BY DEF Init, Rows
<1>4. TypeOK
  BY <1>1, FilesAssumption, MediaAssumption
  DEF Init, FilesInit, TypeOK, FilesTypeOK, NoJob, Doing, Free
<1>5. CallsKnow /\ Waited
  BY <1>1 DEF CallsKnow, Waited, Storing, Cutting, Doing, Free
<1>6. ObjectsMatchRows
  BY DEF ObjectsMatchRows, Init, FilesInit
<1>7. Ownership
  <2>1. StoredAlone /\ UploadsOwn /\ UnphotosOwn
    BY <1>1, <1>2 DEF StoredAlone, UploadsOwn, UnphotosOwn, Uploading, Unphoto
  <2>2. CallersWait
    BY <1>1, FilesAssumption, MediaAssumption DEF CallersWait, Free
  <2>3. AvatarsOwn /\ Known
    BY <1>1, <1>2 DEF AvatarsOwn, Known, Init, FilesInit, Image, Free
  <2> QED
    BY <2>1, <2>2, <2>3 DEF Ownership
<1>8. DeletionsSafe /\ PostsName /\ PostImagesStand
  BY <1>1, <1>3 DEF DeletionsSafe, PostsName, PostImagesStand, Init, NoJob, Live
<1>9. Dated /\ Undangling
  BY <1>3 DEF Dated, Undangling, Init, NoJob
<1> QED
  BY <1>4, <1>5, <1>6, <1>7, <1>8, <1>9 DEF MediaInv

-----------------------------------------------------------------------------
(* Calls *)

\* A step of the service leaves the other calls alone, and who waits for this
\* one and its file as they were, or the call is over and nobody waited.
LEMMA ServingIs ==
    ASSUME FilesTypeOK, NEW c \in Calls, Serving(c)
    PROVE  /\ call[c] \in InService /\ ~Doing(c, "answered")
           /\ \A d \in Calls \ {c} : call'[d] = call[d]
           /\ call'[c] \in InService \cup {Free}
           /\ call'[c].who = call[c].who
           /\ call'[c] # Free => Image(c)' = Image(c) /\ call'[c].row = call[c].row
           /\ call'[c] = Free => call[c].who = None
           /\ Doing(c, "answered")' => call[c].who # None
           /\ happened \subseteq happened' /\ happened' \subseteq Faults
<1>1. call[c] \in InService /\ ~Doing(c, "answered") /\ call[c].pc # "free"
  <2>1. call[c].pc \in {"put", "create", "find", "unput", "remove", "again"}
    BY DEF Serving, Put, CreateFile, FindFile, Unput, RemoveFile, UnputAgain, Doing
  <2>2. call[c] \in InService \cup {Free} /\ Free.pc = "free"
    BY DEF FilesTypeOK, Free
  <2> QED
    BY <2>1, <2>2 DEF Doing
<1>2. happened \subseteq happened' /\ happened' \subseteq Faults
  BY FilesAssumption DEF FilesTypeOK, Serving, Put, CreateFile, FindFile, Unput, RemoveFile,
     UnputAgain, Fault, NoFault
<1>3. \/ \E pc \in CallSteps \ {"answered"}, b \in BOOLEAN :
            call' = [call EXCEPT ![c] = [call[c] EXCEPT !.pc = pc, !.deleted = b]]
      \/ \E ok \in BOOLEAN : call' = [call EXCEPT ![c] = Answered(c, ok)]
  <2>1. call \in [Calls -> InService \cup {Free}]
    BY DEF FilesTypeOK
  <2>2. ASSUME NEW pc \in CallSteps \ {"answered"}, Then(c, pc)
        PROVE  call' = [call EXCEPT ![c] = [call[c] EXCEPT !.pc = pc, !.deleted = call[c].deleted]]
    BY <2>1, <2>2, <1>1 DEF Then, InService
  <2>3. call[c].deleted \in BOOLEAN
    BY <1>1 DEF InService
  <2>4. ASSUME NEW pc \in CallSteps \ {"answered"}, Then(c, pc) PROVE <1>3
    BY <2>2, <2>3, <2>4
  <2>5. ASSUME NEW ok \in BOOLEAN, Answer(c, ok) PROVE <1>3
    BY <2>5 DEF Answer
  <2>6. CASE Put(c)
    BY <2>6, <2>4, <2>5 DEF Put, CallSteps
  <2>7. CASE CreateFile(c)
    BY <2>7, <2>5 DEF CreateFile, NotCreated
  <2>8. CASE FindFile(c)
    BY <2>8, <2>4, <2>5 DEF FindFile, CallSteps
  <2>9. CASE Unput(c)
    <3>1. CASE call' = [call EXCEPT ![c].pc = "remove", ![c].deleted = TRUE]
      BY <3>1, <2>1, <1>1 DEF CallSteps, InService
    <3> QED
      BY <3>1, <2>9, <2>4, <2>5 DEF Unput, CallSteps
  <2>10. CASE RemoveFile(c)
    BY <2>10, <2>4, <2>5 DEF RemoveFile, AfterRemove, CallSteps
  <2>11. CASE UnputAgain(c)
    BY <2>11, <2>5 DEF UnputAgain
  <2> QED
    BY <2>6, <2>7, <2>8, <2>9, <2>10, <2>11 DEF Serving
<1>4. call \in [Calls -> InService \cup {Free}]
  BY DEF FilesTypeOK
<1>5. Free.who = None /\ Free.pc = "free"
  BY DEF Free
<1>6. CASE \E pc \in CallSteps \ {"answered"}, b \in BOOLEAN :
              call' = [call EXCEPT ![c] = [call[c] EXCEPT !.pc = pc, !.deleted = b]]
  <2>1. PICK pc \in CallSteps \ {"answered"}, b \in BOOLEAN :
            call' = [call EXCEPT ![c] = [call[c] EXCEPT !.pc = pc, !.deleted = b]]
    BY <1>6
  <2>2. call'[c] = [call[c] EXCEPT !.pc = pc, !.deleted = b]
    BY <2>1, <1>4
  <2>3. call'[c] \in InService /\ call'[c].pc # "free" /\ call'[c].pc # "answered"
    BY <2>2, <1>1 DEF InService, CallSteps
  <2>4. call'[c].who = call[c].who /\ Image(c)' = Image(c) /\ call'[c].row = call[c].row
    BY <2>2, <1>1 DEF InService, Image
  <2> QED
    BY <2>1, <2>3, <2>4, <1>1, <1>2, <1>4, <1>5 DEF Doing
<1>7. CASE \E ok \in BOOLEAN : call' = [call EXCEPT ![c] = Answered(c, ok)]
  <2>1. PICK ok \in BOOLEAN : call' = [call EXCEPT ![c] = Answered(c, ok)]
    BY <1>7
  <2>2. CASE call[c].who = None
    BY <2>1, <2>2, <1>1, <1>2, <1>4, <1>5 DEF Answered, Doing
  <2>3. CASE call[c].who # None
    BY <2>1, <2>3, <1>1, <1>2, <1>4, <1>5 DEF Answered, InService, Image, CallSteps
  <2> QED
    BY <2>2, <2>3
<1> QED
  BY <1>3, <1>6, <1>7

LEMMA ServingTyped ==
    ASSUME FilesTypeOK, NEW c \in Calls, Serving(c),
           Storing(c) => Image(c) \in Images /\ call[c].row \in FileRows
    PROVE  FilesTypeOK'
<1>1. /\ call[c] \in InService /\ ~Doing(c, "answered")
      /\ \A d \in Calls \ {c} : call'[d] = call[d]
      /\ call'[c] \in InService \cup {Free}
      /\ call'[c].who = call[c].who
      /\ call'[c] = Free => call[c].who = None
      /\ happened' \subseteq Faults
  BY ServingIs
<1>2. call' \in [Calls -> InService \cup {Free}]
  <2>1. call' = [d \in Calls |-> call'[d]]
    BY DEF FilesTypeOK, Serving, Put, CreateFile, FindFile, Unput, RemoveFile, UnputAgain,
       Answer, Then, NotCreated, AfterRemove
  <2> QED
    BY <1>1, <2>1 DEF FilesTypeOK
<1>3. object' \subseteq Images /\ file' \in [Images -> FileRows \cup {None}]
  BY DEF FilesTypeOK, Serving, Put, CreateFile, FindFile, Unput, RemoveFile, UnputAgain, Storing, Doing
<1>4. \A d \in Calls : Doing(d, "answered")' => call'[d].who \in Callers
  <2>1. Doing(c, "answered")' => call'[c].who # None
    BY <1>1, ServingIs
  <2>2. call[c].who \in Callers \cup {None}
    BY <1>1 DEF InService
  <2> QED
    BY <2>1, <2>2, <1>1 DEF FilesTypeOK, Doing
<1> QED
  BY <1>1, <1>2, <1>3, <1>4 DEF FilesTypeOK

\* A call begins in a free place, and the others are left alone.
LEMMA StoreIs ==
    ASSUME FilesTypeOK, NEW c \in Calls, NEW who \in Callers, NEW i \in Images, NEW row \in FileRows,
           AskToStore(c, who, i, row)
    PROVE  /\ call[c] = Free
           /\ \A d \in Calls \ {c} : call'[d] = call[d]
           /\ call'[c] \in InService /\ call'[c].pc = "put" /\ call'[c].who = who
           /\ Image(c)' = i /\ call'[c].row = row
           /\ call' \in [Calls -> InService \cup {Free}]
  BY DEF AskToStore, Place, FilesTypeOK, Free, InService, CallSteps, Image

LEMMA DeleteIs ==
    ASSUME FilesTypeOK, NEW c \in Calls, NEW who \in Callers, NEW i \in Images \cup {None},
           AskToDelete(c, who, i)
    PROVE  /\ call[c] = Free
           /\ \A d \in Calls \ {c} : call'[d] = call[d]
           /\ call'[c] \in InService /\ call'[c].pc = "find" /\ call'[c].who = who
           /\ Image(c)' = i /\ ~call'[c].deleted
           /\ call' \in [Calls -> InService \cup {Free}]
  BY DEF AskToDelete, Place, FilesTypeOK, Free, InService, CallSteps, Image

\* Who hears of a call, or gives up, has no call after it.
LEMMA HearsIs ==
    ASSUME FilesTypeOK, CallersWait, NEW who \in Callers, NEW ok \in BOOLEAN, Hears(who, ok)
    PROVE  /\ UNCHANGED <<object, file>>
           /\ happened \subseteq happened'
           /\ \A d \in Calls : call[d].who # who => call'[d] = call[d]
           /\ \A d \in Calls : call[d].who = who =>
                \/ call'[d] = Free /\ Doing(d, "answered") /\ call[d].ok = ok
                \/ /\ call'[d] = [call[d] EXCEPT !.who = None]
                   /\ call[d] \in InService /\ ~Doing(d, "answered") /\ ~ok
                   /\ "timeout" \in happened'
           /\ ok => \E d \in Calls : call[d].who = who
           /\ FilesTypeOK'
<1>1. call \in [Calls -> InService \cup {Free}] /\ who # None
  BY FilesAssumption DEF FilesTypeOK
<1>2. \A c, d \in Calls : call[c].who = call[d].who /\ call[c].who # None => c = d
  BY DEF CallersWait
<1>3. Free.who = None /\ Free.pc = "free" /\ None \notin Callers
  BY FilesAssumption DEF Free
<1>4. object' = object /\ file' = file
  BY DEF Hears
<1>5. CASE \E c \in Calls : /\ Doing(c, "answered") /\ call[c].who = who /\ call[c].ok = ok
                            /\ call' = [call EXCEPT ![c] = Free]
                            /\ NoFault
  <2>1. PICK c \in Calls : /\ Doing(c, "answered") /\ call[c].who = who /\ call[c].ok = ok
                           /\ call' = [call EXCEPT ![c] = Free]
                           /\ happened' = happened
    BY <1>5 DEF NoFault
  <2>2. FilesTypeOK'
    BY <1>1, <1>3, <1>4, <2>1 DEF FilesTypeOK, Doing
  <2>3. call'[c] = Free /\ \A d \in Calls \ {c} : call'[d] = call[d]
    BY <1>1, <2>1
  <2>4. \A d \in Calls : call[d].who = who => d = c
    BY <1>1, <1>2, <2>1
  <2> QED
    BY <1>4, <2>1, <2>2, <2>3, <2>4
<1>6. CASE ~ok /\ (\A c \in Calls : call[c].who # who) /\ UNCHANGED call /\ NoFault
  <2>1. FilesTypeOK'
    BY <1>4, <1>6 DEF FilesTypeOK, Doing, NoFault
  <2> QED
    BY <1>4, <1>6, <2>1 DEF NoFault
<1>7. CASE ~ok /\ \E c \in Calls : /\ ~Doing(c, "answered") /\ call[c].who = who
                                   /\ call' = [call EXCEPT ![c].who = None]
                                   /\ Fault("timeout")
  <2>1. PICK c \in Calls : /\ ~Doing(c, "answered") /\ call[c].who = who
                           /\ call' = [call EXCEPT ![c].who = None]
                           /\ Fault("timeout")
    BY <1>7
  <2>2. call[c] \in InService
    BY <1>1, <1>3, <2>1
  <2>3. call'[c] = [call[c] EXCEPT !.who = None] /\ \A d \in Calls \ {c} : call'[d] = call[d]
    BY <1>1, <2>1
  <2>4. call'[c] \in InService /\ call'[c].pc = call[c].pc
    BY <2>2, <2>3 DEF InService
  <2>5. happened' = happened \cup {"timeout"} /\ happened' \subseteq Faults
    BY <2>1, FilesAssumption DEF Fault, FilesTypeOK
  <2>6. call' \in [Calls -> InService \cup {Free}]
    BY <1>1, <2>1, <2>3, <2>4
  <2>7. FilesTypeOK'
    BY <1>4, <2>1, <2>3, <2>4, <2>5, <2>6 DEF FilesTypeOK, Doing
  <2>8. \A d \in Calls : call[d].who = who => d = c
    BY <1>1, <1>2, <2>1
  <2> QED
    BY <1>4, <1>7, <2>1, <2>2, <2>3, <2>5, <2>7, <2>8
<1> QED
  BY <1>5, <1>6, <1>7 DEF Hears

-----------------------------------------------------------------------------
(* Types *)

\* What the gateway keeps has the types it should.
GatewayTypeOK ==
    /\ avatar \in [Users -> Images \cup {None}]
    /\ post \in [Posts -> PostRows \cup {Unborn, Gone}]
    /\ req \in [Requests -> InFlight \cup {Idle}]
    /\ job \in [pc : {"idle", "images", "wait"}, images : SUBSET (Posts \X Images),
               posts : SUBSET Posts]
    /\ clock \in 0 .. MaxClock
    /\ started \in 0 .. MaxStarts
    /\ offered \subseteq taken /\ taken \subseteq Images
    /\ shared \subseteq named /\ named \subseteq Images
    /\ since \in [Posts -> Nat \cup {None}]

LEMMA TypeParts == TypeOK <=> FilesTypeOK /\ GatewayTypeOK
  BY DEF TypeOK, GatewayTypeOK

\* A request in flight is not the idle one.
LEMMA RequestsInFlight ==
    ASSUME TypeOK, NEW r \in Requests
    PROVE  /\ req[r] # Idle => req[r] \in InFlight
           /\ req[r].pc # "idle" => req[r] # Idle
  BY DEF TypeOK, Idle

\* A request arrives in a free place.
LEMMA BeginIs ==
    ASSUME TypeOK, NEW r \in Requests, NEW q \in InFlight, Begin(r, q)
    PROVE  /\ req[r] = Idle /\ req'[r] = q /\ q # Idle
           /\ \A s \in Requests \ {r} : req'[s] = req[s]
           /\ req' \in [Requests -> InFlight \cup {Idle}]
           /\ started' \in 0 .. MaxStarts
<1>1. q # Idle
  BY DEF InFlight, Idle
<1> QED
  BY <1>1, MediaAssumption DEF TypeOK, Begin

LEMMA OverIs ==
    ASSUME TypeOK, NEW r \in Requests, Over(r)
    PROVE  /\ req'[r] = Idle
           /\ \A s \in Requests \ {r} : req'[s] = req[s]
           /\ req' \in [Requests -> InFlight \cup {Idle}]
  BY DEF TypeOK, Over

LEMMA WriteNext ==
    ASSUME TypeOK, NEW r \in Requests, req[r] # Idle, req' = [req EXCEPT ![r].pc = "write"]
    PROVE  /\ req'[r] # Idle /\ req'[r].pc = "write"
           /\ req'[r].op = req[r].op /\ req'[r].user = req[r].user
           /\ req'[r].image = req[r].image /\ req'[r].stale = req[r].stale
           /\ \A s \in Requests \ {r} : req'[s] = req[s]
           /\ req' \in [Requests -> InFlight \cup {Idle}]
<1>1. req[r] \in InFlight
  BY RequestsInFlight
<1>2. req'[r] = [req[r] EXCEPT !.pc = "write"] /\ \A s \in Requests \ {r} : req'[s] = req[s]
  BY DEF TypeOK
<1>3. req'[r] \in InFlight /\ req'[r] # Idle
  BY <1>1, <1>2 DEF InFlight, Idle
<1> QED
  BY <1>1, <1>2, <1>3 DEF TypeOK, InFlight

\* What the write of a new avatar does to the requests.
LEMMA SetAvatarIs ==
    ASSUME TypeOK, NEW r \in Requests, Asked(r, "photo", "write"),
           req' = [q \in Requests |->
                       IF q = r THEN Idle
                       ELSE IF req[q] # Idle /\ req[q].op = "unphoto" /\ req[q].user = req[r].user
                       THEN [req[q] EXCEPT !.stale = TRUE] ELSE req[q]]
    PROVE  /\ req'[r] = Idle
           /\ \A q \in Requests \ {r} :
                \/ /\ req'[q] = req[q]
                   /\ ~(Unphoto(q) /\ req[q].user = req[r].user)
                \/ /\ Unphoto(q) /\ req[q].user = req[r].user
                   /\ req'[q] # Idle /\ req'[q].stale
                   /\ req'[q].op = req[q].op /\ req'[q].user = req[q].user
                   /\ req'[q].image = req[q].image /\ req'[q].pc = req[q].pc
           /\ req' \in [Requests -> InFlight \cup {Idle}]
<1>1. req'[r] = Idle
  OBVIOUS
<1>2. ASSUME NEW q \in Requests \ {r}
      PROVE  /\ \/ /\ req'[q] = req[q]
                   /\ ~(Unphoto(q) /\ req[q].user = req[r].user)
                \/ /\ Unphoto(q) /\ req[q].user = req[r].user
                   /\ req'[q] # Idle /\ req'[q].stale
                   /\ req'[q].op = req[q].op /\ req'[q].user = req[q].user
                   /\ req'[q].image = req[q].image /\ req'[q].pc = req[q].pc
             /\ req'[q] \in InFlight \cup {Idle}
  <2>1. CASE Unphoto(q) /\ req[q].user = req[r].user
    <3>1. req'[q] = [req[q] EXCEPT !.stale = TRUE] /\ req[q] \in InFlight
      BY <2>1, RequestsInFlight DEF Unphoto
    <3>2. req'[q] \in InFlight /\ req'[q] # Idle
      BY <3>1 DEF InFlight, Idle
    <3> QED
      BY <2>1, <3>1, <3>2 DEF InFlight
  <2>2. CASE ~(Unphoto(q) /\ req[q].user = req[r].user)
    <3>1. req'[q] = req[q]
      BY <2>2 DEF Unphoto
    <3> QED
      BY <2>2, <3>1 DEF TypeOK
  <2> QED
    BY <2>1, <2>2
<1>3. req' \in [Requests -> InFlight \cup {Idle}]
  <2>1. req' = [q \in Requests |-> req'[q]]
    OBVIOUS
  <2> QED
    BY <1>1, <1>2, <2>1
<1> QED
  BY <1>1, <1>2, <1>3

LEMMA UploadTyped ==
    ASSUME TypeOK, NEW r \in Requests, NEW c \in Calls, NEW op \in Operations, NEW u \in Users,
           Upload(r, c, op, u)
    PROVE  /\ TypeOK'
           /\ \E i \in Images \ taken :
                /\ taken' = taken \cup {i}
                /\ call[c] = Free /\ call'[c].pc = "put" /\ call'[c].who = r
                /\ call'[c].row \in FileRows /\ call'[c] # Free
                /\ Image(c)' = i
                /\ req[r] = Idle /\ req'[r] # Idle
                /\ req'[r].op \in {"photo", "image"} /\ req'[r].pc = "wait" /\ req'[r].image = i
           /\ \A d \in Calls \ {c} : call'[d] = call[d]
           /\ \A s \in Requests \ {r} : req'[s] = req[s]
<1>1. PICK i \in Images \ taken : i = NewImage
  <2>1. \E i \in Images : i \notin taken
    BY DEF Upload, TypeOK
  <2> QED
    BY <2>1 DEF NewImage
<1>2. PICK row \in FileRows : row = [owner |-> u, type |-> IF op = "photo" THEN "avatar"
                                                           ELSE "post_image"]
  <2>1. [owner |-> u, type |-> IF op = "photo" THEN "avatar" ELSE "post_image"] \in FileRows
    BY DEF FileRows, FileTypes
  <2> QED
    BY <2>1
<1>3. PICK q \in InFlight : q = [Request(op, "wait", u) EXCEPT !.image = i]
  BY DEF Request, InFlight
<1>4. q.op = op /\ q.pc = "wait" /\ q.image = i /\ op \in {"photo", "image"}
  BY <1>3 DEF Request, Upload
<1>5. /\ taken' = taken \cup {i} /\ AskToStore(c, r, i, row) /\ Begin(r, q)
      /\ UNCHANGED <<object, file, happened, avatar, post, job, clock, offered, named, shared, since>>
  BY <1>1, <1>2, <1>3 DEF Upload
<1>6. r \in Callers
  BY MediaAssumption
<1>7. /\ call[c] = Free
      /\ \A d \in Calls \ {c} : call'[d] = call[d]
      /\ call'[c] \in InService /\ call'[c].pc = "put" /\ call'[c].who = r
      /\ Image(c)' = i /\ call'[c].row = row
      /\ call' \in [Calls -> InService \cup {Free}]
  BY <1>5, <1>6, StoreIs DEF TypeOK
<1>8. /\ req[r] = Idle /\ req'[r] = q /\ q # Idle
      /\ \A s \in Requests \ {r} : req'[s] = req[s]
      /\ req' \in [Requests -> InFlight \cup {Idle}]
      /\ started' \in 0 .. MaxStarts
  BY <1>5, BeginIs
<1>9. FilesTypeOK'
  BY <1>5, <1>7 DEF TypeOK, FilesTypeOK, Doing
<1>10. GatewayTypeOK'
  BY <1>5, <1>8 DEF TypeOK, GatewayTypeOK
<1>11. TypeOK'
  BY <1>9, <1>10 DEF TypeOK, GatewayTypeOK
<1>12. call'[c] # Free
  BY <1>7 DEF Free
<1> QED
  BY <1>4, <1>5, <1>7, <1>8, <1>11, <1>12

LEMMA DeletePhotoTyped ==
    ASSUME TypeOK, NEW r \in Requests, NEW c \in Calls, NEW u \in Users, DeletePhoto(r, c, u)
    PROVE  /\ TypeOK'
           /\ call[c] = Free /\ call'[c].pc = "find" /\ call'[c].who = r /\ call'[c] # Free
           /\ Image(c)' = avatar[u] /\ ~call'[c].deleted
           /\ req[r] = Idle /\ req'[r] # Idle
           /\ req'[r].op = "unphoto" /\ req'[r].pc = "wait" /\ req'[r].image = avatar[u]
           /\ req'[r].user = u
           /\ \A d \in Calls \ {c} : call'[d] = call[d]
           /\ \A s \in Requests \ {r} : req'[s] = req[s]
<1>1. PICK i \in Images \cup {None} : i = avatar[u]
  BY DEF TypeOK
<1>2. PICK q \in InFlight : q = [Request("unphoto", "wait", u) EXCEPT !.image = i]
  BY DEF Request, InFlight, Operations
<1>3. q.op = "unphoto" /\ q.pc = "wait" /\ q.image = i /\ q.user = u
  BY <1>2 DEF Request
<1>4. /\ AskToDelete(c, r, i) /\ Begin(r, q)
      /\ UNCHANGED <<object, file, happened, avatar, post, job, clock, history>>
  BY <1>1, <1>2 DEF DeletePhoto, AvatarOf
<1>5. r \in Callers
  BY MediaAssumption
<1>6. /\ call[c] = Free
      /\ \A d \in Calls \ {c} : call'[d] = call[d]
      /\ call'[c] \in InService /\ call'[c].pc = "find" /\ call'[c].who = r
      /\ Image(c)' = i /\ ~call'[c].deleted
      /\ call' \in [Calls -> InService \cup {Free}]
  BY <1>4, <1>5, DeleteIs DEF TypeOK
<1>7. /\ req[r] = Idle /\ req'[r] = q /\ q # Idle
      /\ \A s \in Requests \ {r} : req'[s] = req[s]
      /\ req' \in [Requests -> InFlight \cup {Idle}]
      /\ started' \in 0 .. MaxStarts
  BY <1>4, BeginIs
<1>8. FilesTypeOK'
  BY <1>4, <1>6 DEF TypeOK, FilesTypeOK, Doing
<1>9. GatewayTypeOK'
  BY <1>4, <1>7 DEF TypeOK, GatewayTypeOK, history
<1>10. TypeOK'
  BY <1>8, <1>9 DEF TypeOK, GatewayTypeOK
<1>11. call'[c] # Free
  BY <1>6 DEF Free
<1> QED
  BY <1>1, <1>3, <1>6, <1>7, <1>10, <1>11

LEMMA CleanupImageTyped ==
    ASSUME TypeOK, NEW c \in Calls, CleanupImage(c)
    PROVE  /\ TypeOK'
           /\ call[c] = Free /\ call'[c].pc = "find" /\ call'[c].who = "cron" /\ call'[c] # Free
           /\ ~call'[c].deleted
           /\ \A d \in Calls \ {c} : call'[d] = call[d]
           /\ \E x \in job.images : /\ Image(c)' = x[2]
                                    /\ job' = [job EXCEPT !.pc = "wait", !.images = @ \ {x}]
<1>1. PICK x \in job.images : /\ AskToDelete(c, "cron", x[2])
                              /\ job' = [job EXCEPT !.pc = "wait", !.images = @ \ {x}]
  BY DEF CleanupImage
<1>2. PICK i \in Images \cup {None} : i = x[2]
  BY DEF TypeOK
<1>3. "cron" \in Callers
  BY MediaAssumption
<1>4. /\ call[c] = Free
      /\ \A d \in Calls \ {c} : call'[d] = call[d]
      /\ call'[c] \in InService /\ call'[c].pc = "find" /\ call'[c].who = "cron"
      /\ Image(c)' = i /\ ~call'[c].deleted
      /\ call' \in [Calls -> InService \cup {Free}]
  BY <1>1, <1>2, <1>3, DeleteIs DEF TypeOK
<1>5. FilesTypeOK'
  BY <1>3, <1>4 DEF TypeOK, FilesTypeOK, Doing, CleanupImage
<1>6. job' \in [pc : {"idle", "images", "wait"}, images : SUBSET (Posts \X Images),
               posts : SUBSET Posts]
  BY <1>1 DEF TypeOK
<1>7. GatewayTypeOK'
  BY <1>6 DEF TypeOK, GatewayTypeOK, CleanupImage, history
<1>8. TypeOK'
  BY <1>5, <1>7 DEF TypeOK, GatewayTypeOK
<1>9. call'[c] # Free
  BY <1>4 DEF Free
<1> QED
  BY <1>1, <1>2, <1>4, <1>8, <1>9

-----------------------------------------------------------------------------
(* Steps that begin no call *)

\* A request goes on; it stops waiting once its call was answered.
GoesOn(q) ==
    /\ req[q] # Idle /\ req'[q] # Idle
    /\ req'[q].op = req[q].op /\ req'[q].user = req[q].user /\ req'[q].image = req[q].image
    /\ req[q].stale => req'[q].stale
    /\ req'[q].pc = req[q].pc \/ req'[q].pc = "write"

\* A request about a post, which no image belongs to.
Finds(q) == req'[q] # Idle /\ req'[q].op \in {"edit", "delete"} /\ req'[q].image = None

\* The service is left alone, calls end or lose who waits, requests go on or end.
Settles ==
    /\ UNCHANGED <<object, file>>
    /\ happened \subseteq happened'
    /\ \A d \in Calls :
         \/ call'[d] = call[d]
         \/ call'[d] = Free /\ (Doing(d, "answered") \/ "crash" \in happened')
         \/ /\ call'[d] = [call[d] EXCEPT !.who = None]
            /\ call[d] \in InService /\ ~Doing(d, "answered")
            /\ happened' \cap {"timeout", "stop"} # {}
            /\ \A q \in Requests : call[d].who = q => req'[q] = Idle
    /\ \A q \in Requests : req'[q] = Idle \/ GoesOn(q) \/ Finds(q)
    /\ \A d \in Calls, q \in Requests :
         call'[d].who = q => call[d].who = q /\ GoesOn(q) /\ req'[q].pc = "wait"

\* After Hears the calls are settled, and those of others waited for as before.
LEMMA HeardCalls ==
    ASSUME FilesTypeOK, CallersWait, NEW who \in Callers, NEW ok \in BOOLEAN, Hears(who, ok)
    PROVE  /\ \A d \in Calls :
                \/ call'[d] = call[d]
                \/ call'[d] = Free /\ (Doing(d, "answered") \/ "crash" \in happened')
                \/ /\ call'[d] = [call[d] EXCEPT !.who = None]
                   /\ call[d] \in InService /\ ~Doing(d, "answered")
                   /\ happened' \cap {"timeout", "stop"} # {}
                   /\ call[d].who = who /\ ~ok
           /\ \A d \in Calls : call'[d].who # who
           /\ \A d \in Calls : call'[d].who # None => call'[d] = call[d]
<1>1. /\ \A d \in Calls : call[d].who # who => call'[d] = call[d]
      /\ \A d \in Calls : call[d].who = who =>
           \/ call'[d] = Free /\ Doing(d, "answered") /\ call[d].ok = ok
           \/ /\ call'[d] = [call[d] EXCEPT !.who = None]
              /\ call[d] \in InService /\ ~Doing(d, "answered") /\ ~ok
              /\ "timeout" \in happened'
  BY HearsIs
<1>2. Free.who = None /\ who # None
  BY FilesAssumption DEF Free
<1>3. \A d \in Calls : call[d] \in InService /\ call'[d] = [call[d] EXCEPT !.who = None]
                         => call'[d].who = None
  BY DEF InService
<1> QED
  BY <1>1, <1>2, <1>3

LEMMA UploadedSettles ==
    ASSUME TypeOK, Ownership, NEW r \in Requests, Uploaded(r)
    PROVE  /\ TypeOK' /\ Settles
           /\ \A q \in Requests \ {r} : req'[q] = req[q]
           /\ Uploading(r)
           /\ \/ req'[r] = Idle /\ offered' = offered
              \/ /\ req'[r].op = "photo" /\ req'[r].pc = "write" /\ GoesOn(r)
                 /\ offered' = offered /\ Arrived(req[r].image)
              \/ /\ req'[r] = Idle /\ offered' = offered \cup {req[r].image}
                 /\ Arrived(req[r].image)
           /\ \A d \in Calls : call[d].who # r => call'[d] = call[d]
           /\ offered' # offered => \A d \in Calls : call[d].who = r => Doing(d, "answered")
<1>1. PICK ok \in BOOLEAN :
        /\ Hears(r, ok)
        /\ \/ ~ok /\ Over(r) /\ UNCHANGED offered
           \/ /\ ok /\ req[r].op = "photo"
              /\ req' = [req EXCEPT ![r].pc = "write"] /\ UNCHANGED offered
           \/ ok /\ req[r].op # "photo" /\ Over(r) /\ offered' = offered \cup {req[r].image}
  BY DEF Uploaded
<1>2. r \in Callers /\ CallersWait /\ UploadsOwn /\ FilesTypeOK /\ Known
  BY MediaAssumption DEF Ownership, TypeOK
<1>3. /\ UNCHANGED <<object, file>> /\ happened \subseteq happened' /\ FilesTypeOK'
      /\ ok => \E d \in Calls : call[d].who = r
  BY <1>1, <1>2, HearsIs
<1>4. /\ \A d \in Calls :
           \/ call'[d] = call[d]
           \/ call'[d] = Free /\ (Doing(d, "answered") \/ "crash" \in happened')
           \/ /\ call'[d] = [call[d] EXCEPT !.who = None]
              /\ call[d] \in InService /\ ~Doing(d, "answered")
              /\ happened' \cap {"timeout", "stop"} # {}
              /\ call[d].who = r /\ ~ok
      /\ \A d \in Calls : call'[d].who # r
      /\ \A d \in Calls : call'[d].who # None => call'[d] = call[d]
  BY <1>1, <1>2, HeardCalls
<1>5. req[r] # Idle /\ req[r].pc = "wait" /\ req[r].op \in {"photo", "image"} /\ Uploading(r)
  BY DEF Uploaded, Asked, Uploading
<1>6. ok => Arrived(req[r].image)
  <2>1. SUFFICES ASSUME ok PROVE Arrived(req[r].image)
    OBVIOUS
  <2>2. PICK d \in Calls : call[d].who = r
    BY <1>3, <2>1
  <2>3. Doing(d, "answered") /\ call[d].ok
    BY <1>1, <1>2, <2>1, <2>2, HearsIs
  <2> QED
    BY <2>2, <2>3, <1>2, <1>5 DEF CallersWait, Arrived
<1>a. offered' # offered => \A d \in Calls : call[d].who = r => Doing(d, "answered")
  BY <1>1, <1>2, HearsIs
<1>7. req[r].image \in taken
  BY <1>2, <1>5, FilesAssumption DEF UploadsOwn, Known
<1>8. /\ req' \in [Requests -> InFlight \cup {Idle}]
      /\ \A q \in Requests \ {r} : req'[q] = req[q]
      /\ ~ok => req'[r] = Idle
      /\ \/ req'[r] = Idle /\ offered' = offered
         \/ /\ req'[r].op = "photo" /\ req'[r].pc = "write" /\ GoesOn(r)
            /\ offered' = offered /\ Arrived(req[r].image)
         \/ /\ req'[r] = Idle /\ offered' = offered \cup {req[r].image}
            /\ Arrived(req[r].image)
  <2>1. CASE Over(r) /\ UNCHANGED offered
    BY <2>1, OverIs
  <2>2. CASE ok /\ req[r].op = "photo" /\ req' = [req EXCEPT ![r].pc = "write"] /\ UNCHANGED offered
    BY <2>2, <1>5, <1>6, WriteNext DEF GoesOn
  <2>3. CASE ok /\ Over(r) /\ offered' = offered \cup {req[r].image}
    BY <2>3, <1>6, OverIs
  <2> QED
    BY <1>1, <2>1, <2>2, <2>3
<1>9. GatewayTypeOK'
  BY <1>7, <1>8 DEF TypeOK, GatewayTypeOK, Uploaded
<1>10. TypeOK'
  BY <1>3, <1>9 DEF TypeOK, GatewayTypeOK
<1>11. \A q \in Requests : req[q] = req'[q] => req'[q] = Idle \/ GoesOn(q)
  BY DEF GoesOn
<1>12. \A d \in Calls, q \in Requests :
         call'[d].who = q => call[d].who = q /\ GoesOn(q) /\ req'[q].pc = "wait"
  <2> SUFFICES ASSUME NEW d \in Calls, NEW q \in Requests, call'[d].who = q
               PROVE  call[d].who = q /\ GoesOn(q) /\ req'[q].pc = "wait"
    OBVIOUS
  <2>1. q # None /\ q # r
    BY <1>4, FilesAssumption, MediaAssumption
  <2>2. call'[d] = call[d] /\ req'[q] = req[q]
    BY <2>1, <1>4, <1>8
  <2>3. req[q] # Idle /\ req[q].pc = "wait"
    BY <2>2, <1>2 DEF CallersWait
  <2> QED
    BY <2>2, <2>3 DEF GoesOn
<1>13. Settles
  BY <1>3, <1>4, <1>8, <1>11, <1>12 DEF Settles
<1>14. \A d \in Calls : call[d].who # r => call'[d] = call[d]
  BY <1>1, <1>2, HearsIs
<1> QED
  BY <1>5, <1>8, <1>10, <1>13, <1>14, <1>a

LEMMA PhotoDeletedSettles ==
    ASSUME TypeOK, Ownership, NEW r \in Requests, PhotoDeleted(r)
    PROVE  /\ TypeOK' /\ Settles
           /\ \A q \in Requests \ {r} : req'[q] = req[q]
           /\ Unphoto(r)
           /\ \A d \in Calls : call[d].who # r => call'[d] = call[d]
           /\ \/ req'[r] = Idle /\ (WillClear(r) => "timeout" \in happened')
              \/ req'[r].op = "unphoto" /\ req'[r].pc = "write" /\ GoesOn(r)
<1>1. PICK ok \in BOOLEAN :
        /\ Hears(r, ok)
        /\ \/ ok /\ req' = [req EXCEPT ![r].pc = "write"]
           \/ ~ok /\ Over(r)
  BY DEF PhotoDeleted, AfterDeletion
<1>2. r \in Callers /\ CallersWait /\ FilesTypeOK
  BY MediaAssumption DEF Ownership, TypeOK
<1>3. /\ UNCHANGED <<object, file>> /\ happened \subseteq happened' /\ FilesTypeOK'
      /\ \A d \in Calls : call[d].who = r =>
           \/ Doing(d, "answered") /\ call[d].ok = ok
           \/ ~Doing(d, "answered") /\ ~ok /\ "timeout" \in happened'
  <2>1. /\ UNCHANGED <<object, file>> /\ happened \subseteq happened' /\ FilesTypeOK'
    BY <1>1, <1>2, HearsIs
  <2>2. \A d \in Calls : call[d].who = r =>
           \/ call'[d] = Free /\ Doing(d, "answered") /\ call[d].ok = ok
           \/ /\ call'[d] = [call[d] EXCEPT !.who = None]
              /\ call[d] \in InService /\ ~Doing(d, "answered") /\ ~ok
              /\ "timeout" \in happened'
    BY <1>1, <1>2, HearsIs
  <2> QED
    BY <2>1, <2>2
<1>4. /\ \A d \in Calls :
           \/ call'[d] = call[d]
           \/ call'[d] = Free /\ (Doing(d, "answered") \/ "crash" \in happened')
           \/ /\ call'[d] = [call[d] EXCEPT !.who = None]
              /\ call[d] \in InService /\ ~Doing(d, "answered")
              /\ happened' \cap {"timeout", "stop"} # {}
              /\ call[d].who = r /\ ~ok
      /\ \A d \in Calls : call'[d].who # r
      /\ \A d \in Calls : call'[d].who # None => call'[d] = call[d]
  BY <1>1, <1>2, HeardCalls
<1>5. req[r] # Idle /\ req[r].pc = "wait" /\ req[r].op = "unphoto" /\ Unphoto(r)
  BY DEF PhotoDeleted, Asked, Unphoto
<1>6. WillClear(r) /\ ~ok => "timeout" \in happened'
  BY <1>3, <1>5 DEF WillClear, Cutting, Doing
<1>7. /\ req' \in [Requests -> InFlight \cup {Idle}]
      /\ \A q \in Requests \ {r} : req'[q] = req[q]
      /\ ~ok => req'[r] = Idle
      /\ \/ req'[r] = Idle /\ ~ok
         \/ req'[r].op = "unphoto" /\ req'[r].pc = "write" /\ GoesOn(r)
  <2>1. CASE ~ok /\ Over(r)
    BY <2>1, OverIs
  <2>2. CASE ok /\ req' = [req EXCEPT ![r].pc = "write"]
    BY <2>2, <1>5, WriteNext DEF GoesOn
  <2> QED
    BY <1>1, <2>1, <2>2
<1>8. GatewayTypeOK'
  BY <1>7 DEF TypeOK, GatewayTypeOK, PhotoDeleted, history
<1>9. TypeOK'
  BY <1>3, <1>8 DEF TypeOK, GatewayTypeOK
<1>10. \A q \in Requests : req[q] = req'[q] => req'[q] = Idle \/ GoesOn(q)
  BY DEF GoesOn
<1>11. \A d \in Calls, q \in Requests :
         call'[d].who = q => call[d].who = q /\ GoesOn(q) /\ req'[q].pc = "wait"
  <2> SUFFICES ASSUME NEW d \in Calls, NEW q \in Requests, call'[d].who = q
               PROVE  call[d].who = q /\ GoesOn(q) /\ req'[q].pc = "wait"
    OBVIOUS
  <2>1. q # None /\ q # r
    BY <1>4, FilesAssumption, MediaAssumption
  <2>2. call'[d] = call[d] /\ req'[q] = req[q]
    BY <2>1, <1>4, <1>7
  <2>3. req[q] # Idle /\ req[q].pc = "wait"
    BY <2>2, <1>2 DEF CallersWait
  <2> QED
    BY <2>2, <2>3 DEF GoesOn
<1>12. Settles
  BY <1>3, <1>4, <1>7, <1>10, <1>11 DEF Settles
<1>13. \A d \in Calls : call[d].who # r => call'[d] = call[d]
  BY <1>1, <1>2, HearsIs
<1> QED
  BY <1>5, <1>6, <1>7, <1>9, <1>12, <1>13

\* The job hears of its call.
LEMMA CleanupHearsSettles ==
    ASSUME TypeOK, Ownership, CleanupHears
    PROVE  /\ TypeOK' /\ Settles /\ req' = req
           /\ job' = [job EXCEPT !.pc = "images"]
           /\ \A d \in Calls : call'[d].who # "cron"
           /\ \A d \in Calls : call[d].who \in Requests => call'[d] = call[d]
<1>1. PICK ok \in BOOLEAN : Hears("cron", ok)
  BY DEF CleanupHears
<1>2. "cron" \in Callers /\ "cron" \notin Requests /\ CallersWait /\ FilesTypeOK
  BY MediaAssumption DEF Ownership, TypeOK
<1>3. /\ UNCHANGED <<object, file>> /\ happened \subseteq happened' /\ FilesTypeOK'
      /\ \A d \in Calls : call[d].who # "cron" => call'[d] = call[d]
  BY <1>1, <1>2, HearsIs
<1>4. /\ \A d \in Calls :
           \/ call'[d] = call[d]
           \/ call'[d] = Free /\ (Doing(d, "answered") \/ "crash" \in happened')
           \/ /\ call'[d] = [call[d] EXCEPT !.who = None]
              /\ call[d] \in InService /\ ~Doing(d, "answered")
              /\ happened' \cap {"timeout", "stop"} # {}
              /\ call[d].who = "cron" /\ ~ok
      /\ \A d \in Calls : call'[d].who # "cron"
      /\ \A d \in Calls : call'[d].who # None => call'[d] = call[d]
  BY <1>1, <1>2, HeardCalls
<1>5. req' = req /\ job' = [job EXCEPT !.pc = "images"]
  BY DEF CleanupHears
<1>6. job' \in [pc : {"idle", "images", "wait"}, images : SUBSET (Posts \X Images),
                posts : SUBSET Posts]
  BY <1>5 DEF TypeOK
<1>7. GatewayTypeOK'
  BY <1>6 DEF TypeOK, GatewayTypeOK, CleanupHears, history
<1>8. TypeOK'
  BY <1>3, <1>7 DEF TypeOK, GatewayTypeOK
<1>9. \A q \in Requests : req'[q] = Idle \/ GoesOn(q)
  BY <1>5 DEF GoesOn
<1>10. \A d \in Calls, q \in Requests :
         call'[d].who = q => call[d].who = q /\ GoesOn(q) /\ req'[q].pc = "wait"
  <2> SUFFICES ASSUME NEW d \in Calls, NEW q \in Requests, call'[d].who = q
               PROVE  call[d].who = q /\ GoesOn(q) /\ req'[q].pc = "wait"
    OBVIOUS
  <2>1. q # None
    BY FilesAssumption, MediaAssumption
  <2>2. call'[d] = call[d]
    BY <2>1, <1>4
  <2>3. req[q] # Idle /\ req[q].pc = "wait"
    BY <2>2, <1>2 DEF CallersWait
  <2> QED
    BY <2>2, <2>3, <1>5 DEF GoesOn
<1>11. Settles
  BY <1>2, <1>3, <1>4, <1>9, <1>10 DEF Settles
<1>12. \A d \in Calls : call[d].who \in Requests => call'[d] = call[d]
  BY <1>2, <1>3
<1> QED
  BY <1>4, <1>5, <1>8, <1>11, <1>12

LEMMA FaultIs ==
    ASSUME NEW f \in Faults, Fault(f), happened \subseteq Faults
    PROVE  happened \subseteq happened' /\ f \in happened' /\ f \notin happened
           /\ happened' \subseteq Faults
  BY DEF Fault

LEMMA ServiceCrashSettles ==
    ASSUME TypeOK, Ownership, ServiceCrash, UNCHANGED gateway
    PROVE  TypeOK' /\ Settles /\ "crash" \in happened'
<1>1. \A d \in Calls : call'[d] = call[d] \/ call'[d] = Free
  BY DEF ServiceCrash
<1>2. happened \subseteq happened' /\ "crash" \in happened' /\ happened' \subseteq Faults
  BY FaultIs DEF ServiceCrash, Faults, TypeOK, FilesTypeOK
<1>3. call' \in [Calls -> InService \cup {Free}]
  BY DEF ServiceCrash, TypeOK, FilesTypeOK
<1>4. \A d \in Calls : Doing(d, "answered")' => call'[d].who \in Callers
  BY <1>1 DEF Doing, TypeOK, FilesTypeOK, Free
<1>5. FilesTypeOK'
  BY <1>2, <1>3, <1>4 DEF TypeOK, FilesTypeOK, ServiceCrash
<1>6. GatewayTypeOK'
  BY DEF TypeOK, GatewayTypeOK, gateway, history
<1>7. TypeOK'
  BY <1>5, <1>6 DEF TypeOK, GatewayTypeOK
<1>8. \A q \in Requests : req'[q] = Idle \/ GoesOn(q)
  BY DEF GoesOn, gateway
<1>9. \A d \in Calls, q \in Requests :
         call'[d].who = q => call[d].who = q /\ GoesOn(q) /\ req'[q].pc = "wait"
  <2> SUFFICES ASSUME NEW d \in Calls, NEW q \in Requests, call'[d].who = q
               PROVE  call[d].who = q /\ GoesOn(q) /\ req'[q].pc = "wait"
    OBVIOUS
  <2>1. call'[d] = call[d]
    BY <1>1, FilesAssumption, MediaAssumption DEF Free
  <2>2. req[q] # Idle /\ req[q].pc = "wait"
    BY <2>1 DEF CallersWait, Ownership
  <2> QED
    BY <2>1, <2>2 DEF GoesOn, gateway
<1>10. UNCHANGED <<object, file>>
  BY DEF ServiceCrash
<1>11. Settles
  BY <1>1, <1>2, <1>8, <1>9, <1>10 DEF Settles
<1> QED
  BY <1>2, <1>7, <1>11

LEMMA FreeIsNobodys == [Free EXCEPT !.who = None] = Free
<1> DEFINE Alike == [pc : {"free"}, who : {None}, image : {None}, row : {None}, ok : {FALSE},
                     deleted : {FALSE}]
<1>1. [Free EXCEPT !.who = None] \in Alike
  BY DEF Free
<1>2. ASSUME NEW other \in Alike PROVE other = Free
  BY <1>2 DEF Free
<1> QED
  BY <1>1, <1>2

LEMMA GatewayStopSettles ==
    ASSUME TypeOK, Ownership, GatewayStop
    PROVE  /\ TypeOK' /\ Settles /\ "stop" \in happened'
           /\ \A q \in Requests : req'[q] = Idle
           /\ \A d \in Calls : call'[d].who = None
<1>1. happened \subseteq happened' /\ "stop" \in happened' /\ happened' \subseteq Faults
  BY FaultIs DEF GatewayStop, Faults, TypeOK, FilesTypeOK
<1>2. \A d \in Calls :
        \/ call'[d] = Free /\ (Doing(d, "answered") \/ call[d] = Free)
        \/ /\ call'[d] = [call[d] EXCEPT !.who = None]
           /\ call[d] \in InService /\ ~Doing(d, "answered")
  <2> SUFFICES ASSUME NEW d \in Calls
               PROVE  \/ call'[d] = Free /\ (Doing(d, "answered") \/ call[d] = Free)
                      \/ /\ call'[d] = [call[d] EXCEPT !.who = None]
                         /\ call[d] \in InService /\ ~Doing(d, "answered")
    OBVIOUS
  <2>1. call[d] \in InService \/ call[d] = Free
    BY DEF TypeOK, FilesTypeOK
  <2>2. [Free EXCEPT !.who = None] = Free
    BY FreeIsNobodys
  <2> QED
    BY <2>1, <2>2 DEF GatewayStop
<1>3. \A d \in Calls : call'[d].who = None /\ call'[d] \in InService \cup {Free}
                       /\ ~Doing(d, "answered")'
  <2> SUFFICES ASSUME NEW d \in Calls
               PROVE  call'[d].who = None /\ call'[d] \in InService \cup {Free}
                      /\ call'[d].pc # "answered"
    BY DEF Doing
  <2>1. CASE call'[d] = Free
    BY <2>1 DEF Free
  <2>2. CASE /\ call'[d] = [call[d] EXCEPT !.who = None]
             /\ call[d] \in InService /\ ~Doing(d, "answered")
    BY <2>2 DEF InService, Doing
  <2> QED
    BY <1>2, <2>1, <2>2
<1>4. call' \in [Calls -> InService \cup {Free}]
  <2>1. call' = [d \in Calls |-> call'[d]]
    BY DEF GatewayStop
  <2> QED
    BY <1>3, <2>1
<1>5. FilesTypeOK'
  BY <1>1, <1>3, <1>4 DEF TypeOK, FilesTypeOK, GatewayStop
<1>6. GatewayTypeOK'
  BY DEF TypeOK, GatewayTypeOK, GatewayStop, history, NoJob
<1>7. TypeOK'
  BY <1>5, <1>6 DEF TypeOK, GatewayTypeOK
<1>8. \A q \in Requests : req'[q] = Idle
  BY DEF GatewayStop
<1>9. \A d \in Calls, q \in Requests : call'[d].who # q
  BY <1>3, FilesAssumption, MediaAssumption
<1>10. UNCHANGED <<object, file>>
  BY DEF GatewayStop
<1>11. Settles
  BY <1>1, <1>2, <1>8, <1>9, <1>10 DEF Settles
<1> QED
  BY <1>1, <1>3, <1>7, <1>8, <1>11

\* Steps that leave calls alone, and the requests that wait for one.
LEMMA CallsAlone ==
    ASSUME Ownership, UNCHANGED <<object, file, call>>, happened \subseteq happened',
           \A q \in Requests :
             /\ req[q] # Idle /\ req[q].pc = "wait" => GoesOn(q) /\ req'[q].pc = "wait"
             /\ req'[q] = Idle \/ GoesOn(q) \/ Finds(q)
    PROVE  Settles
  BY DEF Settles, Ownership, CallersWait

LEMMA SetAvatarSettles ==
    ASSUME TypeOK, Ownership, NEW r \in Requests, SetAvatar(r)
    PROVE  /\ TypeOK' /\ Settles /\ Uploading(r) /\ req[r].pc = "write" /\ req'[r] = Idle
           /\ req[r].user \in Users
           /\ \A q \in Requests \ {r} : req[q] # Idle => GoesOn(q) /\ req'[q].pc = req[q].pc
           /\ \A q \in Requests : req'[q] # Idle => GoesOn(q)
           /\ \/ /\ avatar' = [avatar EXCEPT ![req[r].user] = req[r].image]
                 /\ \A q \in Requests : Unphoto(q)' /\ req'[q].user = req[r].user => req'[q].stale
              \/ avatar' = avatar
<1>1. req[r] # Idle /\ req[r].op = "photo" /\ req[r].pc = "write" /\ Uploading(r)
  BY DEF SetAvatar, Asked, Uploading
<1>2. req[r] \in InFlight
  BY <1>1, RequestsInFlight
<1>3. \/ /\ avatar' = [avatar EXCEPT ![req[r].user] = req[r].image]
         /\ \A q \in Requests \ {r} :
              \/ req'[q] = req[q] /\ ~(Unphoto(q) /\ req[q].user = req[r].user)
              \/ /\ Unphoto(q) /\ req[q].user = req[r].user
                 /\ req'[q] # Idle /\ req'[q].stale
                 /\ req'[q].op = req[q].op /\ req'[q].user = req[q].user
                 /\ req'[q].image = req[q].image /\ req'[q].pc = req[q].pc
         /\ req'[r] = Idle /\ req' \in [Requests -> InFlight \cup {Idle}]
         /\ happened' = happened
      \/ /\ avatar' = avatar /\ Fault("db")
         /\ req'[r] = Idle /\ \A q \in Requests \ {r} : req'[q] = req[q]
         /\ req' \in [Requests -> InFlight \cup {Idle}]
  <2>1. CASE Fault("db") /\ Over(r) /\ UNCHANGED avatar
    BY <2>1, OverIs
  <2>2. CASE /\ avatar' = [avatar EXCEPT ![req[r].user] = req[r].image]
             /\ req' = [q \in Requests |->
                          IF q = r THEN Idle
                          ELSE IF req[q] # Idle /\ req[q].op = "unphoto" /\ req[q].user = req[r].user
                          THEN [req[q] EXCEPT !.stale = TRUE] ELSE req[q]]
             /\ NoFault
    <3>1. Asked(r, "photo", "write")
      BY DEF SetAvatar
    <3>2. /\ req'[r] = Idle
          /\ \A q \in Requests \ {r} :
               \/ req'[q] = req[q] /\ ~(Unphoto(q) /\ req[q].user = req[r].user)
               \/ /\ Unphoto(q) /\ req[q].user = req[r].user
                  /\ req'[q] # Idle /\ req'[q].stale
                  /\ req'[q].op = req[q].op /\ req'[q].user = req[q].user
                  /\ req'[q].image = req[q].image /\ req'[q].pc = req[q].pc
          /\ req' \in [Requests -> InFlight \cup {Idle}]
      BY <2>2, <3>1, SetAvatarIs
    <3> QED
      BY <2>2, <3>2 DEF NoFault
  <2> QED
    BY <2>1, <2>2 DEF SetAvatar
<1>4. happened \subseteq happened' /\ happened' \subseteq Faults
  BY <1>3, FaultIs DEF TypeOK, FilesTypeOK, Faults
<1>5. \A q \in Requests \ {r} : req[q] # Idle => GoesOn(q) /\ req'[q].pc = req[q].pc
  BY <1>3 DEF GoesOn, Unphoto
<1>6. \A q \in Requests : req'[q] # Idle => GoesOn(q)
  BY <1>3, <1>5 DEF Unphoto
<1>7. FilesTypeOK'
  BY <1>4 DEF TypeOK, FilesTypeOK, SetAvatar, files, Doing
<1>8. GatewayTypeOK'
  BY <1>2, <1>3 DEF TypeOK, GatewayTypeOK, SetAvatar, history, InFlight
<1>9. TypeOK'
  BY <1>7, <1>8 DEF TypeOK, GatewayTypeOK
<1>10. Settles
  <2>1. UNCHANGED <<object, file, call>>
    BY DEF SetAvatar, files
  <2>2. \A q \in Requests :
          /\ req[q] # Idle /\ req[q].pc = "wait" => GoesOn(q) /\ req'[q].pc = "wait"
          /\ req'[q] = Idle \/ GoesOn(q) \/ Finds(q)
    BY <1>1, <1>5, <1>6
  <2> QED
    BY <1>4, <2>1, <2>2, CallsAlone
<1>11. \/ avatar' = avatar
       \/ /\ avatar' = [avatar EXCEPT ![req[r].user] = req[r].image]
          /\ \A q \in Requests : Unphoto(q)' /\ req'[q].user = req[r].user => req'[q].stale
  BY <1>3 DEF Unphoto
<1> QED
  BY <1>1, <1>2, <1>3, <1>5, <1>6, <1>9, <1>10, <1>11 DEF InFlight

\* What the other writes of requests do: theirs is over.
LEMMA OverSettles ==
    ASSUME TypeOK, Ownership, NEW r \in Requests, Over(r), req[r].pc = "write",
           UNCHANGED <<object, file, call>>, happened \subseteq happened', happened' \subseteq Faults
    PROVE  /\ FilesTypeOK' /\ Settles /\ req'[r] = Idle
           /\ \A q \in Requests \ {r} : req'[q] = req[q]
           /\ req' \in [Requests -> InFlight \cup {Idle}]
<1>1. /\ req'[r] = Idle /\ \A q \in Requests \ {r} : req'[q] = req[q]
      /\ req' \in [Requests -> InFlight \cup {Idle}]
  BY OverIs
<1>2. FilesTypeOK'
  BY DEF TypeOK, FilesTypeOK, Doing
<1>3. \A q \in Requests :
        /\ req[q] # Idle /\ req[q].pc = "wait" => GoesOn(q) /\ req'[q].pc = "wait"
        /\ req'[q] = Idle \/ GoesOn(q) \/ Finds(q)
  BY <1>1 DEF GoesOn
<1> QED
  BY <1>1, <1>2, <1>3, CallsAlone

LEMMA ClearAvatarSettles ==
    ASSUME TypeOK, Ownership, NEW r \in Requests, ClearAvatar(r)
    PROVE  /\ TypeOK' /\ Settles /\ Unphoto(r) /\ req'[r] = Idle
           /\ req[r].user \in Users
           /\ \A q \in Requests \ {r} : req'[q] = req[q]
           /\ \/ avatar' = [avatar EXCEPT ![req[r].user] = None]
              \/ avatar' = avatar /\ "db" \in happened'
<1>1. req[r] # Idle /\ req[r].op = "unphoto" /\ req[r].pc = "write" /\ Unphoto(r) /\ req[r] \in InFlight
  BY RequestsInFlight DEF ClearAvatar, Asked, Unphoto
<1>2. happened \subseteq happened' /\ happened' \subseteq Faults
  BY FaultIs DEF TypeOK, FilesTypeOK, Faults, ClearAvatar, NoFault
<1>3. \/ avatar' = [avatar EXCEPT ![req[r].user] = None]
      \/ avatar' = avatar /\ "db" \in happened'
  BY FaultIs DEF TypeOK, FilesTypeOK, Faults, ClearAvatar
<1>4. /\ FilesTypeOK' /\ Settles /\ req'[r] = Idle
      /\ \A q \in Requests \ {r} : req'[q] = req[q]
      /\ req' \in [Requests -> InFlight \cup {Idle}]
  BY <1>1, <1>2, OverSettles DEF ClearAvatar, files
<1>5. GatewayTypeOK'
  BY <1>1, <1>3, <1>4 DEF TypeOK, GatewayTypeOK, ClearAvatar, history, InFlight
<1>6. TypeOK'
  BY <1>4, <1>5 DEF TypeOK, GatewayTypeOK
<1> QED
  BY <1>1, <1>3, <1>4, <1>6 DEF InFlight

LEMMA EditPostSettles ==
    ASSUME TypeOK, Ownership, NEW r \in Requests, EditPost(r)
    PROVE  /\ TypeOK' /\ Settles /\ req'[r] = Idle /\ ~WillClear(r)
           /\ \A q \in Requests \ {r} : req'[q] = req[q]
           /\ \A p \in Posts : \/ post'[p] = post[p]
                               \/ p \in Rows /\ post'[p] = [post[p] EXCEPT !.edited = TRUE]
<1>1. req[r] # Idle /\ req[r].op = "edit" /\ req[r].pc = "write"
  BY DEF EditPost, Asked
<1>2. happened \subseteq happened' /\ happened' \subseteq Faults
  BY DEF TypeOK, FilesTypeOK, EditPost
<1>3. /\ FilesTypeOK' /\ Settles /\ req'[r] = Idle
      /\ \A q \in Requests \ {r} : req'[q] = req[q]
      /\ req' \in [Requests -> InFlight \cup {Idle}]
  BY <1>1, <1>2, OverSettles DEF EditPost, files
<1>4. /\ \A p \in Posts : \/ post'[p] = post[p]
                          \/ p \in Rows /\ post'[p] = [post[p] EXCEPT !.edited = TRUE]
      /\ post' \in [Posts -> PostRows \cup {Unborn, Gone}]
  <2>1. CASE Editable(req[r].post)
    <3>1. req[r].post \in Rows
      BY <2>1 DEF Editable, Live
    <3>2. post[req[r].post] \in PostRows /\ req[r].post \in Posts
      BY <3>1 DEF Rows, TypeOK
    <3>3. [post[req[r].post] EXCEPT !.edited = TRUE] \in PostRows
      BY <3>2 DEF PostRows
    <3> QED
      BY <2>1, <3>1, <3>2, <3>3 DEF EditPost, TypeOK
  <2>2. CASE ~Editable(req[r].post)
    BY <2>2 DEF EditPost, TypeOK
  <2> QED
    BY <2>1, <2>2
<1>5. GatewayTypeOK'
  BY <1>3, <1>4 DEF TypeOK, GatewayTypeOK, EditPost, history
<1>6. TypeOK'
  BY <1>3, <1>5 DEF TypeOK, GatewayTypeOK
<1> QED
  BY <1>1, <1>3, <1>4, <1>6 DEF WillClear, Unphoto

LEMMA DeletePostSettles ==
    ASSUME TypeOK, Ownership, NEW r \in Requests, DeletePost(r)
    PROVE  /\ TypeOK' /\ Settles /\ req'[r] = Idle /\ ~WillClear(r)
           /\ \A q \in Requests \ {r} : req'[q] = req[q]
           /\ \/ UNCHANGED <<post, since>>
              \/ \E p \in Rows :
                   /\ post'[p] = [post[p] EXCEPT !.deletedAt = clock]
                   /\ since'[p] = IF since[p] = None THEN clock ELSE since[p]
                   /\ \A x \in Posts \ {p} : post'[x] = post[x] /\ since'[x] = since[x]
<1>1. req[r] # Idle /\ req[r].op = "delete" /\ req[r].pc = "write"
  BY DEF DeletePost, Asked
<1>2. happened \subseteq happened' /\ happened' \subseteq Faults
  BY FaultIs DEF TypeOK, FilesTypeOK, Faults, DeletePost, NoFault
<1>3. /\ FilesTypeOK' /\ Settles /\ req'[r] = Idle
      /\ \A q \in Requests \ {r} : req'[q] = req[q]
      /\ req' \in [Requests -> InFlight \cup {Idle}]
  BY <1>1, <1>2, OverSettles DEF DeletePost, files
<1>4. /\ \/ UNCHANGED <<post, since>>
         \/ \E p \in Rows :
              /\ post'[p] = [post[p] EXCEPT !.deletedAt = clock]
              /\ since'[p] = IF since[p] = None THEN clock ELSE since[p]
              /\ \A x \in Posts \ {p} : post'[x] = post[x] /\ since'[x] = since[x]
      /\ post' \in [Posts -> PostRows \cup {Unborn, Gone}]
      /\ since' \in [Posts -> Nat \cup {None}]
  <2>1. CASE UNCHANGED <<post, since>>
    BY <2>1 DEF TypeOK
  <2>2. CASE /\ req[r].post \in Rows
             /\ post' = [post EXCEPT ![req[r].post].deletedAt = clock]
             /\ since' = [since EXCEPT ![req[r].post] = IF @ = None THEN clock ELSE @]
    <3>1. post[req[r].post] \in PostRows /\ req[r].post \in Posts /\ clock \in Nat
      BY <2>2, MediaAssumption DEF Rows, TypeOK
    <3>2. [post[req[r].post] EXCEPT !.deletedAt = clock] \in PostRows
      BY <3>1 DEF PostRows
    <3> QED
      BY <2>2, <3>1, <3>2 DEF TypeOK
  <2> QED
    BY <2>1, <2>2 DEF DeletePost
<1>5. GatewayTypeOK'
  BY <1>3, <1>4 DEF TypeOK, GatewayTypeOK, DeletePost
<1>6. TypeOK'
  BY <1>3, <1>5 DEF TypeOK, GatewayTypeOK
<1> QED
  BY <1>1, <1>3, <1>4, <1>6 DEF WillClear, Unphoto

LEMMA FindPostSettles ==
    ASSUME TypeOK, Ownership, NEW r \in Requests, NEW op \in Operations, NEW p \in Posts,
           FindPost(r, op, p)
    PROVE  /\ TypeOK' /\ Settles /\ req[r] = Idle /\ Finds(r)
           /\ \A q \in Requests \ {r} : req'[q] = req[q]
<1>1. post[p].author \in Users /\ op \in {"edit", "delete"}
  BY DEF FindPost, Live, Rows, TypeOK, PostRows
<1>2. PICK new \in InFlight : new = [Request(op, "write", post[p].author) EXCEPT !.post = p]
  BY <1>1 DEF Request, InFlight
<1>3. new.op = op /\ new.image = None
  BY <1>2 DEF Request
<1>4. Begin(r, new)
  BY <1>2 DEF FindPost
<1>5. /\ req[r] = Idle /\ req'[r] = new /\ new # Idle
      /\ \A s \in Requests \ {r} : req'[s] = req[s]
      /\ req' \in [Requests -> InFlight \cup {Idle}]
      /\ started' \in 0 .. MaxStarts
  BY <1>4, BeginIs
<1>6. Finds(r)
  BY <1>1, <1>3, <1>5 DEF Finds
<1>7. UNCHANGED <<files, happened, avatar, post, job, clock, history>>
  BY DEF FindPost
<1>8. FilesTypeOK'
  BY <1>7 DEF TypeOK, FilesTypeOK, files, Doing
<1>9. GatewayTypeOK'
  BY <1>5, <1>7 DEF TypeOK, GatewayTypeOK, history
<1>10. TypeOK'
  BY <1>8, <1>9 DEF TypeOK, GatewayTypeOK
<1>11. Settles
  <2>1. \A q \in Requests :
          /\ req[q] # Idle /\ req[q].pc = "wait" => GoesOn(q) /\ req'[q].pc = "wait"
          /\ req'[q] = Idle \/ GoesOn(q) \/ Finds(q)
    BY <1>5, <1>6 DEF GoesOn
  <2> QED
    BY <1>7, <2>1, CallsAlone DEF files
<1> QED
  BY <1>5, <1>6, <1>10, <1>11

\* Steps of the gateway that leave requests and calls alone.
LEMMA AloneSettles ==
    ASSUME TypeOK, Ownership, UNCHANGED <<files, req>>, happened \subseteq happened',
           happened' \subseteq Faults
    PROVE  FilesTypeOK' /\ Settles
<1>1. FilesTypeOK'
  BY DEF TypeOK, FilesTypeOK, files, Doing
<1>2. \A q \in Requests :
        /\ req[q] # Idle /\ req[q].pc = "wait" => GoesOn(q) /\ req'[q].pc = "wait"
        /\ req'[q] = Idle \/ GoesOn(q) \/ Finds(q)
  BY DEF GoesOn
<1> QED
  BY <1>1, <1>2, CallsAlone DEF files

LEMMA CreatePostSettles ==
    ASSUME TypeOK, Ownership, NEW u \in Users, NEW images \in SUBSET Images, CreatePost(u, images)
    PROVE  /\ TypeOK' /\ Settles
           /\ images \subseteq Images
           /\ \E p \in Posts :
                /\ post[p] = Unborn
                /\ post'[p] = [author |-> u, images |-> images, edited |-> FALSE, deletedAt |-> None]
                /\ \A x \in Posts \ {p} : post'[x] = post[x]
<1>1. PICK p \in Posts : p = NewPost /\ post[p] = Unborn
  BY DEF CreatePost, NewPost
<1>2. PICK new \in PostRows : new = [author |-> u, images |-> images, edited |-> FALSE,
                                     deletedAt |-> None]
  BY DEF PostRows
<1>3. /\ post' = [post EXCEPT ![p] = new]
      /\ images \subseteq Images
      /\ named' = named \cup images
      /\ shared' = shared \cup (images \cap named)
      /\ UNCHANGED <<files, happened, avatar, req, job, clock, started, taken, offered, since>>
  BY <1>1, <1>2 DEF CreatePost
<1>4. FilesTypeOK' /\ Settles
  BY <1>3, AloneSettles DEF TypeOK, FilesTypeOK
<1>5. GatewayTypeOK'
  BY <1>3 DEF TypeOK, GatewayTypeOK
<1>6. TypeOK'
  BY <1>4, <1>5 DEF TypeOK, GatewayTypeOK
<1> QED
  BY <1>1, <1>2, <1>3, <1>4, <1>6 DEF TypeOK

LEMMA CleanupStartSettles ==
    ASSUME TypeOK, Ownership, CleanupStart
    PROVE  /\ TypeOK' /\ Settles
           /\ job'.posts = {p \in Posts : Due(p)} /\ job'.pc = "images"
           /\ \A x \in job'.images : \E p \in Posts : Due(p) /\ x[1] = p /\ x[2] \in post[p].images
<1> DEFINE due == {p \in Posts : Due(p)}
<1>1. \A p \in due : post[p].images \in SUBSET Images
  BY DEF Due, Rows, TypeOK, PostRows
<1>2. PICK pairs : pairs = UNION {{p} \X post[p].images : p \in due}
  OBVIOUS
<1>3. \A x \in pairs : \E p \in Posts : Due(p) /\ x \in {p} \X post[p].images
  BY <1>2
<1>4. \A x \in pairs : x \in Posts \X Images
  BY <1>1, <1>3
<1>5. job' = [pc |-> "images", posts |-> due, images |-> pairs]
  BY <1>2 DEF CleanupStart
<1>6. /\ UNCHANGED <<files, happened, avatar, post, req, clock, started, history>>
  BY DEF CleanupStart
<1>7. FilesTypeOK' /\ Settles
  BY <1>6, AloneSettles DEF TypeOK, FilesTypeOK
<1>8. job' \in [pc : {"idle", "images", "wait"}, images : SUBSET (Posts \X Images),
               posts : SUBSET Posts]
  BY <1>4, <1>5
<1>9. GatewayTypeOK'
  BY <1>6, <1>8 DEF TypeOK, GatewayTypeOK, history
<1>10. TypeOK'
  BY <1>7, <1>9 DEF TypeOK, GatewayTypeOK
<1>11. \A x \in pairs : \E p \in Posts : Due(p) /\ x[1] = p /\ x[2] \in post[p].images
  BY <1>3
<1> QED
  BY <1>5, <1>7, <1>10, <1>11

LEMMA CleanupPostSettles ==
    ASSUME TypeOK, Ownership, NEW p \in Posts, CleanupPost(p)
    PROVE  /\ TypeOK' /\ Settles
           /\ job.pc = "images" /\ p \in job.posts
           /\ job'.images \subseteq job.images /\ job'.posts \subseteq job.posts
           /\ \A x \in Posts \ {p} : post'[x] = post[x]
           /\ post'[p] = post[p] \/ (post'[p] = Gone /\ p \in Rows)
<1>1. /\ \A x \in Posts \ {p} : post'[x] = post[x]
      /\ post'[p] = post[p] \/ (post'[p] = Gone /\ p \in Rows)
      /\ post' \in [Posts -> PostRows \cup {Unborn, Gone}]
  BY DEF CleanupPost, TypeOK, MayGo
<1>2. happened \subseteq happened' /\ happened' \subseteq Faults
  BY FaultIs DEF TypeOK, FilesTypeOK, Faults, CleanupPost, NoFault
<1>3. UNCHANGED <<files, avatar, req, clock, started, history>>
  BY DEF CleanupPost
<1>4. FilesTypeOK' /\ Settles
  BY <1>2, <1>3, AloneSettles
<1>5. /\ job' \in [pc : {"idle", "images", "wait"}, images : SUBSET (Posts \X Images),
                  posts : SUBSET Posts]
      /\ job'.images \subseteq job.images /\ job'.posts \subseteq job.posts
  <2>1. CASE job' = NoJob
    BY <2>1 DEF NoJob
  <2>2. CASE job' = [job EXCEPT !.posts = @ \ {p}]
    BY <2>2 DEF TypeOK
  <2> QED
    BY <2>1, <2>2 DEF CleanupPost
<1>6. GatewayTypeOK'
  BY <1>1, <1>3, <1>5 DEF TypeOK, GatewayTypeOK, history
<1>7. TypeOK'
  BY <1>4, <1>6 DEF TypeOK, GatewayTypeOK
<1> QED
  BY <1>1, <1>4, <1>5, <1>7 DEF CleanupPost

LEMMA TickSettles ==
    ASSUME TypeOK, Ownership, Tick
    PROVE  TypeOK' /\ Settles /\ clock' = clock + 1 /\ clock \in Nat
<1>1. FilesTypeOK' /\ Settles
  BY AloneSettles DEF Tick, TypeOK, FilesTypeOK
<1>2. GatewayTypeOK'
  BY MediaAssumption DEF TypeOK, GatewayTypeOK, Tick, history
<1>3. TypeOK'
  BY <1>1, <1>2 DEF TypeOK, GatewayTypeOK
<1> QED
  BY <1>1, <1>3, MediaAssumption DEF Tick, TypeOK

LEMMA StutterSettles ==
    ASSUME TypeOK, Ownership, UNCHANGED vars
    PROVE  TypeOK' /\ Settles
<1>1. FilesTypeOK' /\ Settles
  BY AloneSettles DEF vars, gateway, TypeOK, FilesTypeOK
<1>2. GatewayTypeOK'
  BY DEF TypeOK, GatewayTypeOK, vars, gateway, history
<1> QED
  BY <1>1, <1>2 DEF TypeOK, GatewayTypeOK

-----------------------------------------------------------------------------
(* What is kept by steps that begin no call *)

\* A call is as it was, but for who waits, or it is over.
LEMMA SettledCall ==
    ASSUME Settles, NEW d \in Calls
    PROVE  /\ \/ call'[d] = Free /\ (call'[d] = call[d] \/ Doing(d, "answered") \/ "crash" \in happened')
              \/ /\ call'[d].pc = call[d].pc /\ Image(d)' = Image(d)
                 /\ call'[d].row = call[d].row /\ call'[d].deleted = call[d].deleted
                 /\ call'[d].ok = call[d].ok
                 /\ call[d] # Free
           /\ call'[d].who # None => call'[d] = call[d]
           /\ \A q \in Requests : call[d].who = q /\ req'[q] # Idle /\ call'[d] # Free
                                    => call'[d] = call[d]
           /\ call'[d] = call[d] \/ call'[d] = Free \/ happened' \cap {"timeout", "stop"} # {}
<1>1. Free.who = None
  BY DEF Free
<1>2. CASE /\ call'[d] = [call[d] EXCEPT !.who = None]
           /\ call[d] \in InService /\ ~Doing(d, "answered")
           /\ happened' \cap {"timeout", "stop"} # {}
           /\ \A q \in Requests : call[d].who = q => req'[q] = Idle
  <2>1. call[d].pc # Free.pc
    BY <1>2 DEF InService, CallSteps, Free
  <2> QED
    BY <1>2, <2>1 DEF InService, Image
<1>3. CASE call'[d] = call[d]
  BY <1>3 DEF Image
<1>4. CASE call'[d] = Free /\ (Doing(d, "answered") \/ "crash" \in happened')
  BY <1>1, <1>4
<1> QED
  BY <1>2, <1>3, <1>4 DEF Settles

LEMMA FreeIs == Free.pc = "free" /\ Free.who = None /\ Free.image = None
  BY DEF Free

LEMMA SettlesCalls ==
    ASSUME Settles, CallsKnow, Waited, ObjectsMatchRows
    PROVE  CallsKnow' /\ Waited' /\ ObjectsMatchRows'
<1>1. object' = object /\ file' = file /\ happened \subseteq happened'
  BY DEF Settles
<1>2. CallsKnow'
  <2> SUFFICES ASSUME NEW c \in Calls
      PROVE  /\ Storing(c)' => Image(c)' \in Images /\ call'[c].row \in FileRows
                               /\ file'[Image(c)'] = None
             /\ Doing(c, "create")' => Image(c)' \in object'
             /\ Doing(c, "find")' => ~call'[c].deleted
             /\ Doing(c, "unput")' => ~call'[c].deleted
             /\ Cutting(c)' => Image(c)' \in Images
             /\ Doing(c, "remove")' => IF call'[c].deleted THEN Image(c)' \notin object'
                                       ELSE "status" \in happened'
             /\ Doing(c, "again")' => "status" \in happened' /\ file'[Image(c)'] = None
    BY DEF CallsKnow
  <2>1. CASE call'[c] = Free
    BY <2>1, FreeIs DEF Storing, Doing, Cutting
  <2>2. CASE /\ call'[c].pc = call[c].pc /\ Image(c)' = Image(c)
             /\ call'[c].row = call[c].row /\ call'[c].deleted = call[c].deleted
    BY <2>2, <1>1 DEF CallsKnow, Storing, Doing, Cutting
  <2> QED
    BY <2>1, <2>2, SettledCall
<1>3. Waited'
  BY <1>1, SettledCall DEF Waited
<1>4. ObjectsMatchRows'
  <2> SUFFICES ASSUME NEW i \in Images, happened' \cap Cuts = {},
                      ~(i \in object <=> file[i] # None)
               PROVE  \E c \in Calls : Image(c)' = i /\ call'[c].pc \in {"create", "remove", "again"}
    BY <1>1 DEF ObjectsMatchRows
  <2>1. happened \cap Cuts = {} /\ "crash" \notin happened'
    BY <1>1 DEF Cuts
  <2>2. PICK c \in Calls : Image(c) = i /\ call[c].pc \in {"create", "remove", "again"}
    BY <2>1 DEF ObjectsMatchRows
  <2>3. Image(c)' = Image(c) /\ call'[c].pc = call[c].pc
    BY <2>1, <2>2, SettledCall, FreeIs DEF Doing
  <2> QED
    BY <2>2, <2>3
<1> QED
  BY <1>2, <1>3, <1>4

\* An image once doomed stays so: the deletions under way for the job rest on it.
DoomLasts == named \subseteq named' /\ \A i : Doomed(i) => Doomed(i)'

LEMMA DoomKept ==
    ASSUME UNCHANGED <<post, named, shared>>
    PROVE  DoomLasts
  BY DEF DoomLasts, Doomed, Live, Rows

LEMMA ForJobStays ==
    ASSUME DoomLasts, NEW d \in Calls, ForJob(d), call'[d] = call[d]
    PROVE  ForJob(d)'
<1>1. PICK i : i = Image(d)
  OBVIOUS
<1>2. Doomed(i)' /\ Image(d)' = i
  BY <1>1 DEF ForJob, DoomLasts, Image
<1> QED
  BY <1>2 DEF ForJob

LEMMA ForJobSettles ==
    ASSUME Settles, DoomLasts, NEW d \in Calls, ForJob(d), call'[d] # Free
    PROVE  ForJob(d)'
<1>1. call'[d].pc = call[d].pc /\ Image(d)' = Image(d) /\ call'[d].who \in {call[d].who, None}
  BY SettledCall
<1>2. PICK i : i = Image(d)
  OBVIOUS
<1>3. Doomed(i)'
  BY <1>2 DEF ForJob, DoomLasts
<1> QED
  BY <1>1, <1>2, <1>3 DEF ForJob

\* ... of what requests, avatars and calls know of one another.  What the step
\* itself writes is left to the lemmas' assumptions.
LEMMA SettledRequest ==
    ASSUME Settles, NEW q \in Requests
    PROVE  /\ req'[q] # Idle => GoesOn(q) \/ (Finds(q) /\ ~Uploading(q)' /\ ~Unphoto(q)')
           /\ Uploading(q)' => Uploading(q) /\ GoesOn(q)
           /\ Unphoto(q)' => Unphoto(q) /\ GoesOn(q)
<1>1. req'[q] # Idle => GoesOn(q) \/ (Finds(q) /\ ~Uploading(q)' /\ ~Unphoto(q)')
  BY DEF Settles, Finds, Uploading, Unphoto
<1> QED
  BY <1>1 DEF Uploading, Unphoto, GoesOn

LEMMA SettlesStored ==
    ASSUME TypeOK, Settles, CallsKnow, Ownership, DoomLasts,
           \A c \in Calls : Storing(c) => Image(c) \notin offered' /\ \A u \in Users : avatar'[u] # Image(c)
    PROVE  StoredAlone'
<1>1. None \notin Images /\ StoredAlone
  BY FilesAssumption DEF Ownership
<1>2. SUFFICES ASSUME NEW c \in Calls, Storing(c)'
               PROVE  /\ Image(c)' \notin offered'
                      /\ \A d \in Calls : Image(d)' = Image(c)' => d = c \/ ForJob(d)'
                      /\ \A u \in Users : avatar'[u] # Image(c)'
                      /\ \A r \in Requests : req'[r] # Idle /\ req'[r].image = Image(c)' => call'[c].who = r
  BY DEF StoredAlone
<1>3. Storing(c) /\ Image(c)' = Image(c) /\ Image(c) \in Images /\ call'[c] # Free
  BY <1>2, SettledCall, FreeIs DEF Storing, CallsKnow
<1>4. \A d \in Calls : Image(d)' = Image(d) \/ Image(d)' = None
  BY SettledCall, FreeIs DEF Image
<1>5. ASSUME NEW d \in Calls, Image(d)' = Image(c)' PROVE d = c \/ ForJob(d)'
  <2>1. Image(d) = Image(c) /\ call'[d] # Free
    BY <1>1, <1>3, <1>4, <1>5, FreeIs DEF Image
  <2> QED
    BY <1>1, <1>3, <2>1, ForJobSettles DEF StoredAlone
<1>6. ASSUME NEW r \in Requests, req'[r] # Idle, req'[r].image = Image(c)' PROVE call'[c].who = r
  <2>1. GoesOn(r)
    BY <1>1, <1>3, <1>6, SettledRequest DEF Finds
  <2>2. call[c].who = r
    BY <1>1, <1>3, <1>6, <2>1 DEF GoesOn, StoredAlone
  <2> QED
    BY <1>3, <1>6, <2>2, SettledCall
<1> QED
  BY <1>3, <1>5, <1>6

LEMMA SettlesWait ==
    ASSUME TypeOK, Settles, Ownership, DoomLasts,
           \A d \in Calls : call'[d].who = "cron" => job'.pc = "wait"
    PROVE  CallersWait'
<1>1. CallersWait /\ None \notin Requests /\ "cron" # None
  BY FilesAssumption, MediaAssumption DEF Ownership
<1>2. object' = object /\ file' = file
  BY DEF Settles
<1>3. \A c \in Calls : call'[c].who # None => call'[c] = call[c]
  BY SettledCall
<1>4. \A c, d \in Calls : call'[c].who = call'[d].who /\ call'[c].who # None => c = d
  BY <1>1, <1>3 DEF CallersWait
<1>5. ASSUME NEW c \in Calls, NEW r \in Requests, call'[c].who = r
      PROVE  /\ req'[r] # Idle /\ req'[r].pc = "wait" /\ req'[r].image = Image(c)'
             /\ Storing(c)' => Uploading(r)'
             /\ Deleting(c)' => Unphoto(r)'
             /\ Doing(c, "answered")' /\ call'[c].ok /\ Uploading(r)' => Arrived(Image(c))'
  <2>1. call'[c] = call[c] /\ GoesOn(r) /\ req'[r].pc = "wait" /\ call[c].who = r
    BY <1>1, <1>3, <1>5 DEF Settles
  <2>2. /\ req[r].image = Image(c)
        /\ Storing(c) => Uploading(r)
        /\ Deleting(c) => Unphoto(r)
        /\ Doing(c, "answered") /\ call[c].ok /\ Uploading(r) => Arrived(Image(c))
    BY <1>1, <2>1 DEF CallersWait
  <2>4. \A i : Arrived(i) => Arrived(i)'
    BY <1>2 DEF Arrived, Stands, DoomLasts
  <2>3. (Uploading(r)' <=> Uploading(r)) /\ (Unphoto(r)' <=> Unphoto(r))
        /\ req'[r] # Idle /\ req'[r].image = req[r].image
    BY <2>1 DEF GoesOn, Uploading, Unphoto
  <2> QED
    BY <2>1, <2>2, <2>3, <2>4 DEF Storing, Deleting, Doing, Image
<1>6. ASSUME NEW c \in Calls, call'[c].who = "cron"
      PROVE  job'.pc = "wait" /\ ~Storing(c)' /\ Doomed(Image(c))'
  BY <1>1, <1>3, <1>6 DEF CallersWait, Storing, Image, DoomLasts
<1> QED
  BY <1>4, <1>5, <1>6 DEF CallersWait

LEMMA SettlesUploads ==
    ASSUME TypeOK, Settles, Ownership, DoomLasts,
           \A r \in Requests : Uploading(r)' =>
             /\ req[r].image \notin offered' /\ \A u \in Users : avatar'[u] # req[r].image
             /\ req[r].pc = "wait" /\ req'[r].pc = "write" =>
                  (file[req[r].image] # None \/ req[r].image \in named) /\ req[r].op = "photo"
    PROVE  UploadsOwn'
<1>1. None \notin Images /\ UploadsOwn /\ file' = file
  BY FilesAssumption DEF Ownership, Settles
<1>2. SUFFICES ASSUME NEW r \in Requests, Uploading(r)'
      PROVE  /\ req'[r].image \in Images \ offered'
             /\ \A u \in Users : avatar'[u] # req'[r].image
             /\ \A q \in Requests : req'[q] # Idle /\ req'[q].image = req'[r].image => q = r
             /\ \A c \in Calls : Image(c)' = req'[r].image =>
                  call'[c].who = r \/ (call'[c].who \in {"cron", None} /\ Doomed(Image(c))')
             /\ req'[r].pc = "write" =>
                  (file'[req'[r].image] # None \/ req'[r].image \in named') /\ req'[r].op = "photo"
  BY DEF UploadsOwn
<1>3. Uploading(r) /\ GoesOn(r) /\ req'[r].image = req[r].image /\ req'[r].op = req[r].op /\ req'[r] # Idle
  BY <1>2, SettledRequest DEF GoesOn
<1>4. req[r].image \in Images
  BY <1>1, <1>3 DEF UploadsOwn
<1>5. \A q \in Requests : req'[q] # Idle /\ req'[q].image = req'[r].image => q = r
  BY <1>1, <1>3, <1>4, SettledRequest DEF GoesOn, Finds, UploadsOwn
<1>6. ASSUME NEW c \in Calls, Image(c)' = req'[r].image
      PROVE  call'[c].who = r \/ (call'[c].who \in {"cron", None} /\ Doomed(Image(c))')
  <2>1. call'[c] # Free /\ Image(c)' = Image(c)
    BY <1>1, <1>3, <1>4, <1>6, SettledCall, FreeIs DEF Image
  <2>2. CASE call[c].who = r
    BY <2>1, <2>2, <1>3, SettledCall
  <2>3. CASE call[c].who \in {"cron", None} /\ Doomed(Image(c))
    BY <2>1, <2>3, SettledCall DEF DoomLasts
  <2> QED
    BY <2>1, <2>2, <2>3, <1>1, <1>3, <1>6 DEF UploadsOwn
<1>7. req'[r].pc = "write" =>
        (file'[req'[r].image] # None \/ req'[r].image \in named') /\ req'[r].op = "photo"
  <2>1. req[r] \in InFlight
    BY <1>3, RequestsInFlight DEF Uploading
  <2>2. req[r].pc = "wait" \/ req[r].pc = "write"
    BY <2>1 DEF InFlight
  <2> QED
    BY <2>2, <1>1, <1>2, <1>3 DEF UploadsOwn, DoomLasts
<1> QED
  BY <1>2, <1>3, <1>4, <1>5, <1>6, <1>7

LEMMA SettlesKnown ==
    ASSUME Settles, Ownership, DoomLasts, taken' = taken,
           \A u \in Users : avatar'[u] \in taken \cup {None}
    PROVE  Known'
<1>1. Known /\ object' = object /\ file' = file
  BY DEF Ownership, Settles
<1>2. \A c \in Calls : Image(c)' \in taken \cup {None} \/ ForJob(c)'
  <2>1. \A c \in Calls : call'[c] = Free \/ Image(c)' = Image(c)
    BY SettledCall
  <2> QED
    BY <1>1, <2>1, FreeIs, ForJobSettles DEF Known, Image
<1>3. \A r \in Requests : req'[r] # Idle => req'[r].image \in taken \cup {None}
  BY <1>1, SettledRequest DEF Known, GoesOn, Finds
<1> QED
  BY <1>1, <1>2, <1>3 DEF Known

\* ... when no image is offered and no avatar changed.
LEMMA SettlesOwnership ==
    ASSUME TypeOK, Settles, CallsKnow, Ownership,
           avatar' = avatar, offered' = offered, taken' = taken, DoomLasts,
           \A d \in Calls : call'[d].who = "cron" => job'.pc = "wait",
           \A q \in Requests : Uploading(q) /\ req[q].pc = "wait" /\ req'[q].pc = "write" =>
               (file[req[q].image] # None \/ req[q].image \in named) /\ req[q].op = "photo"
    PROVE  Ownership'
<1>1. StoredAlone'
  BY SettlesStored DEF Ownership, StoredAlone
<1>2. CallersWait'
  BY SettlesWait
<1>3. UploadsOwn'
  <2>1. \A r \in Requests : Uploading(r)' => Uploading(r)
    BY SettledRequest
  <2> QED
    BY <2>1, SettlesUploads DEF Ownership, UploadsOwn
<1>4. UnphotosOwn'
  BY SettledRequest DEF Ownership, UnphotosOwn, GoesOn
<1>5. AvatarsOwn'
  BY DEF Ownership, AvatarsOwn
<1>6. Known'
  BY SettlesKnown DEF Ownership, Known
<1> QED
  BY <1>1, <1>2, <1>3, <1>4, <1>5, <1>6 DEF Ownership

\* An image stays doomed: a post that names it anew shares it.
LEMMA DoomedStays ==
    ASSUME NEW i, Doomed(i), named \subseteq named', shared \subseteq shared',
           \A p \in Posts : Live(p)' => \/ Live(p) /\ post'[p].images = post[p].images
                                        \/ post'[p].images \cap named \subseteq shared'
    PROVE  Doomed(i)'
  BY DEF Doomed

\* Posts only lose images to be shown.
Wanes ==
    \A p \in Posts : p \in Rows' =>
        p \in Rows /\ post'[p].images = post[p].images /\ (Live(p)' => Live(p))

LEMMA WanesSame ==
    ASSUME post' = post
    PROVE  Wanes
  BY DEF Wanes, Rows, Live

LEMMA WanesDoom ==
    ASSUME Wanes, UNCHANGED <<named, shared>>
    PROVE  DoomLasts
  BY DoomedStays DEF Wanes, DoomLasts, Live

LEMMA SettlesPosts ==
    ASSUME Settles, DeletionsSafe, PostsName, PostImagesStand, Wanes,
           UNCHANGED <<named, shared, offered>>, job'.images \subseteq job.images
    PROVE  DeletionsSafe' /\ PostsName' /\ PostImagesStand'
<1>1. object' = object /\ file' = file
  BY DEF Settles
<1>2. Rows' \subseteq Rows /\ \A p \in Rows' : p \in Posts /\ post'[p].images = post[p].images
  BY DEF Wanes, Rows
<1>3. \A p \in Posts : Live(p)' => Live(p) /\ post'[p].images = post[p].images
  BY DEF Wanes, Live
<1>4. \A i : Doomed(i) => Doomed(i)'
  BY <1>3, DoomedStays
<1>5. \A c \in Calls : Deleting(c)' => Deleting(c) /\ Image(c)' = Image(c)
  BY SettledCall, FreeIs DEF Deleting
<1>6. DeletionsSafe'
  BY <1>1, <1>4, <1>5 DEF DeletionsSafe, Stands
<1>7. PostsName'
  BY <1>2 DEF PostsName
<1>8. PostImagesStand'
  BY <1>1, <1>3 DEF PostImagesStand
<1> QED
  BY <1>6, <1>7, <1>8

LEMMA KeepsDates ==
    ASSUME TypeOK, TypeOK', Dated, since' = since, clock' >= clock,
           \A p \in Posts : p \in Rows' /\ post'[p].deletedAt # None =>
               p \in Rows /\ post'[p].deletedAt = post[p].deletedAt,
           job'.posts \subseteq job.posts
    PROVE  Dated'
<1>1. clock \in Nat /\ clock' \in Nat /\ Keep \in Nat
  BY MediaAssumption DEF TypeOK
<1>2. \A p \in Posts : since[p] # None => since[p] \in Nat
  BY DEF TypeOK
<1>3. \A p \in Posts : since'[p] # None => since'[p] <= clock'
  BY <1>1, <1>2 DEF Dated
<1>4. \A p \in Rows' : post'[p].deletedAt # None => since'[p] # None /\ since'[p] <= post'[p].deletedAt
  BY DEF Dated, Rows
<1>5. \A p \in job'.posts : since'[p] # None /\ since'[p] + Keep < clock'
  <2>1. \A p \in job.posts : p \in Posts
    BY DEF TypeOK
  <2> QED
    BY <1>1, <1>2, <2>1 DEF Dated
<1> QED
  BY <1>3, <1>4, <1>5 DEF Dated

LEMMA KeepsRowDates ==
    ASSUME post' = post
    PROVE  \A p \in Posts : p \in Rows' /\ post'[p].deletedAt # None =>
               p \in Rows /\ post'[p].deletedAt = post[p].deletedAt
  BY DEF Rows

\* A request that will clear an avatar still will when its call is left alone.
LEMMA WillClearStays ==
    ASSUME NEW q \in Requests, WillClear(q), GoesOn(q),
           \/ req'[q].pc = "write"
           \/ \A d \in Calls : call[d].who = q => call'[d] = call[d]
    PROVE  WillClear(q)' /\ req'[q].image = req[q].image
  BY DEF WillClear, GoesOn, Unphoto, Cutting, Doing

LEMMA SettlesClears ==
    ASSUME Settles, Ownership, Undangling,
           named \subseteq named',
           \A u \in Users : avatar'[u] # None =>
               file[avatar'[u]] # None \/ avatar'[u] \in named \/ avatar'[u] = avatar[u],
           \A q \in Requests : WillClear(q) => \/ WillClear(q)' /\ req'[q].image = req[q].image
                                               \/ Spoiled'
                                               \/ avatar'[req[q].user] = None
    PROVE  Undangling'
<1>1. file' = file /\ (Spoiled => Spoiled')
  BY DEF Settles, Spoiled
<1>2. SUFFICES ASSUME NEW u \in Users, avatar'[u] # None, file[avatar'[u]] = None, ~Spoiled',
                      avatar'[u] \notin named'
               PROVE  \E r \in Requests : WillClear(r)' /\ req'[r].image = avatar'[u]
  BY <1>1 DEF Undangling
<1>3. avatar'[u] = avatar[u]
  BY <1>2
<1>4. PICK r \in Requests : WillClear(r) /\ req[r].image = avatar[u]
  BY <1>1, <1>2, <1>3 DEF Undangling
<1>5. req[r].user = u
  BY <1>2, <1>3, <1>4 DEF WillClear, Ownership, UnphotosOwn
<1> QED
  BY <1>2, <1>3, <1>4, <1>5

\* Requests that will clear an avatar are left alone.
LEMMA SameClears ==
    ASSUME Settles, Ownership, Undangling, UNCHANGED <<avatar, call>>, named \subseteq named',
           \A q \in Requests : req'[q] = req[q] \/ ~WillClear(q)
    PROVE  Undangling'
<1>1. \A q \in Requests : WillClear(q) => WillClear(q)' /\ req'[q].image = req[q].image
  BY WillClearStays DEF WillClear, Unphoto, GoesOn
<1> QED
  BY <1>1, SettlesClears

-----------------------------------------------------------------------------
(* Each step that begins no call keeps the invariant *)

\* Steps that leave images, avatars, posts and the clock alone, and the job's list.
LEMMA QuietKeeps ==
    ASSUME MediaInv, TypeOK', Settles, Ownership', Undangling',
           UNCHANGED <<post, clock, since, named, shared, offered>>,
           job'.images \subseteq job.images, job'.posts \subseteq job.posts
    PROVE  MediaInv'
<1>1. CallsKnow' /\ Waited' /\ ObjectsMatchRows'
  BY SettlesCalls DEF MediaInv
<1>2. DeletionsSafe' /\ PostsName' /\ PostImagesStand'
  BY SettlesPosts, WanesSame DEF MediaInv
<1>3. Dated'
  <2>1. clock \in Nat /\ clock' = clock
    BY MediaAssumption DEF MediaInv, TypeOK
  <2>2. clock' >= clock
    BY <2>1
  <2> QED
    BY <2>2, KeepsDates, KeepsRowDates DEF MediaInv
<1> QED
  BY <1>1, <1>2, <1>3 DEF MediaInv

LEMMA UploadedKeeps ==
    ASSUME MediaInv, NEW r \in Requests, Uploaded(r)
    PROVE  MediaInv'
<1>1. TypeOK /\ Ownership /\ CallsKnow /\ Undangling /\ DeletionsSafe /\ PostsName /\ PostImagesStand
  BY DEF MediaInv
<1>2. /\ TypeOK' /\ Settles
      /\ \A q \in Requests \ {r} : req'[q] = req[q]
      /\ Uploading(r)
      /\ \/ req'[r] = Idle /\ offered' = offered
         \/ /\ req'[r].op = "photo" /\ req'[r].pc = "write" /\ GoesOn(r)
            /\ offered' = offered /\ Arrived(req[r].image)
         \/ /\ req'[r] = Idle /\ offered' = offered \cup {req[r].image}
            /\ Arrived(req[r].image)
      /\ \A d \in Calls : call[d].who # r => call'[d] = call[d]
      /\ offered' # offered => \A d \in Calls : call[d].who = r => Doing(d, "answered")
  BY <1>1, UploadedSettles
<1>3. UNCHANGED <<avatar, post, job, clock, started, taken, named, shared, since>>
  BY DEF Uploaded
<1>d. DoomLasts
  BY <1>3, DoomKept
<1>4. Undangling'
  <2>1. \A q \in Requests : WillClear(q) => WillClear(q)' /\ req'[q].image = req[q].image
    <3> SUFFICES ASSUME NEW q \in Requests, WillClear(q)
                 PROVE  WillClear(q)' /\ req'[q].image = req[q].image
      OBVIOUS
    <3>1. q # r
      BY <1>2 DEF WillClear, Unphoto, Uploading
    <3>2. GoesOn(q)
      BY <1>2, <3>1 DEF GoesOn, WillClear, Unphoto
    <3> QED
      BY <1>2, <3>1, <3>2, WillClearStays
  <2> QED
    BY <1>1, <1>2, <1>3, <2>1, SettlesClears
<1>5. \A d \in Calls : call'[d].who = "cron" => job'.pc = "wait"
  BY <1>1, <1>2, <1>3, SettledCall, FilesAssumption, MediaAssumption DEF Ownership, CallersWait
<1>6. CASE offered' = offered
  <2>1. \A q \in Requests : Uploading(q) /\ req[q].pc = "wait" /\ req'[q].pc = "write" =>
            (file[req[q].image] # None \/ req[q].image \in named) /\ req[q].op = "photo"
    BY <1>2, <1>6 DEF GoesOn, Arrived, Doomed, Stands, Idle
  <2>2. Ownership'
    BY <1>1, <1>2, <1>3, <1>5, <1>6, <1>d, <2>1, SettlesOwnership
  <2> QED
    BY <1>2, <1>3, <1>4, <1>6, <2>2, QuietKeeps
<1>7. CASE req'[r] = Idle /\ offered' = offered \cup {req[r].image} /\ Arrived(req[r].image)
  <2> DEFINE i == req[r].image
  <2>1. /\ i \in Images \ offered /\ \A u \in Users : avatar[u] # i
        /\ \A q \in Requests : req[q] # Idle /\ req[q].image = i => q = r
        /\ \A c \in Calls : Image(c) = i => call[c].who = r \/ Doomed(i)
    BY <1>1, <1>2 DEF Ownership, UploadsOwn
  <2>2. \A c \in Calls : Storing(c) => Image(c) # i
    <3> SUFFICES ASSUME NEW c \in Calls, Storing(c), Image(c) = i PROVE FALSE
      OBVIOUS
    <3>1. call[c].who = r
      BY <1>1, <1>2, FilesAssumption DEF Ownership, StoredAlone, Uploading
    <3>2. offered' # offered
      BY <1>7, <2>1
    <3> QED
      BY <1>2, <3>1, <3>2 DEF Storing, Doing
  <2>3. StoredAlone'
    <3>1. \A c \in Calls : Storing(c) => Image(c) \notin offered' /\ \A u \in Users : avatar'[u] # Image(c)
      BY <1>1, <1>3, <1>7, <2>2 DEF Ownership, StoredAlone
    <3> QED
      BY <1>1, <1>2, <1>d, <3>1, SettlesStored
  <2>4. CallersWait'
    BY <1>1, <1>2, <1>3, <1>5, <1>d, SettlesWait
  <2>5. \A q \in Requests : Uploading(q)' => q # r /\ Uploading(q) /\ req'[q] = req[q]
    BY <1>2, <1>7 DEF Uploading
  <2>6. UploadsOwn'
    <3>1. \A q \in Requests : Uploading(q)' =>
             /\ req[q].image \notin offered' /\ \A u \in Users : avatar'[u] # req[q].image
             /\ req[q].pc = "wait" /\ req'[q].pc = "write" =>
                  (file[req[q].image] # None \/ req[q].image \in named) /\ req[q].op = "photo"
      BY <1>1, <1>3, <1>7, <2>1, <2>5 DEF Ownership, UploadsOwn, Uploading
    <3> QED
      BY <1>1, <1>2, <1>d, <3>1, SettlesUploads
  <2>7. UnphotosOwn'
    <3>1. \A q \in Requests : Unphoto(q)' => q # r /\ Unphoto(q) /\ req'[q] = req[q] /\ req[q].image # i
      BY <1>2, <1>7, <2>1 DEF Unphoto
    <3> QED
      BY <1>1, <1>3, <1>7, <3>1 DEF Ownership, UnphotosOwn
  <2>8. AvatarsOwn'
    BY <1>1, <1>3, <1>7, <2>1 DEF Ownership, AvatarsOwn
  <2>9. Known'
    BY <1>1, <1>2, <1>3, <1>d, SettlesKnown DEF Ownership, Known
  <2>10. Ownership'
    BY <2>3, <2>4, <2>6, <2>7, <2>8, <2>9 DEF Ownership
  <2>11. DeletionsSafe'
    <3>1. \A x : Doomed(x)' <=> Doomed(x)
      BY <1>3 DEF Doomed, Live, Rows
    <3>2. ASSUME NEW c \in Calls, Deleting(c)' PROVE Image(c)' \notin offered' \/ Doomed(Image(c))'
      <4>1. Deleting(c) /\ Image(c)' = Image(c) /\ call'[c] # Free
        BY <1>2, <3>2, SettledCall, FreeIs DEF Deleting
      <4>2. Image(c) # i \/ Doomed(i)
        <5>1. SUFFICES ASSUME call[c].who = r PROVE FALSE
          BY <2>1
        <5>2. Unphoto(r)
          BY <1>1, <4>1, <5>1 DEF Ownership, CallersWait
        <5> QED
          BY <1>2, <5>2 DEF Unphoto, Uploading
      <4> QED
        BY <1>1, <1>7, <3>1, <4>1, <4>2 DEF DeletionsSafe
    <3>3. \A x \in offered' \ named' : Stands(x)'
      BY <1>1, <1>2, <1>3, <1>7 DEF DeletionsSafe, Arrived, Doomed, Stands, Settles
    <3> QED
      BY <1>1, <1>3, <3>1, <3>2, <3>3 DEF DeletionsSafe
  <2>12. PostsName' /\ PostImagesStand'
    <3>1. \A p \in Posts : Live(p) /\ i \in post[p].images \ shared => Stands(i)
      BY <1>7 DEF Arrived, Doomed
    <3>2. object' = object /\ file' = file
      BY <1>2 DEF Settles
    <3>3. \A p \in Posts : (p \in Rows' <=> p \in Rows) /\ (Live(p)' <=> Live(p))
      BY <1>3 DEF Rows, Live
    <3>4. PostsName'
      BY <1>1, <1>3, <3>3 DEF PostsName, Rows
    <3>5. PostImagesStand'
      BY <1>1, <1>3, <1>7, <3>1, <3>2, <3>3 DEF PostImagesStand, Stands
    <3> QED
      BY <3>4, <3>5
  <2>13. CallsKnow' /\ Waited' /\ ObjectsMatchRows'
    BY <1>2, SettlesCalls DEF MediaInv
  <2>14. Dated'
    BY <1>3 DEF MediaInv, Dated, Rows
  <2> QED
    BY <1>2, <1>4, <2>10, <2>11, <2>12, <2>13, <2>14 DEF MediaInv
<1> QED
  BY <1>2, <1>6, <1>7

LEMMA PhotoDeletedKeeps ==
    ASSUME MediaInv, NEW r \in Requests, PhotoDeleted(r)
    PROVE  MediaInv'
<1>1. TypeOK /\ Ownership /\ CallsKnow /\ Undangling
  BY DEF MediaInv
<1>2. /\ TypeOK' /\ Settles
      /\ \A q \in Requests \ {r} : req'[q] = req[q]
      /\ Unphoto(r)
      /\ \A d \in Calls : call[d].who # r => call'[d] = call[d]
      /\ \/ req'[r] = Idle /\ (WillClear(r) => "timeout" \in happened')
         \/ req'[r].op = "unphoto" /\ req'[r].pc = "write" /\ GoesOn(r)
  BY <1>1, PhotoDeletedSettles
<1>3. UNCHANGED <<avatar, post, job, clock, started, history>>
  BY DEF PhotoDeleted
<1>4. UNCHANGED <<avatar, post, job, clock, taken, offered, named, shared, since>>
  BY <1>3 DEF history
<1>d. DoomLasts
  BY <1>4, DoomKept
<1>5. \A q \in Requests : WillClear(q) => \/ WillClear(q)' /\ req'[q].image = req[q].image
                                          \/ Spoiled'
  <2> SUFFICES ASSUME NEW q \in Requests, WillClear(q)
               PROVE  (WillClear(q)' /\ req'[q].image = req[q].image) \/ Spoiled'
    OBVIOUS
  <2>1. CASE q # r
    <3>1. GoesOn(q)
      BY <1>2, <2>1 DEF GoesOn, WillClear, Unphoto
    <3> QED
      BY <1>2, <2>1, <3>1, WillClearStays
  <2>2. CASE q = r /\ req'[r] = Idle
    BY <1>2, <2>2 DEF Spoiled, Idle
  <2>3. CASE q = r /\ req'[r].pc = "write" /\ GoesOn(r)
    BY <2>3, WillClearStays
  <2> QED
    BY <1>2, <2>1, <2>2, <2>3
<1>6. Undangling'
  BY <1>1, <1>2, <1>4, <1>5, SettlesClears
<1>7. \A d \in Calls : call'[d].who = "cron" => job'.pc = "wait"
  BY <1>1, <1>2, <1>4, SettledCall, FilesAssumption, MediaAssumption DEF Ownership, CallersWait
<1>8. \A q \in Requests : Uploading(q) /\ req[q].pc = "wait" /\ req'[q].pc = "write" =>
          (file[req[q].image] # None \/ req[q].image \in named) /\ req[q].op = "photo"
  BY <1>2 DEF Uploading, Unphoto
<1>9. Ownership'
  BY <1>1, <1>2, <1>4, <1>7, <1>8, <1>d, SettlesOwnership
<1> QED
  BY <1>2, <1>4, <1>6, <1>9, QuietKeeps

LEMMA CleanupHearsKeeps ==
    ASSUME MediaInv, CleanupHears
    PROVE  MediaInv'
<1>1. TypeOK /\ Ownership /\ CallsKnow /\ Undangling
  BY DEF MediaInv
<1>2. /\ TypeOK' /\ Settles /\ req' = req
      /\ job' = [job EXCEPT !.pc = "images"]
      /\ \A d \in Calls : call'[d].who # "cron"
      /\ \A d \in Calls : call[d].who \in Requests => call'[d] = call[d]
  BY <1>1, CleanupHearsSettles
<1>3. UNCHANGED <<avatar, post, req, clock, taken, offered, named, shared, since>>
  BY DEF CleanupHears, history
<1>d. DoomLasts
  BY <1>3, DoomKept
<1>4. \A q \in Requests : WillClear(q) => WillClear(q)' /\ req'[q].image = req[q].image
  BY <1>2, WillClearStays DEF WillClear, Unphoto, GoesOn
<1>5. Undangling'
  BY <1>1, <1>2, <1>3, <1>4, SettlesClears
<1>6. Ownership'
  BY <1>1, <1>2, <1>3, <1>d, SettlesOwnership
<1>7. job'.images = job.images /\ job'.posts = job.posts
  BY <1>1, <1>2 DEF TypeOK
<1> QED
  BY <1>2, <1>3, <1>5, <1>6, <1>7, QuietKeeps

LEMMA ServiceCrashKeeps ==
    ASSUME MediaInv, ServiceCrash, UNCHANGED gateway
    PROVE  MediaInv'
<1>1. TypeOK /\ Ownership /\ CallsKnow /\ Undangling
  BY DEF MediaInv
<1>2. TypeOK' /\ Settles /\ "crash" \in happened'
  BY <1>1, ServiceCrashSettles
<1>3. UNCHANGED <<avatar, post, req, job, clock, taken, offered, named, shared, since>>
  BY DEF gateway, history
<1>d. DoomLasts
  BY <1>3, DoomKept
<1>4. Undangling'
  BY <1>2, <1>3 DEF Undangling, Spoiled
<1>5. \A d \in Calls : call'[d].who = "cron" => job'.pc = "wait"
  BY <1>1, <1>2, <1>3, SettledCall, FilesAssumption, MediaAssumption DEF Ownership, CallersWait
<1>6. Ownership'
  BY <1>1, <1>2, <1>3, <1>5, <1>d, SettlesOwnership
<1> QED
  BY <1>2, <1>3, <1>4, <1>6, QuietKeeps

LEMMA GatewayStopKeeps ==
    ASSUME MediaInv, GatewayStop
    PROVE  MediaInv'
<1>1. TypeOK /\ Ownership /\ CallsKnow /\ Undangling
  BY DEF MediaInv
<1>2. /\ TypeOK' /\ Settles /\ "stop" \in happened'
      /\ \A q \in Requests : req'[q] = Idle
      /\ \A d \in Calls : call'[d].who = None
  BY <1>1, GatewayStopSettles
<1>3. UNCHANGED <<avatar, post, clock, taken, offered, named, shared, since>>
  BY DEF GatewayStop, history
<1>d. DoomLasts
  BY <1>3, DoomKept
<1>4. Undangling'
  BY <1>2 DEF Undangling, Spoiled
<1>5. \A d \in Calls : call'[d].who # "cron"
  BY <1>2, FilesAssumption, MediaAssumption
<1>6. \A q \in Requests : Uploading(q) /\ req[q].pc = "wait" /\ req'[q].pc = "write" =>
          (file[req[q].image] # None \/ req[q].image \in named) /\ req[q].op = "photo"
  BY <1>2 DEF Idle
<1>7. Ownership'
  BY <1>1, <1>2, <1>3, <1>5, <1>6, <1>d, SettlesOwnership
<1>8. job'.images = {} /\ job'.posts = {}
  BY DEF GatewayStop, NoJob
<1> QED
  BY <1>2, <1>3, <1>4, <1>7, <1>8, QuietKeeps

LEMMA SetAvatarKeeps ==
    ASSUME MediaInv, NEW r \in Requests, SetAvatar(r)
    PROVE  MediaInv'
<1>1. TypeOK /\ Ownership /\ CallsKnow /\ Undangling
  BY DEF MediaInv
<1>2. /\ TypeOK' /\ Settles /\ Uploading(r) /\ req[r].pc = "write" /\ req'[r] = Idle
      /\ req[r].user \in Users
      /\ \A q \in Requests \ {r} : req[q] # Idle => GoesOn(q) /\ req'[q].pc = req[q].pc
      /\ \A q \in Requests : req'[q] # Idle => GoesOn(q)
      /\ \/ /\ avatar' = [avatar EXCEPT ![req[r].user] = req[r].image]
            /\ \A q \in Requests : Unphoto(q)' /\ req'[q].user = req[r].user => req'[q].stale
         \/ avatar' = avatar
  BY <1>1, SetAvatarSettles
<1>3. UNCHANGED <<object, file, call, post, job, clock, taken, offered, named, shared, since>>
  BY DEF SetAvatar, files, history
<1>d. DoomLasts
  BY <1>3, DoomKept
<1> DEFINE i == req[r].image
<1>4. /\ i \in Images \ offered /\ \A u \in Users : avatar[u] # i
      /\ \A q \in Requests : req[q] # Idle /\ req[q].image = i => q = r
      /\ \A c \in Calls : ~(Storing(c) /\ Image(c) = i)
      /\ (file[i] # None \/ i \in named) /\ i # None /\ i \in taken
  <2>1. /\ i \in Images \ offered /\ \A u \in Users : avatar[u] # i
        /\ \A q \in Requests : req[q] # Idle /\ req[q].image = i => q = r
        /\ file[i] # None \/ i \in named
    BY <1>1, <1>2 DEF Ownership, UploadsOwn
  <2>2. \A c \in Calls : ~(Storing(c) /\ Image(c) = i)
    BY <1>1, <1>2 DEF Ownership, CallersWait, StoredAlone, Uploading
  <2>3. i # None /\ i \in taken
    BY <2>1, <1>1, <1>2, FilesAssumption DEF Ownership, Known, Uploading
  <2> QED
    BY <2>1, <2>2, <2>3
<1>5. \A u \in Users : avatar'[u] = avatar[u] \/ (avatar'[u] = i /\ u = req[r].user)
  BY <1>1, <1>2 DEF TypeOK
<1>6. \A d \in Calls : call'[d].who = "cron" => job'.pc = "wait"
  BY <1>1, <1>3 DEF Ownership, CallersWait
<1>7. StoredAlone'
  <2>1. \A c \in Calls : Storing(c) => Image(c) \notin offered' /\ \A u \in Users : avatar'[u] # Image(c)
    BY <1>1, <1>3, <1>4, <1>5 DEF Ownership, StoredAlone
  <2> QED
    BY <1>1, <1>2, <1>d, <2>1, SettlesStored
<1>8. CallersWait'
  BY <1>1, <1>2, <1>3, <1>6, <1>d, SettlesWait
<1>9. \A q \in Requests : req'[q] # Idle => q # r /\ req[q] # Idle /\ req[q].image # i /\ req'[q].pc = req[q].pc
  BY <1>2, <1>4 DEF GoesOn
<1>10. UploadsOwn'
  <2>1. \A q \in Requests : Uploading(q)' => Uploading(q) /\ req[q].image # i /\ req'[q].pc = req[q].pc
    BY <1>2, <1>9, SettledRequest DEF Uploading
  <2>2. \A q \in Requests : Uploading(q)' =>
          /\ req[q].image \notin offered' /\ \A u \in Users : avatar'[u] # req[q].image
          /\ req[q].pc = "wait" /\ req'[q].pc = "write" =>
               (file[req[q].image] # None \/ req[q].image \in named) /\ req[q].op = "photo"
    BY <1>1, <1>3, <1>5, <2>1 DEF Ownership, UploadsOwn
  <2> QED
    BY <1>1, <1>2, <1>d, <2>2, SettlesUploads
<1>11. UnphotosOwn'
  <2> SUFFICES ASSUME NEW q \in Requests, Unphoto(q)'
      PROVE  /\ req'[q].image \notin offered'
             /\ req'[q].image = avatar'[req'[q].user] \/ req'[q].stale \/ avatar'[req'[q].user] = None
             /\ \A u \in Users : avatar'[u] # None /\ avatar'[u] = req'[q].image => u = req'[q].user
    BY DEF UnphotosOwn
  <2>1. Unphoto(q) /\ GoesOn(q) /\ req[q].image # i
    BY <1>2, <1>9, SettledRequest DEF Unphoto
  <2>2. /\ req[q].image \notin offered
        /\ req[q].image = avatar[req[q].user] \/ req[q].stale \/ avatar[req[q].user] = None
        /\ \A u \in Users : avatar[u] # None /\ avatar[u] = req[q].image => u = req[q].user
    BY <1>1, <2>1 DEF Ownership, UnphotosOwn
  <2>3. req'[q].user \in Users
    BY <1>2, <2>1, RequestsInFlight DEF GoesOn, InFlight, TypeOK
  <2>4. req'[q].image = avatar'[req'[q].user] \/ req'[q].stale \/ avatar'[req'[q].user] = None
    BY <1>2, <1>5, <2>1, <2>2, <2>3 DEF GoesOn
  <2> QED
    BY <1>3, <1>5, <2>1, <2>2, <2>4 DEF GoesOn
<1>12. AvatarsOwn'
  BY <1>1, <1>3, <1>4, <1>5 DEF Ownership, AvatarsOwn
<1>13. Known'
  BY <1>1, <1>2, <1>3, <1>4, <1>5, <1>d, SettlesKnown DEF Ownership, Known
<1>14. Ownership'
  BY <1>7, <1>8, <1>10, <1>11, <1>12, <1>13 DEF Ownership
<1>15. Undangling'
  <2>1. \A q \in Requests : WillClear(q) => WillClear(q)' /\ req'[q].image = req[q].image
    <3> SUFFICES ASSUME NEW q \in Requests, WillClear(q)
                 PROVE  WillClear(q)' /\ req'[q].image = req[q].image
      OBVIOUS
    <3>1. GoesOn(q)
      BY <1>2 DEF WillClear, Unphoto, Uploading
    <3> QED
      BY <1>3, <3>1, WillClearStays
  <2> QED
    BY <1>1, <1>2, <1>3, <1>4, <1>5, <2>1, SettlesClears
<1> QED
  BY <1>2, <1>3, <1>14, <1>15, QuietKeeps

LEMMA ClearAvatarKeeps ==
    ASSUME MediaInv, NEW r \in Requests, ClearAvatar(r)
    PROVE  MediaInv'
<1>1. TypeOK /\ Ownership /\ CallsKnow /\ Undangling
  BY DEF MediaInv
<1>2. /\ TypeOK' /\ Settles /\ Unphoto(r) /\ req'[r] = Idle
      /\ req[r].user \in Users
      /\ \A q \in Requests \ {r} : req'[q] = req[q]
      /\ \/ avatar' = [avatar EXCEPT ![req[r].user] = None]
         \/ avatar' = avatar /\ "db" \in happened'
  BY <1>1, ClearAvatarSettles
<1>3. UNCHANGED <<object, file, call, post, job, clock, taken, offered, named, shared, since>>
  BY DEF ClearAvatar, files, history
<1>d. DoomLasts
  BY <1>3, DoomKept
<1>4. \A u \in Users : avatar'[u] = avatar[u] \/ avatar'[u] = None
  BY <1>1, <1>2 DEF TypeOK
<1>5. None \notin Images
  BY FilesAssumption
<1>6. \A d \in Calls : call'[d].who = "cron" => job'.pc = "wait"
  BY <1>1, <1>3 DEF Ownership, CallersWait
<1>7. StoredAlone'
  <2>1. \A c \in Calls : Storing(c) => Image(c) \notin offered' /\ \A u \in Users : avatar'[u] # Image(c)
    BY <1>1, <1>3, <1>4, <1>5 DEF Ownership, StoredAlone, CallsKnow
  <2> QED
    BY <1>1, <1>2, <1>d, <2>1, SettlesStored
<1>8. CallersWait'
  BY <1>1, <1>2, <1>3, <1>6, <1>d, SettlesWait
<1>9. UploadsOwn'
  <2>1. \A q \in Requests : Uploading(q)' => Uploading(q) /\ req'[q] = req[q]
    BY <1>2 DEF Uploading
  <2>2. \A q \in Requests : Uploading(q)' =>
          /\ req[q].image \notin offered' /\ \A u \in Users : avatar'[u] # req[q].image
          /\ req[q].pc = "wait" /\ req'[q].pc = "write" =>
               (file[req[q].image] # None \/ req[q].image \in named) /\ req[q].op = "photo"
    BY <1>1, <1>3, <1>4, <1>5, <2>1 DEF Ownership, UploadsOwn
  <2> QED
    BY <1>1, <1>2, <1>d, <2>2, SettlesUploads
<1>10. UnphotosOwn'
  <2>1. \A q \in Requests : Unphoto(q)' => Unphoto(q) /\ req'[q] = req[q]
    BY <1>2 DEF Unphoto
  <2>2. \A q \in Requests : Unphoto(q)' => req[q].user \in Users
    BY <1>1, <2>1, RequestsInFlight DEF InFlight, Unphoto
  <2> QED
    BY <1>1, <1>3, <1>4, <2>1, <2>2 DEF Ownership, UnphotosOwn
<1>11. AvatarsOwn'
  <2>1. None \notin offered
    BY <1>1, <1>5 DEF TypeOK
  <2> QED
    BY <1>1, <1>3, <1>4, <2>1 DEF Ownership, AvatarsOwn
<1>12. Known'
  BY <1>1, <1>2, <1>3, <1>4, <1>d, SettlesKnown DEF Ownership, Known
<1>13. Ownership'
  BY <1>7, <1>8, <1>9, <1>10, <1>11, <1>12 DEF Ownership
<1>14. Undangling'
  <2>1. \A q \in Requests : WillClear(q) => \/ WillClear(q)' /\ req'[q].image = req[q].image
                                            \/ Spoiled'
                                            \/ avatar'[req[q].user] = None
    <3> SUFFICES ASSUME NEW q \in Requests, WillClear(q)
        PROVE  \/ WillClear(q)' /\ req'[q].image = req[q].image
               \/ Spoiled'
               \/ avatar'[req[q].user] = None
      OBVIOUS
    <3>1. CASE q = r
      BY <1>1, <1>2, <3>1 DEF Spoiled, TypeOK
    <3>2. CASE q # r
      <4>1. GoesOn(q)
        BY <1>2, <3>2 DEF GoesOn, WillClear, Unphoto
      <4> QED
        BY <1>3, <4>1, WillClearStays
    <3> QED
      BY <3>1, <3>2
  <2> QED
    BY <1>1, <1>2, <1>3, <1>4, <2>1, SettlesClears
<1> QED
  BY <1>2, <1>3, <1>13, <1>14, QuietKeeps

\* Steps about posts and the job leave calls, avatars and uploads alone.
LEMMA PostStep ==
    ASSUME MediaInv, Settles, UNCHANGED <<avatar, call, taken, offered>>, DoomLasts,
           \A d \in Calls : call[d].who = "cron" => job'.pc = "wait",
           \A q \in Requests : req'[q] = req[q] \/ ~(Uploading(q) \/ WillClear(q))
    PROVE  CallsKnow' /\ Waited' /\ ObjectsMatchRows' /\ Ownership' /\ Undangling'
<1>1. CallsKnow' /\ Waited' /\ ObjectsMatchRows'
  BY SettlesCalls DEF MediaInv
<1>2. \A q \in Requests : Uploading(q) /\ req[q].pc = "wait" /\ req'[q].pc = "write" =>
          (file[req[q].image] # None \/ req[q].image \in named) /\ req[q].op = "photo"
  OBVIOUS
<1>3. Ownership'
  BY <1>2, SettlesOwnership DEF MediaInv
<1>4. Undangling'
  BY SameClears DEF MediaInv, DoomLasts
<1> QED
  BY <1>1, <1>3, <1>4

LEMMA CronWaits ==
    ASSUME Ownership, job'.pc = job.pc
    PROVE  \A d \in Calls : call[d].who = "cron" => job'.pc = "wait"
  BY DEF Ownership, CallersWait

LEMMA EditPostKeeps ==
    ASSUME MediaInv, NEW r \in Requests, EditPost(r)
    PROVE  MediaInv'
<1>1. TypeOK /\ Ownership
  BY DEF MediaInv
<1>2. /\ TypeOK' /\ Settles /\ req'[r] = Idle /\ ~WillClear(r)
      /\ \A q \in Requests \ {r} : req'[q] = req[q]
      /\ \A p \in Posts : \/ post'[p] = post[p]
                          \/ p \in Rows /\ post'[p] = [post[p] EXCEPT !.edited = TRUE]
  BY <1>1, EditPostSettles
<1>3. UNCHANGED <<avatar, call, job, clock, taken, offered, named, shared, since>>
  BY DEF EditPost, files, history
<1>4. ~Uploading(r)
  BY DEF EditPost, Asked, Uploading
<1>6. \A p \in Posts : p \in Rows' => /\ p \in Rows /\ post'[p].images = post[p].images
                                      /\ post'[p].deletedAt = post[p].deletedAt
  BY <1>1, <1>2 DEF Rows, TypeOK, PostRows
<1>7. Wanes
  BY <1>6 DEF Wanes, Live
<1>5. CallsKnow' /\ Waited' /\ ObjectsMatchRows' /\ Ownership' /\ Undangling'
  BY <1>1, <1>2, <1>3, <1>4, <1>7, PostStep, CronWaits, WanesDoom
<1>8. DeletionsSafe' /\ PostsName' /\ PostImagesStand'
  BY <1>2, <1>3, <1>7, SettlesPosts DEF MediaInv
<1>9. clock' >= clock
  BY <1>1, <1>3, MediaAssumption DEF TypeOK
<1>10. Dated'
  BY <1>2, <1>3, <1>6, <1>9, KeepsDates DEF MediaInv
<1> QED
  BY <1>2, <1>5, <1>8, <1>10 DEF MediaInv

LEMMA DeletePostKeeps ==
    ASSUME MediaInv, NEW r \in Requests, DeletePost(r)
    PROVE  MediaInv'
<1>1. TypeOK /\ Ownership /\ Dated
  BY DEF MediaInv
<1>2. /\ TypeOK' /\ Settles /\ req'[r] = Idle /\ ~WillClear(r)
      /\ \A q \in Requests \ {r} : req'[q] = req[q]
      /\ \/ UNCHANGED <<post, since>>
         \/ \E p \in Rows :
              /\ post'[p] = [post[p] EXCEPT !.deletedAt = clock]
              /\ since'[p] = IF since[p] = None THEN clock ELSE since[p]
              /\ \A x \in Posts \ {p} : post'[x] = post[x] /\ since'[x] = since[x]
  BY <1>1, DeletePostSettles
<1>3. UNCHANGED <<avatar, call, job, clock, taken, offered, named, shared>>
  BY DEF DeletePost, files
<1>4. ~Uploading(r)
  BY DEF DeletePost, Asked, Uploading
<1>6. clock \in Nat /\ clock # None /\ clock' = clock
  BY <1>1, <1>3, MediaAssumption DEF TypeOK
<1>7. Wanes /\ Dated'
  <2>1. CASE UNCHANGED <<post, since>>
    BY <1>1, <1>3, <2>1, WanesSame DEF Dated, Rows
  <2>2. ASSUME NEW p \in Rows,
               post'[p] = [post[p] EXCEPT !.deletedAt = clock],
               since'[p] = (IF since[p] = None THEN clock ELSE since[p]),
               \A x \in Posts \ {p} : post'[x] = post[x] /\ since'[x] = since[x]
        PROVE  Wanes /\ Dated'
    <3>1. /\ p \in Posts /\ post'[p].images = post[p].images /\ post'[p].deletedAt = clock
      BY <1>1, <2>2 DEF Rows, TypeOK, PostRows
    <3>2. /\ since'[p] # None /\ since'[p] <= clock
          /\ since[p] # None => since'[p] = since[p]
      BY <1>1, <1>6, <2>2, <3>1 DEF Dated
    <3>3. \A x \in Posts : x # p => (x \in Rows' <=> x \in Rows) /\ (Live(x)' <=> Live(x))
      BY <2>2 DEF Rows, Live
    <3>4. ~Live(p)'
      BY <1>6, <3>1 DEF Live
    <3>5. Wanes
      BY <2>2, <3>1, <3>3, <3>4 DEF Wanes
    <3>6. \A x \in Posts : since'[x] # None => since'[x] <= clock'
      BY <1>1, <1>6, <2>2, <3>2 DEF Dated
    <3>7. \A x \in Rows' : post'[x].deletedAt # None => since'[x] # None /\ since'[x] <= post'[x].deletedAt
      <4> SUFFICES ASSUME NEW x \in Rows', post'[x].deletedAt # None
                   PROVE  since'[x] # None /\ since'[x] <= post'[x].deletedAt
        OBVIOUS
      <4>1. CASE x = p
        BY <3>1, <3>2, <4>1
      <4>2. CASE x # p
        <5>1. x \in Posts /\ x \in Rows
          BY <3>3, <4>2 DEF Rows
        <5> QED
          BY <1>1, <2>2, <4>2, <5>1 DEF Dated
      <4> QED
        BY <4>1, <4>2
    <3>8. \A x \in job'.posts : since'[x] # None /\ since'[x] + Keep < clock'
      <4>1. \A x \in job.posts : x \in Posts
        BY <1>1 DEF TypeOK
      <4> QED
        BY <1>1, <1>3, <2>2, <3>2, <4>1 DEF Dated
    <3> QED
      BY <3>5, <3>6, <3>7, <3>8 DEF Dated
  <2> QED
    BY <1>2, <2>1, <2>2
<1>5. CallsKnow' /\ Waited' /\ ObjectsMatchRows' /\ Ownership' /\ Undangling'
  BY <1>1, <1>2, <1>3, <1>4, <1>7, PostStep, CronWaits, WanesDoom
<1>8. DeletionsSafe' /\ PostsName' /\ PostImagesStand'
  BY <1>2, <1>3, <1>7, SettlesPosts DEF MediaInv
<1> QED
  BY <1>2, <1>5, <1>7, <1>8 DEF MediaInv

LEMMA FindPostKeeps ==
    ASSUME MediaInv, NEW r \in Requests, NEW op \in Operations, NEW p \in Posts, FindPost(r, op, p)
    PROVE  MediaInv'
<1>1. TypeOK /\ Ownership
  BY DEF MediaInv
<1>2. /\ TypeOK' /\ Settles /\ req[r] = Idle
      /\ \A q \in Requests \ {r} : req'[q] = req[q]
  BY <1>1, FindPostSettles
<1>3. UNCHANGED <<avatar, call, post, job, clock, taken, offered, named, shared, since>>
  BY DEF FindPost, files, history
<1>4. ~(Uploading(r) \/ WillClear(r))
  BY <1>2 DEF Uploading, WillClear, Unphoto
<1>5. Ownership' /\ Undangling'
  BY <1>1, <1>2, <1>3, <1>4, PostStep, CronWaits, DoomKept
<1> QED
  BY <1>2, <1>3, <1>5, QuietKeeps

LEMMA CreatePostKeeps ==
    ASSUME MediaInv, NEW u \in Users, NEW images \in SUBSET Images, CreatePost(u, images)
    PROVE  MediaInv'
<1>1. TypeOK /\ Ownership /\ DeletionsSafe /\ PostsName /\ PostImagesStand
  BY DEF MediaInv
<1>2. TypeOK' /\ Settles
  BY <1>1, CreatePostSettles
<1>3. PICK p \in Posts :
        /\ post[p] = Unborn
        /\ post'[p] = [author |-> u, images |-> images, edited |-> FALSE, deletedAt |-> None]
        /\ \A x \in Posts \ {p} : post'[x] = post[x]
  BY <1>1, CreatePostSettles
<1>4. /\ UNCHANGED <<object, file, call, req, avatar, job, clock, taken, offered, since>>
      /\ named' = named \cup images
      /\ shared' = shared \cup (images \cap named)
  BY DEF CreatePost, files
<1>6. p \notin Rows /\ post'[p].images = images /\ post'[p].deletedAt = None
  BY <1>3 DEF Rows
<1>7. \A x \in Posts \ {p} : (x \in Rows' <=> x \in Rows) /\ (Live(x)' <=> Live(x))
  BY <1>3 DEF Rows, Live
<1>8. \A i : Doomed(i) => Doomed(i)'
  <2>1. \A x \in Posts : Live(x)' => \/ Live(x) /\ post'[x].images = post[x].images
                                     \/ post'[x].images \cap named \subseteq shared'
    BY <1>3, <1>4, <1>6, <1>7
  <2> QED
    BY <1>4, <2>1, DoomedStays
<1>5. CallsKnow' /\ Waited' /\ ObjectsMatchRows' /\ Ownership' /\ Undangling'
  BY <1>1, <1>2, <1>4, <1>8, PostStep, CronWaits DEF DoomLasts
<1>9. DeletionsSafe'
  <2>1. \A c \in Calls : (Deleting(c)' <=> Deleting(c)) /\ Image(c)' = Image(c)
    BY <1>4 DEF Deleting, Image
  <2>2. \A c \in Calls : Deleting(c)' => Image(c)' \notin offered' \/ Doomed(Image(c))'
    BY <1>1, <1>4, <1>8, <2>1 DEF DeletionsSafe
  <2>3. \A x \in job'.images : Doomed(x[2])'
    BY <1>1, <1>4, <1>8 DEF DeletionsSafe
  <2>4. \A i \in offered' \ named' : Stands(i)'
    BY <1>1, <1>4 DEF DeletionsSafe, Stands
  <2> QED
    BY <2>2, <2>3, <2>4 DEF DeletionsSafe
<1>10. PostsName'
  <2>1. \A x \in Rows' : x \in Posts /\ (x # p => x \in Rows /\ post'[x] = post[x])
    BY <1>3, <1>7 DEF Rows
  <2>2. \A x \in Rows' : post'[x].images \subseteq named'
    BY <1>1, <1>4, <1>6, <2>1 DEF PostsName
  <2>3. \A x, y \in Rows' : x # y => post'[x].images \cap post'[y].images \subseteq shared'
    BY <1>1, <1>4, <1>6, <2>1 DEF PostsName
  <2> QED
    BY <2>2, <2>3 DEF PostsName
<1>11. PostImagesStand'
  <2> SUFFICES ASSUME NEW x \in Posts, Live(x)', NEW i \in (post'[x].images \cap offered') \ shared'
               PROVE  i \in object' /\ file'[i] # None
    BY DEF PostImagesStand
  <2>1. CASE x = p
    <3>1. i \in offered /\ i \notin named
      BY <1>2, <1>4, <1>6, <2>1
    <3> QED
      BY <1>1, <1>4, <3>1 DEF DeletionsSafe, Stands
  <2>2. CASE x # p
    BY <1>1, <1>3, <1>4, <1>7, <2>2 DEF PostImagesStand
  <2> QED
    BY <2>1, <2>2
<1>12. Dated'
  <2>1. clock' >= clock
    BY <1>1, <1>4, MediaAssumption DEF TypeOK
  <2>2. \A x \in Posts : x \in Rows' /\ post'[x].deletedAt # None =>
            x \in Rows /\ post'[x].deletedAt = post[x].deletedAt
    BY <1>3, <1>6, <1>7
  <2> QED
    BY <1>2, <1>4, <2>1, <2>2, KeepsDates DEF MediaInv
<1> QED
  BY <1>2, <1>5, <1>9, <1>10, <1>11, <1>12 DEF MediaInv

LEMMA CleanupStartKeeps ==
    ASSUME MediaInv, CleanupStart
    PROVE  MediaInv'
<1>1. TypeOK /\ Ownership /\ DeletionsSafe /\ PostsName /\ PostImagesStand /\ Dated
  BY DEF MediaInv
<1>2. /\ TypeOK' /\ Settles
      /\ job'.posts = {p \in Posts : Due(p)} /\ job'.pc = "images"
      /\ \A x \in job'.images : \E p \in Posts : Due(p) /\ x[1] = p /\ x[2] \in post[p].images
  BY <1>1, CleanupStartSettles
<1>3. UNCHANGED <<object, file, call, req, avatar, post, clock, taken, offered, named, shared, since>>
  BY DEF CleanupStart, files, history
<1>4. \A d \in Calls : call[d].who # "cron"
  BY <1>1 DEF CleanupStart, Ownership, CallersWait
<1>5. CallsKnow' /\ Waited' /\ ObjectsMatchRows' /\ Ownership' /\ Undangling'
  BY <1>2, <1>3, <1>4, PostStep, DoomKept
<1>6. \A x : (Doomed(x)' <=> Doomed(x)) /\ (Stands(x)' <=> Stands(x))
  BY <1>3 DEF Doomed, Live, Rows, Stands
<1>7. \A x \in job'.images : Doomed(x[2])
  <2> SUFFICES ASSUME NEW x \in job'.images PROVE Doomed(x[2])
    OBVIOUS
  <2>1. PICK p \in Posts : Due(p) /\ x[2] \in post[p].images
    BY <1>2
  <2>2. p \in Rows /\ ~Live(p)
    BY <2>1 DEF Due, Live
  <2>3. x[2] \in named
    BY <1>1, <2>1, <2>2 DEF PostsName
  <2>4. ASSUME NEW q \in Posts, Live(q), x[2] \in post[q].images PROVE x[2] \in shared
    <3>1. q \in Rows /\ q # p
      BY <2>2, <2>4 DEF Live
    <3> QED
      BY <1>1, <2>1, <2>2, <2>4, <3>1 DEF PostsName
  <2> QED
    BY <2>3, <2>4 DEF Doomed
<1>8. DeletionsSafe'
  <2>1. \A c \in Calls : (Deleting(c)' <=> Deleting(c)) /\ Image(c)' = Image(c)
    BY <1>3 DEF Deleting, Image
  <2>2. \A c \in Calls : Deleting(c)' => Image(c)' \notin offered' \/ Doomed(Image(c))'
    BY <1>1, <1>3, <1>6, <2>1 DEF DeletionsSafe
  <2>3. \A x \in job'.images : Doomed(x[2])'
    BY <1>6, <1>7
  <2>4. \A i \in offered' \ named' : Stands(i)'
    BY <1>1, <1>3, <1>6 DEF DeletionsSafe
  <2> QED
    BY <2>2, <2>3, <2>4 DEF DeletionsSafe
<1>9. PostsName' /\ PostImagesStand'
  BY <1>1, <1>3 DEF PostsName, PostImagesStand, Rows, Live
<1>10. Dated'
  <2>1. \A p \in Posts : Due(p) => since[p] # None /\ since[p] + Keep < clock
    <3> SUFFICES ASSUME NEW p \in Posts, Due(p) PROVE since[p] # None /\ since[p] + Keep < clock
      OBVIOUS
    <3>1. p \in Rows /\ post[p].deletedAt # None /\ post[p].deletedAt + Keep < clock
      BY DEF Due
    <3>2. post[p].deletedAt \in Nat /\ clock \in Nat /\ Keep \in Nat
      BY <1>1, <3>1, MediaAssumption DEF TypeOK, PostRows, Rows
    <3>3. since[p] # None /\ since[p] <= post[p].deletedAt
      BY <1>1, <3>1 DEF Dated
    <3>4. since[p] \in Nat
      BY <1>1, <3>3 DEF TypeOK
    <3> QED
      BY <3>1, <3>2, <3>3, <3>4
  <2> QED
    BY <1>1, <1>2, <1>3, <2>1 DEF Dated, Rows
<1> QED
  BY <1>2, <1>5, <1>8, <1>9, <1>10 DEF MediaInv

LEMMA CleanupPostKeeps ==
    ASSUME MediaInv, NEW p \in Posts, CleanupPost(p)
    PROVE  MediaInv'
<1>1. TypeOK /\ Ownership
  BY DEF MediaInv
<1>2. /\ TypeOK' /\ Settles
      /\ job.pc = "images" /\ p \in job.posts
      /\ job'.images \subseteq job.images /\ job'.posts \subseteq job.posts
      /\ \A x \in Posts \ {p} : post'[x] = post[x]
      /\ post'[p] = post[p] \/ (post'[p] = Gone /\ p \in Rows)
  BY <1>1, CleanupPostSettles
<1>3. UNCHANGED <<avatar, call, req, clock, taken, offered, named, shared, since>>
  BY DEF CleanupPost, files, history
<1>4. \A d \in Calls : call[d].who # "cron"
  BY <1>1, <1>2 DEF Ownership, CallersWait
<1>6. \A x \in Posts : x \in Rows' => x \in Rows /\ post'[x] = post[x]
  BY <1>2 DEF Rows
<1>7. Wanes
  BY <1>6 DEF Wanes, Live
<1>5. CallsKnow' /\ Waited' /\ ObjectsMatchRows' /\ Ownership' /\ Undangling'
  BY <1>2, <1>3, <1>4, <1>7, PostStep, WanesDoom
<1>8. DeletionsSafe' /\ PostsName' /\ PostImagesStand'
  BY <1>2, <1>3, <1>7, SettlesPosts DEF MediaInv
<1>9. clock' >= clock
  BY <1>1, <1>3, MediaAssumption DEF TypeOK
<1>10. Dated'
  BY <1>2, <1>3, <1>6, <1>9, KeepsDates DEF MediaInv
<1> QED
  BY <1>2, <1>5, <1>8, <1>10 DEF MediaInv

LEMMA TickKeeps ==
    ASSUME MediaInv, Tick
    PROVE  MediaInv'
<1>1. TypeOK /\ Ownership
  BY DEF MediaInv
<1>2. TypeOK' /\ Settles /\ clock' = clock + 1 /\ clock \in Nat
  BY <1>1, TickSettles
<1>3. UNCHANGED <<avatar, call, req, post, job, taken, offered, named, shared, since>>
  BY DEF Tick, files, history
<1>4. CallsKnow' /\ Waited' /\ ObjectsMatchRows' /\ Ownership' /\ Undangling'
  BY <1>1, <1>2, <1>3, PostStep, CronWaits, DoomKept
<1>5. DeletionsSafe' /\ PostsName' /\ PostImagesStand'
  BY <1>2, <1>3, WanesSame, SettlesPosts DEF MediaInv
<1>6. clock' >= clock
  BY <1>2
<1>7. Dated'
  BY <1>2, <1>3, <1>6, KeepsDates, KeepsRowDates DEF MediaInv
<1> QED
  BY <1>2, <1>4, <1>5, <1>7 DEF MediaInv

LEMMA StutterKeeps ==
    ASSUME MediaInv, UNCHANGED vars
    PROVE  MediaInv'
<1>1. TypeOK /\ Ownership
  BY DEF MediaInv
<1>2. TypeOK' /\ Settles
  BY <1>1, StutterSettles
<1>3. UNCHANGED <<avatar, call, req, post, job, clock, taken, offered, named, shared, since>>
  BY DEF vars, gateway, files, history
<1>4. Ownership' /\ Undangling'
  BY <1>1, <1>2, <1>3, PostStep, CronWaits, DoomKept
<1> QED
  BY <1>2, <1>3, <1>4, QuietKeeps

-----------------------------------------------------------------------------
(* Steps that begin a call *)

\* A call c begins; the others and the requests but one are left alone.
Begins(c) ==
    /\ call[c] = Free /\ call'[c] # Free
    /\ call'[c].pc \in {"put", "find"} /\ call'[c].who # None
    /\ \A d \in Calls \ {c} : call'[d] = call[d]
    /\ \A q \in Requests : req'[q] = req[q] \/ req[q] = Idle
    /\ UNCHANGED <<object, file, happened, avatar, post, clock, offered, named, shared, since>>

LEMMA BeginsCalls ==
    ASSUME CallsKnow, Waited, ObjectsMatchRows, NEW c \in Calls, Begins(c),
           call'[c].pc = "put" => /\ Image(c)' \in Images /\ call'[c].row \in FileRows
                                  /\ file[Image(c)'] = None,
           call'[c].pc = "find" => ~call'[c].deleted
    PROVE  CallsKnow' /\ Waited' /\ ObjectsMatchRows'
<1>1. object' = object /\ file' = file /\ happened' = happened
  BY DEF Begins
<1>2. CallsKnow'
  <2> SUFFICES ASSUME NEW d \in Calls
      PROVE  /\ Storing(d)' => Image(d)' \in Images /\ call'[d].row \in FileRows
                               /\ file'[Image(d)'] = None
             /\ Doing(d, "create")' => Image(d)' \in object'
             /\ Doing(d, "find")' => ~call'[d].deleted
             /\ Doing(d, "unput")' => ~call'[d].deleted
             /\ Cutting(d)' => Image(d)' \in Images
             /\ Doing(d, "remove")' => IF call'[d].deleted THEN Image(d)' \notin object'
                                       ELSE "status" \in happened'
             /\ Doing(d, "again")' => "status" \in happened' /\ file'[Image(d)'] = None
    BY DEF CallsKnow
  <2>1. CASE d = c
    BY <1>1, <2>1 DEF Begins, Storing, Doing, Cutting
  <2>2. CASE d # c
    BY <1>1, <2>2 DEF Begins, CallsKnow, Storing, Doing, Cutting, Image
  <2> QED
    BY <2>1, <2>2
<1>3. Waited'
  BY <1>1 DEF Begins, Waited
<1>4. ObjectsMatchRows'
  <2> SUFFICES ASSUME NEW i \in Images, happened' \cap Cuts = {},
                      ~(i \in object <=> file[i] # None)
               PROVE  \E d \in Calls : Image(d)' = i /\ call'[d].pc \in {"create", "remove", "again"}
    BY <1>1 DEF ObjectsMatchRows
  <2>1. PICK d \in Calls : Image(d) = i /\ call[d].pc \in {"create", "remove", "again"}
    BY <1>1 DEF ObjectsMatchRows
  <2>2. d # c
    BY <2>1, FreeIs DEF Begins
  <2> QED
    BY <2>1, <2>2 DEF Begins, Image
<1> QED
  BY <1>2, <1>3, <1>4

\* Doomed images and what is on the way to an avatar stay as they were.
LEMMA BeginsSame ==
    ASSUME DeletionsSafe, PostsName, PostImagesStand, Undangling, NEW c \in Calls, Begins(c),
           job'.images \subseteq job.images,
           call'[c].pc = "find" => Image(c)' \notin offered \/ Doomed(Image(c)')
    PROVE  DeletionsSafe' /\ PostsName' /\ PostImagesStand' /\ Undangling'
<1>1. UNCHANGED <<object, file, happened, avatar, post, offered, named, shared>>
  BY DEF Begins
<1>2. \A x : (Doomed(x)' <=> Doomed(x)) /\ (Stands(x)' <=> Stands(x))
  BY <1>1 DEF Doomed, Live, Rows, Stands
<1>3. \A d \in Calls : Deleting(d)' => Image(d)' \notin offered' \/ Doomed(Image(d)')
  <2> SUFFICES ASSUME NEW d \in Calls, Deleting(d)'
               PROVE  Image(d)' \notin offered' \/ Doomed(Image(d)')
    OBVIOUS
  <2>1. CASE d = c
    BY <1>1, <2>1 DEF Begins, Deleting
  <2>2. CASE d # c
    BY <1>1, <2>2 DEF Begins, Deleting, DeletionsSafe, Image
  <2> QED
    BY <2>1, <2>2
<1>4. DeletionsSafe'
  <2>1. \A d \in Calls : Deleting(d)' => Image(d)' \notin offered' \/ Doomed(Image(d))'
    BY <1>1, <1>3 DEF Doomed, Live, Rows, Image
  <2>2. \A x \in job'.images : Doomed(x[2])'
    BY <1>2 DEF DeletionsSafe
  <2>3. \A i \in offered' \ named' : Stands(i)'
    BY <1>1, <1>2 DEF DeletionsSafe
  <2> QED
    BY <2>1, <2>2, <2>3 DEF DeletionsSafe
<1>5. PostsName' /\ PostImagesStand'
  BY <1>1 DEF PostsName, PostImagesStand, Rows, Live
<1>6. \A q \in Requests : WillClear(q) => WillClear(q)' /\ req'[q].image = req[q].image
  <2> SUFFICES ASSUME NEW q \in Requests, WillClear(q)
               PROVE  WillClear(q)' /\ req'[q].image = req[q].image
    OBVIOUS
  <2>1. req'[q] = req[q]
    BY DEF Begins, WillClear, Unphoto
  <2>2. \A d \in Calls : Cutting(d) \/ Doing(d, "answered") => d # c
    BY FreeIs DEF Begins, Cutting, Doing
  <2> QED
    BY <2>1, <2>2 DEF WillClear, Unphoto, Begins, Cutting, Doing
<1>7. Undangling'
  BY <1>1, <1>6 DEF Undangling, Spoiled
<1> QED
  BY <1>4, <1>5, <1>7

LEMMA BeginsDated ==
    ASSUME TypeOK, Dated, NEW c \in Calls, Begins(c), job'.posts \subseteq job.posts
    PROVE  Dated'
<1>1. UNCHANGED <<clock, since, post>>
  BY DEF Begins
<1> QED
  BY <1>1 DEF Dated, Rows

LEMMA UploadKeeps ==
    ASSUME MediaInv, NEW r \in Requests, NEW c \in Calls, NEW op \in Operations, NEW u \in Users,
           Upload(r, c, op, u)
    PROVE  MediaInv'
<1>1. TypeOK /\ Ownership /\ CallsKnow /\ Known
  BY DEF MediaInv, Ownership
<1>2. PICK i \in Images \ taken :
        /\ taken' = taken \cup {i}
        /\ call[c] = Free /\ call'[c].pc = "put" /\ call'[c].who = r
        /\ call'[c].row \in FileRows /\ call'[c] # Free
        /\ Image(c)' = i
        /\ req[r] = Idle /\ req'[r] # Idle
        /\ req'[r].op \in {"photo", "image"} /\ req'[r].pc = "wait" /\ req'[r].image = i
  BY <1>1, UploadTyped
<1>3. /\ TypeOK'
      /\ \A d \in Calls \ {c} : call'[d] = call[d]
      /\ \A s \in Requests \ {r} : req'[s] = req[s]
  BY <1>1, UploadTyped
<1>4. UNCHANGED <<object, file, happened, avatar, post, job, clock, offered, named, shared, since>>
  BY DEF Upload
<1>5. r # None /\ i # None /\ r # "cron" /\ None \notin Images
  BY FilesAssumption, MediaAssumption
<1>6. Begins(c)
  BY <1>2, <1>3, <1>4, <1>5 DEF Begins
<1>d. DoomLasts
  BY <1>4, DoomKept
<1>7. /\ file[i] = None /\ i \notin offered
      /\ \A d \in Calls : Image(d) = i => ForJob(d)
      /\ \A v \in Users : avatar[v] # i
      /\ \A q \in Requests : req[q] # Idle => req[q].image # i
      /\ \A d \in Calls : call[d].who # r
  BY <1>1, <1>2, <1>5 DEF Known, TypeOK, Ownership, CallersWait
<1>8. CallsKnow' /\ Waited' /\ ObjectsMatchRows'
  BY <1>2, <1>6, <1>7, BeginsCalls DEF MediaInv
<1>9. DeletionsSafe' /\ PostsName' /\ PostImagesStand' /\ Undangling' /\ Dated'
  BY <1>2, <1>4, <1>6, BeginsSame, BeginsDated DEF MediaInv
<1>10. \A d \in Calls \ {c} : Image(d)' = Image(d)
  BY <1>3 DEF Image
<1>11. StoredAlone'
  <2> SUFFICES ASSUME NEW d \in Calls, Storing(d)'
      PROVE  /\ Image(d)' \notin offered'
             /\ \A e \in Calls : Image(e)' = Image(d)' => e = d \/ ForJob(e)'
             /\ \A v \in Users : avatar'[v] # Image(d)'
             /\ \A q \in Requests : req'[q] # Idle /\ req'[q].image = Image(d)' => call'[d].who = q
    BY DEF StoredAlone
  <2>1. CASE d = c
    BY <1>2, <1>3, <1>4, <1>7, <1>10, <1>d, <2>1, ForJobStays
  <2>2. CASE d # c
    <3>1. Storing(d) /\ call'[d] = call[d] /\ Image(d)' = Image(d) /\ Image(d) # i
      BY <1>3, <1>7, <1>10, <2>2 DEF Storing, ForJob
    <3>2. \A e \in Calls : Image(e)' = Image(d) => e = d \/ ForJob(e)'
      BY <1>1, <1>2, <1>3, <1>10, <1>d, <3>1, ForJobStays DEF Ownership, StoredAlone
    <3> QED
      BY <1>1, <1>2, <1>3, <1>4, <3>1, <3>2 DEF Ownership, StoredAlone
  <2> QED
    BY <2>1, <2>2
<1>12. CallersWait'
  <2>1. \A d, e \in Calls : call'[d].who = call'[e].who /\ call'[d].who # None => d = e
    BY <1>1, <1>2, <1>3, <1>7 DEF Ownership, CallersWait
  <2>2. ASSUME NEW d \in Calls, NEW q \in Requests, call'[d].who = q
        PROVE  /\ req'[q] # Idle /\ req'[q].pc = "wait" /\ req'[q].image = Image(d)'
               /\ Storing(d)' => Uploading(q)'
               /\ Deleting(d)' => Unphoto(q)'
               /\ Doing(d, "answered")' /\ call'[d].ok /\ Uploading(q)' => Arrived(Image(d))'
    <3>1. CASE d = c
      BY <1>2, <2>2, <3>1 DEF Uploading, Deleting, Doing
    <3>2. CASE d # c
      <4>1. call'[d] = call[d] /\ q # r /\ req'[q] = req[q]
        BY <1>3, <1>7, <2>2, <3>2
      <4> QED
        BY <1>1, <1>4, <1>d, <2>2, <4>1
        DEF Ownership, CallersWait, Storing, Deleting, Doing, Uploading, Unphoto, Arrived, Stands,
            DoomLasts, Image
    <3> QED
      BY <3>1, <3>2
  <2>3. \A d \in Calls : call'[d].who = "cron" => job'.pc = "wait" /\ ~Storing(d)' /\ Doomed(Image(d))'
    BY <1>1, <1>2, <1>3, <1>4, <1>5, <1>10, <1>d DEF Ownership, CallersWait, Storing, DoomLasts
  <2> QED
    BY <2>1, <2>2, <2>3 DEF CallersWait
<1>13. UploadsOwn'
  <2> SUFFICES ASSUME NEW s \in Requests, Uploading(s)'
      PROVE  /\ req'[s].image \in Images \ offered'
             /\ \A v \in Users : avatar'[v] # req'[s].image
             /\ \A q \in Requests : req'[q] # Idle /\ req'[q].image = req'[s].image => q = s
             /\ \A d \in Calls : Image(d)' = req'[s].image =>
                  call'[d].who = s \/ (call'[d].who \in {"cron", None} /\ Doomed(Image(d))')
             /\ req'[s].pc = "write" =>
                  (file'[req'[s].image] # None \/ req'[s].image \in named') /\ req'[s].op = "photo"
    BY DEF UploadsOwn
  <2>1. CASE s = r
    <3>1. \A d \in Calls : Image(d)' = i =>
            call'[d].who = s \/ (call'[d].who \in {"cron", None} /\ Doomed(Image(d))')
      BY <1>2, <1>3, <1>7, <1>10, <1>d, <2>1 DEF ForJob, DoomLasts
    <3> QED
      BY <1>2, <1>3, <1>4, <1>7, <2>1, <3>1
  <2>2. CASE s # r
    <3>1. Uploading(s) /\ req'[s] = req[s] /\ req[s].image # i
      BY <1>3, <1>7, <2>2 DEF Uploading
    <3>2. \A d \in Calls : Image(d)' = req[s].image =>
            call'[d].who = s \/ (call'[d].who \in {"cron", None} /\ Doomed(Image(d))')
      BY <1>1, <1>2, <1>3, <1>10, <1>d, <3>1 DEF Ownership, UploadsOwn, DoomLasts
    <3> QED
      BY <1>1, <1>2, <1>3, <1>4, <3>1, <3>2 DEF Ownership, UploadsOwn
  <2> QED
    BY <2>1, <2>2
<1>14. UnphotosOwn' /\ AvatarsOwn'
  <2>1. \A q \in Requests : Unphoto(q)' => q # r /\ Unphoto(q) /\ req'[q] = req[q]
    BY <1>2, <1>3 DEF Unphoto
  <2> QED
    BY <1>1, <1>4, <2>1 DEF Ownership, UnphotosOwn, AvatarsOwn
<1>15. Known'
  <2>1. \A d \in Calls : Image(d)' \in taken' \cup {None} \/ ForJob(d)'
    BY <1>1, <1>2, <1>3, <1>10, <1>d, ForJobStays DEF Known
  <2> QED
    BY <1>1, <1>2, <1>3, <1>4, <2>1 DEF Known
<1> QED
  BY <1>3, <1>8, <1>9, <1>11, <1>12, <1>13, <1>14, <1>15 DEF MediaInv, Ownership

LEMMA DeletePhotoKeeps ==
    ASSUME MediaInv, NEW r \in Requests, NEW c \in Calls, NEW u \in Users, DeletePhoto(r, c, u)
    PROVE  MediaInv'
<1>1. TypeOK /\ Ownership /\ CallsKnow /\ Known
  BY DEF MediaInv, Ownership
<1> DEFINE i == avatar[u]
<1>2. /\ TypeOK'
      /\ call[c] = Free /\ call'[c].pc = "find" /\ call'[c].who = r /\ call'[c] # Free
      /\ Image(c)' = i /\ ~call'[c].deleted
      /\ req[r] = Idle /\ req'[r] # Idle
      /\ req'[r].op = "unphoto" /\ req'[r].pc = "wait" /\ req'[r].image = i
      /\ req'[r].user = u
      /\ \A d \in Calls \ {c} : call'[d] = call[d]
      /\ \A s \in Requests \ {r} : req'[s] = req[s]
  BY <1>1, DeletePhotoTyped
<1>3. UNCHANGED <<object, file, happened, avatar, post, job, clock, taken, offered, named, shared, since>>
  BY DEF DeletePhoto, history
<1>4. r # None /\ r # "cron" /\ None \notin Images
  BY FilesAssumption, MediaAssumption
<1>5. Begins(c)
  BY <1>2, <1>3, <1>4 DEF Begins
<1>d. DoomLasts
  BY <1>3, DoomKept
<1>6. \A d \in Calls : call[d].who # r
  BY <1>1, <1>2 DEF Ownership, CallersWait
<1>7. /\ i \notin offered /\ i \in taken \cup {None}
      /\ \A d \in Calls : Storing(d) => Image(d) # i
      /\ \A q \in Requests : Uploading(q) => req[q].image # i
  BY <1>1 DEF Ownership, AvatarsOwn, Known, StoredAlone, UploadsOwn
<1>8. CallsKnow' /\ Waited' /\ ObjectsMatchRows'
  BY <1>2, <1>5, BeginsCalls DEF MediaInv
<1>9. DeletionsSafe' /\ PostsName' /\ PostImagesStand' /\ Undangling' /\ Dated'
  BY <1>2, <1>3, <1>5, <1>7, BeginsSame, BeginsDated DEF MediaInv
<1>10. \A d \in Calls \ {c} : Image(d)' = Image(d)
  BY <1>2 DEF Image
<1>11. StoredAlone'
  <2>1. \A d \in Calls : Storing(d)' => d # c /\ Storing(d) /\ call'[d] = call[d] /\ Image(d)' = Image(d)
    BY <1>2, <1>10 DEF Storing
  <2>2. \A d, e \in Calls : Storing(d)' /\ Image(e)' = Image(d)' => e = d \/ ForJob(e)'
    BY <1>1, <1>2, <1>7, <1>10, <1>d, <2>1, ForJobStays DEF Ownership, StoredAlone
  <2> QED
    BY <1>1, <1>2, <1>3, <1>7, <2>1, <2>2 DEF Ownership, StoredAlone
<1>12. CallersWait'
  <2>1. \A d, e \in Calls : call'[d].who = call'[e].who /\ call'[d].who # None => d = e
    BY <1>1, <1>2, <1>6 DEF Ownership, CallersWait
  <2>2. ASSUME NEW d \in Calls, NEW q \in Requests, call'[d].who = q
        PROVE  /\ req'[q] # Idle /\ req'[q].pc = "wait" /\ req'[q].image = Image(d)'
               /\ Storing(d)' => Uploading(q)'
               /\ Deleting(d)' => Unphoto(q)'
               /\ Doing(d, "answered")' /\ call'[d].ok /\ Uploading(q)' => Arrived(Image(d))'
    <3>1. CASE d = c
      BY <1>2, <2>2, <3>1 DEF Unphoto, Storing, Doing
    <3>2. CASE d # c
      <4>1. call'[d] = call[d] /\ q # r /\ req'[q] = req[q]
        BY <1>2, <1>6, <2>2, <3>2
      <4> QED
        BY <1>1, <1>3, <1>d, <2>2, <4>1
        DEF Ownership, CallersWait, Storing, Deleting, Doing, Uploading, Unphoto, Arrived, Stands,
            DoomLasts, Image
    <3> QED
      BY <3>1, <3>2
  <2>3. \A d \in Calls : call'[d].who = "cron" => job'.pc = "wait" /\ ~Storing(d)' /\ Doomed(Image(d))'
    BY <1>1, <1>2, <1>3, <1>4, <1>10, <1>d DEF Ownership, CallersWait, Storing, DoomLasts
  <2> QED
    BY <2>1, <2>2, <2>3 DEF CallersWait
<1>13. UploadsOwn'
  <2>1. \A s \in Requests : Uploading(s)' => s # r /\ Uploading(s) /\ req'[s] = req[s]
    BY <1>2 DEF Uploading
  <2>2. \A s \in Requests, d \in Calls : Uploading(s)' /\ Image(d)' = req'[s].image =>
          call'[d].who = s \/ (call'[d].who \in {"cron", None} /\ Doomed(Image(d))')
    BY <1>1, <1>2, <1>7, <1>10, <1>d, <2>1 DEF Ownership, UploadsOwn, DoomLasts
  <2> QED
    BY <1>1, <1>2, <1>3, <1>7, <2>1, <2>2 DEF Ownership, UploadsOwn
<1>14. UnphotosOwn'
  <2> SUFFICES ASSUME NEW q \in Requests, Unphoto(q)'
      PROVE  /\ req'[q].image \notin offered'
             /\ req'[q].image = avatar'[req'[q].user] \/ req'[q].stale \/ avatar'[req'[q].user] = None
             /\ \A v \in Users : avatar'[v] # None /\ avatar'[v] = req'[q].image => v = req'[q].user
    BY DEF UnphotosOwn
  <2>1. CASE q = r
    BY <1>1, <1>2, <1>3, <1>7, <2>1 DEF Ownership, AvatarsOwn
  <2>2. CASE q # r
    <3>1. Unphoto(q) /\ req'[q] = req[q]
      BY <1>2, <2>2 DEF Unphoto
    <3> QED
      BY <1>1, <1>3, <3>1 DEF Ownership, UnphotosOwn
  <2> QED
    BY <2>1, <2>2
<1>15. AvatarsOwn' /\ Known'
  <2>1. \A d \in Calls : Image(d)' \in taken' \cup {None} \/ ForJob(d)'
    BY <1>1, <1>2, <1>3, <1>7, <1>10, <1>d, ForJobStays DEF Known
  <2> QED
    BY <1>1, <1>2, <1>3, <1>7, <2>1 DEF Ownership, AvatarsOwn, Known
<1> QED
  BY <1>2, <1>8, <1>9, <1>11, <1>12, <1>13, <1>14, <1>15 DEF MediaInv, Ownership

LEMMA CleanupImageKeeps ==
    ASSUME MediaInv, NEW c \in Calls, CleanupImage(c)
    PROVE  MediaInv'
<1>1. TypeOK /\ Ownership /\ CallsKnow /\ Known /\ DeletionsSafe
  BY DEF MediaInv, Ownership
<1>2. /\ TypeOK'
      /\ call[c] = Free /\ call'[c].pc = "find" /\ call'[c].who = "cron" /\ call'[c] # Free
      /\ ~call'[c].deleted
      /\ \A d \in Calls \ {c} : call'[d] = call[d]
  BY <1>1, CleanupImageTyped
<1>3. PICK x \in job.images : /\ Image(c)' = x[2]
                              /\ job' = [job EXCEPT !.pc = "wait", !.images = @ \ {x}]
  BY <1>1, CleanupImageTyped
<1>4. UNCHANGED <<object, file, happened, req, avatar, post, clock, taken, offered, named, shared, since>>
  BY DEF CleanupImage, history
<1>5. "cron" # None /\ None \notin Images /\ "cron" \notin Requests
  BY FilesAssumption, MediaAssumption
<1>6. job'.pc = "wait" /\ job'.images \subseteq job.images /\ job'.posts = job.posts
  BY <1>1, <1>3 DEF TypeOK
<1>7. Begins(c)
  BY <1>2, <1>4, <1>5 DEF Begins
<1>8. \A d \in Calls : call[d].who # "cron"
  BY <1>1 DEF Ownership, CallersWait, CleanupImage
<1>d. DoomLasts
  BY <1>4, DoomKept
<1>9. Doomed(x[2]) /\ ForJob(c)'
  <2>1. Doomed(x[2]) /\ Doomed(x[2])'
    BY <1>1, <1>3, <1>d DEF DeletionsSafe, DoomLasts
  <2> QED
    BY <1>2, <1>3, <2>1 DEF ForJob
<1>10. CallsKnow' /\ Waited' /\ ObjectsMatchRows'
  BY <1>2, <1>7, BeginsCalls DEF MediaInv
<1>11. DeletionsSafe' /\ PostsName' /\ PostImagesStand' /\ Undangling' /\ Dated'
  <2>1. Doomed(Image(c)')
    BY <1>3, <1>9
  <2> QED
    BY <1>2, <1>6, <1>7, <2>1, BeginsSame, BeginsDated DEF MediaInv
<1>12. \A d \in Calls \ {c} : Image(d)' = Image(d)
  BY <1>2 DEF Image
<1>13. StoredAlone'
  <2>1. \A d \in Calls : Storing(d)' => /\ d # c /\ Storing(d) /\ call'[d] = call[d]
                                        /\ Image(d)' = Image(d)
    BY <1>2, <1>12 DEF Storing
  <2>2. \A d, e \in Calls : Storing(d)' /\ Image(e)' = Image(d)' => e = d \/ ForJob(e)'
    BY <1>1, <1>2, <1>9, <1>12, <1>d, <2>1, ForJobStays DEF Ownership, StoredAlone
  <2> QED
    BY <1>1, <1>4, <2>1, <2>2 DEF Ownership, StoredAlone
<1>14. CallersWait'
  <2>1. \A d, e \in Calls : call'[d].who = call'[e].who /\ call'[d].who # None => d = e
    BY <1>1, <1>2, <1>8 DEF Ownership, CallersWait
  <2>2. ASSUME NEW d \in Calls, NEW q \in Requests, call'[d].who = q
        PROVE  /\ req'[q] # Idle /\ req'[q].pc = "wait" /\ req'[q].image = Image(d)'
               /\ Storing(d)' => Uploading(q)'
               /\ Deleting(d)' => Unphoto(q)'
               /\ Doing(d, "answered")' /\ call'[d].ok /\ Uploading(q)' => Arrived(Image(d))'
    <3>1. d # c
      BY <1>2, <1>5, <2>2
    <3>2. call'[d] = call[d]
      BY <1>2, <3>1
    <3> QED
      BY <1>1, <1>4, <1>d, <2>2, <3>2
      DEF Ownership, CallersWait, Storing, Deleting, Doing, Uploading, Unphoto, Arrived, Stands,
          DoomLasts, Image
  <2>3. \A d \in Calls : call'[d].who = "cron" => job'.pc = "wait" /\ ~Storing(d)' /\ Doomed(Image(d))'
    BY <1>2, <1>6, <1>8, <1>9 DEF Storing, ForJob
  <2> QED
    BY <2>1, <2>2, <2>3 DEF CallersWait
<1>15. UploadsOwn'
  <2>1. \A s \in Requests : Uploading(s)' => Uploading(s) /\ req'[s] = req[s]
    BY <1>4 DEF Uploading
  <2>2. \A s \in Requests, d \in Calls : Uploading(s)' /\ Image(d)' = req'[s].image =>
          call'[d].who = s \/ (call'[d].who \in {"cron", None} /\ Doomed(Image(d))')
    BY <1>1, <1>2, <1>9, <1>12, <1>d, <2>1 DEF Ownership, UploadsOwn, DoomLasts, ForJob
  <2> QED
    BY <1>1, <1>4, <2>1, <2>2 DEF Ownership, UploadsOwn
<1>16. UnphotosOwn' /\ AvatarsOwn'
  BY <1>1, <1>4 DEF Ownership, UnphotosOwn, AvatarsOwn, Unphoto
<1>17. Known'
  <2>1. \A d \in Calls : Image(d)' \in taken' \cup {None} \/ ForJob(d)'
    BY <1>1, <1>2, <1>4, <1>9, <1>12, <1>d, ForJobStays DEF Known
  <2> QED
    BY <1>1, <1>4, <2>1 DEF Known
<1> QED
  BY <1>2, <1>10, <1>11, <1>13, <1>14, <1>15, <1>16, <1>17 DEF MediaInv, Ownership

-----------------------------------------------------------------------------
(* Steps of the service *)

Alone == object' = object /\ file' = file

Answers(c, ok) ==
    IF call[c].who = None THEN call'[c] = Free ELSE call'[c].pc = "answered" /\ call'[c].ok = ok

Broke == happened' \cap Cuts # {}

Goes(c, from, to) == Doing(c, from) /\ call'[c].pc = to

Stores(c) ==
    \/ Goes(c, "put", "create") /\ object' = object \cup {Image(c)} /\ file' = file
    \/ /\ Doing(c, "create") /\ Answers(c, TRUE) /\ object' = object
       /\ file' = [file EXCEPT ![Image(c)] = call[c].row]
    \/ Storing(c) /\ Answers(c, FALSE) /\ Alone /\ Broke

Deletes(c) ==
    \/ /\ Goes(c, "find", "unput") /\ Alone /\ call'[c].deleted = call[c].deleted
       /\ Image(c) \in Images /\ file[Image(c)] # None
    \/ Doing(c, "find") /\ (\E ok \in BOOLEAN : Answers(c, ok)) /\ Alone
    \/ /\ Goes(c, "unput", "remove") /\ call'[c].deleted
       /\ object' = object \ {Image(c)} /\ file' = file
    \/ Goes(c, "unput", "remove") /\ ~call'[c].deleted /\ Alone /\ "status" \in happened'
    \/ Cutting(c) /\ Answers(c, TRUE) /\ Alone /\ Broke
    \/ /\ Doing(c, "remove") /\ object' = object /\ file' = [file EXCEPT ![Image(c)] = None]
       /\ IF call[c].deleted THEN Answers(c, TRUE) ELSE call'[c].pc = "again"
    \/ /\ Doing(c, "again") /\ Answers(c, TRUE) /\ file' = file
       /\ object' = object \ {Image(c)} \/ (object' = object /\ Broke)

LEMMA AnswersIs ==
    ASSUME FilesTypeOK, NEW c \in Calls, NEW ok \in BOOLEAN, call[c] \in InService, Answer(c, ok)
    PROVE  Answers(c, ok)
<1>1. call'[c] = Answered(c, ok)
  BY DEF Answer, FilesTypeOK
<1> QED
  BY <1>1 DEF Answered, Answers, InService

LEMMA ThenIs ==
    ASSUME FilesTypeOK, NEW c \in Calls, NEW pc \in CallSteps, call[c] \in InService, Then(c, pc)
    PROVE  call'[c].pc = pc /\ call'[c].deleted = call[c].deleted
  BY DEF Then, FilesTypeOK, InService

LEMMA FaultsCut == "s3" \in Cuts /\ "mongo" \in Cuts
  BY DEF Cuts

LEMMA ServingDoes ==
    ASSUME FilesTypeOK, CallsKnow, NEW c \in Calls, Serving(c)
    PROVE  Stores(c) \/ Deletes(c)
<1>1. call[c] \in InService
  BY ServingIs
<1>2. \A ok \in BOOLEAN : Answer(c, ok) => Answers(c, ok)
  BY <1>1, AnswersIs
<1>3. \A pc \in CallSteps : Then(c, pc) => call'[c].pc = pc /\ call'[c].deleted = call[c].deleted
  BY <1>1, ThenIs
<1>4. /\ Fault("s3") => Broke
      /\ Fault("mongo") => Broke
      /\ Fault("status") => "status" \in happened' /\ "status" \notin happened
  BY FaultsCut DEF Fault, Broke
<1>5. CASE Put(c)
  <2>1. CASE object' = object \cup {Image(c)} /\ Then(c, "create") /\ NoFault
    BY <1>3, <1>5, <2>1 DEF Put, CallSteps, Stores, Goes
  <2>2. CASE Fault("s3") /\ Answer(c, FALSE) /\ UNCHANGED object
    BY <1>2, <1>4, <1>5, <2>2 DEF Put, Stores, Storing, Doing, Alone
  <2> QED
    BY <1>5, <2>1, <2>2 DEF Put
<1>6. CASE CreateFile(c)
  <2>1. CASE file' = [file EXCEPT ![Image(c)] = call[c].row] /\ Answer(c, TRUE)
    BY <1>2, <1>6, <2>1 DEF CreateFile, Stores
  <2>2. CASE Fault("mongo") /\ NotCreated(c) /\ UNCHANGED file
    BY <1>2, <1>4, <1>6, <2>2 DEF CreateFile, NotCreated, Stores, Storing, Doing, Alone
  <2> QED
    BY <1>6, <2>1, <2>2 DEF CreateFile
<1>7. CASE FindFile(c)
  <2>1. CASE Image(c) # None /\ file[Image(c)] # None /\ Then(c, "unput")
    <3>1. Image(c) \in Images
      BY <1>1, <2>1 DEF InService, Image
    <3> QED
      BY <1>3, <1>7, <2>1, <3>1 DEF FindFile, Deletes, CallSteps, Goes, Alone
  <2>2. CASE \E ok \in BOOLEAN : Answer(c, ok)
    BY <1>2, <1>7, <2>2 DEF FindFile, Deletes, Alone
  <2> QED
    BY <1>7, <2>1, <2>2 DEF FindFile
<1>8. CASE Unput(c)
  <2>1. CASE object' = object \ {Image(c)} /\ call' = [call EXCEPT ![c].pc = "remove", ![c].deleted = TRUE]
    <3>1. call'[c].pc = "remove" /\ call'[c].deleted
      BY <1>1, <2>1 DEF FilesTypeOK, InService
    <3> QED
      BY <1>8, <2>1, <3>1 DEF Unput, Deletes, Goes
  <2>2. CASE Fault("status") /\ Then(c, "remove") /\ UNCHANGED object
    <3>1. call'[c].pc = "remove" /\ ~call'[c].deleted
      BY <1>3, <1>8, <2>2 DEF Unput, CallSteps, CallsKnow
    <3> QED
      BY <1>4, <1>8, <2>2, <3>1 DEF Unput, Deletes, Goes, Alone
  <2>3. CASE Fault("s3") /\ Answer(c, TRUE) /\ UNCHANGED object
    BY <1>2, <1>4, <1>8, <2>3 DEF Unput, Deletes, Cutting, Doing, Alone
  <2> QED
    BY <1>8, <2>1, <2>2, <2>3 DEF Unput
<1>9. CASE RemoveFile(c)
  <2>1. CASE file' = [file EXCEPT ![Image(c)] = None] /\ AfterRemove(c)
    BY <1>2, <1>3, <1>9, <2>1 DEF RemoveFile, AfterRemove, Deletes, CallSteps
  <2>2. CASE Fault("mongo") /\ Answer(c, TRUE) /\ UNCHANGED file
    BY <1>2, <1>4, <1>9, <2>2 DEF RemoveFile, Deletes, Cutting, Doing, Alone
  <2> QED
    BY <1>9, <2>1, <2>2 DEF RemoveFile
<1>10. CASE UnputAgain(c)
  <2>1. "status" \in happened
    BY <1>10 DEF UnputAgain, CallsKnow
  <2>2. object' = object \ {Image(c)} \/ (object' = object /\ Broke)
    BY <1>4, <1>10, <2>1 DEF UnputAgain
  <2> QED
    BY <1>2, <1>10, <2>2 DEF UnputAgain, Deletes
<1> QED
  BY <1>5, <1>6, <1>7, <1>8, <1>9, <1>10 DEF Serving

\* What every step of the service has in common: it goes on or answers, and
\* touches one file only, which it stores or deletes.
LEMMA ServeIs ==
    ASSUME MediaInv, NEW c \in Calls, Serve(c)
    PROVE  /\ TypeOK' /\ UNCHANGED gateway /\ happened \subseteq happened'
           /\ Stores(c) \/ Deletes(c)
           /\ ~Doing(c, "answered")
           /\ \A d \in Calls \ {c} : call'[d] = call[d]
           /\ call'[c].who = call[c].who
           /\ call'[c] = Free \/ Image(c)' = Image(c)
           /\ call'[c] = Free => call[c].who = None
           /\ call'[c] # Free => call'[c].row = call[c].row
           /\ Storing(c)' => Storing(c)
           /\ Deleting(c)' => Deleting(c)
           /\ Stores(c) => Storing(c) /\ ~Deleting(c)'
           /\ Deletes(c) => Deleting(c)
           /\ Storing(c) => ~Deleting(c)
           /\ \A i \in Images \ {Image(c)} : (i \in object' <=> i \in object) /\ file'[i] = file[i]
           /\ Stores(c) => object \subseteq object' /\ \A i \in Images : file[i] # None => file'[i] # None
           /\ Deletes(c) => object' \subseteq object /\ \A i \in Images : file'[i] = None \/ file'[i] = file[i]
<1>1. FilesTypeOK /\ CallsKnow /\ Serving(c) /\ UNCHANGED gateway
  BY DEF MediaInv, TypeOK, Serve
<1>2. /\ call[c] \in InService /\ ~Doing(c, "answered")
      /\ \A d \in Calls \ {c} : call'[d] = call[d]
      /\ call'[c].who = call[c].who
      /\ call'[c] # Free => Image(c)' = Image(c) /\ call'[c].row = call[c].row
      /\ call'[c] = Free => call[c].who = None
      /\ happened \subseteq happened'
  BY <1>1, ServingIs
<1>3. Stores(c) \/ Deletes(c)
  BY <1>1, ServingDoes
<1>4. TypeOK'
  <2>1. FilesTypeOK'
    BY <1>1, ServingTyped DEF CallsKnow
  <2>2. GatewayTypeOK'
    BY <1>1 DEF MediaInv, TypeOK, GatewayTypeOK, gateway, history
  <2> QED
    BY <2>1, <2>2 DEF TypeOK, GatewayTypeOK
<1>5. /\ Stores(c) => Storing(c)
      /\ Deletes(c) => Deleting(c)
      /\ Storing(c) => ~Deleting(c)
  BY DEF Stores, Deletes, Storing, Deleting, Cutting, Goes, Doing
<1>6. Free.pc = "free"
  BY FreeIs
<1>7. Stores(c) => ~Deleting(c)'
  BY <1>6 DEF Stores, Answers, Goes, Deleting
<1>8. Deletes(c) => ~Storing(c)'
  BY <1>6 DEF Deletes, Answers, Goes, Storing
<1>9. (Storing(c)' => Storing(c)) /\ (Deleting(c)' => Deleting(c))
  BY <1>3, <1>5, <1>7, <1>8
<1>10. file \in [Images -> FileRows \cup {None}]
  BY <1>1 DEF FilesTypeOK
<1>11. Stores(c) => /\ \A i \in Images \ {Image(c)} : (i \in object' <=> i \in object) /\ file'[i] = file[i]
                    /\ object \subseteq object' /\ \A i \in Images : file[i] # None => file'[i] # None
  <2>1. Storing(c) => call[c].row # None
    BY <1>1, NoneAssumption DEF CallsKnow
  <2> QED
    BY <1>5, <1>10, <2>1 DEF Stores, Alone
<1>12. Deletes(c) => /\ \A i \in Images \ {Image(c)} : (i \in object' <=> i \in object) /\ file'[i] = file[i]
                     /\ object' \subseteq object /\ \A i \in Images : file'[i] = None \/ file'[i] = file[i]
  BY <1>10 DEF Deletes, Alone
<1> QED
  BY <1>1, <1>2, <1>3, <1>4, <1>5, <1>7, <1>9, <1>11, <1>12

\* A deletion for the job that finds no file stays one.
LEMMA ServeForJob ==
    ASSUME MediaInv, NEW c \in Calls, Serve(c), NEW d \in Calls, ForJob(d), call'[d] # Free
    PROVE  ForJob(d)' \/ (Image(d) \in Images /\ file[Image(d)] # None)
<1>1. /\ Stores(c) \/ Deletes(c)
      /\ ~Doing(c, "answered")
      /\ \A e \in Calls \ {c} : call'[e] = call[e]
      /\ call'[c].who = call[c].who
      /\ call'[c] = Free \/ Image(c)' = Image(c)
      /\ Stores(c) => Storing(c)
      /\ UNCHANGED <<post, named, shared>>
  BY ServeIs DEF gateway, history
<1>2. DoomLasts
  BY <1>1, DoomKept
<1>3. CASE d # c
  BY <1>1, <1>2, <1>3, ForJobStays
<1>4. CASE d = c
  <2>1. Doing(c, "find") /\ Deletes(c)
    BY <1>1, <1>4 DEF ForJob, Storing, Doing
  <2>2. CASE Goes(c, "find", "unput") /\ Image(c) \in Images /\ file[Image(c)] # None
    BY <1>4, <2>2
  <2>3. CASE \E ok \in BOOLEAN : Answers(c, ok)
    <3>1. call'[c].pc = "answered" /\ Image(c)' = Image(c)
      BY <1>1, <1>4, <2>3 DEF Answers
    <3>2. PICK i : i = Image(c) /\ Doomed(i)'
      BY <1>2, <1>4 DEF ForJob, DoomLasts
    <3> QED
      BY <1>1, <1>4, <3>1, <3>2 DEF ForJob
  <2> QED
    BY <2>1, <2>2, <2>3 DEF Deletes, Goes, Cutting, Doing
<1> QED
  BY <1>3, <1>4

LEMMA ServeCalls ==
    ASSUME MediaInv, NEW c \in Calls, Serve(c)
    PROVE  CallsKnow' /\ Waited' /\ ObjectsMatchRows'
<1>1. /\ happened \subseteq happened'
      /\ Stores(c) \/ Deletes(c)
      /\ \A d \in Calls \ {c} : call'[d] = call[d]
      /\ call'[c].who = call[c].who
      /\ call'[c] = Free \/ Image(c)' = Image(c)
      /\ call'[c] # Free => call'[c].row = call[c].row
      /\ Stores(c) => Storing(c)
      /\ Deletes(c) => Deleting(c)
      /\ \A i \in Images \ {Image(c)} : (i \in object' <=> i \in object) /\ file'[i] = file[i]
  BY ServeIs
<1>2. CallsKnow /\ StoredAlone /\ file \in [Images -> FileRows \cup {None}] /\ object \subseteq Images
  BY DEF MediaInv, Ownership, TypeOK, FilesTypeOK
<1>3. ~Doing(c, "answered")
  BY ServeIs
<1>4. /\ Storing(c) => Image(c) \in Images /\ call[c].row \in FileRows /\ file[Image(c)] = None
      /\ Doing(c, "create") => Image(c) \in object
      /\ Doing(c, "find") => ~call[c].deleted
      /\ Doing(c, "unput") => ~call[c].deleted
      /\ Cutting(c) => Image(c) \in Images
      /\ Doing(c, "remove") => IF call[c].deleted THEN Image(c) \notin object
                                                  ELSE "status" \in happened
      /\ Doing(c, "again") => "status" \in happened /\ file[Image(c)] = None
  BY <1>2 DEF CallsKnow
<1>5. Free.pc = "free"
  BY FreeIs
<1>6. CallsKnow'
  <2> SUFFICES ASSUME NEW d \in Calls
      PROVE  /\ Storing(d)' => Image(d)' \in Images /\ call'[d].row \in FileRows
                               /\ file'[Image(d)'] = None
             /\ Doing(d, "create")' => Image(d)' \in object'
             /\ Doing(d, "find")' => ~call'[d].deleted
             /\ Doing(d, "unput")' => ~call'[d].deleted
             /\ Cutting(d)' => Image(d)' \in Images
             /\ Doing(d, "remove")' => IF call'[d].deleted THEN Image(d)' \notin object'
                                       ELSE "status" \in happened'
             /\ Doing(d, "again")' => "status" \in happened' /\ file'[Image(d)'] = None
    BY DEF CallsKnow
  <2>1. CASE d = c /\ Stores(c)
    BY <1>1, <1>2, <1>4, <1>5, <2>1 DEF Stores, Answers, Goes, Storing, Doing, Cutting, Alone
  <2>2. CASE d = c /\ Deletes(c)
    <3>1. call'[c] # Free => Image(c)' = Image(c)
      BY <1>1
    <3>2. CASE /\ Goes(c, "find", "unput") /\ Alone /\ call'[c].deleted = call[c].deleted
               /\ Image(c) \in Images
      BY <1>4, <1>5, <2>2, <3>1, <3>2 DEF Goes, Storing, Doing, Cutting
    <3>3. CASE Answers(c, TRUE) \/ Answers(c, FALSE)
      BY <1>5, <2>2, <3>3 DEF Answers, Storing, Doing, Cutting
    <3>4. CASE Goes(c, "unput", "remove") /\ call'[c].deleted /\ object' = object \ {Image(c)}
      BY <1>4, <1>5, <2>2, <3>1, <3>4 DEF Goes, Storing, Doing, Cutting
    <3>5. CASE Goes(c, "unput", "remove") /\ ~call'[c].deleted /\ "status" \in happened'
      BY <1>4, <1>5, <2>2, <3>1, <3>5 DEF Goes, Storing, Doing, Cutting
    <3>6. CASE /\ Doing(c, "remove") /\ file' = [file EXCEPT ![Image(c)] = None]
               /\ ~call[c].deleted /\ call'[c].pc = "again"
      BY <1>1, <1>2, <1>4, <1>5, <2>2, <3>1, <3>6 DEF Storing, Doing, Cutting
    <3> QED
      BY <2>2, <3>2, <3>3, <3>4, <3>5, <3>6 DEF Deletes
  <2>3. CASE d # c
    <3>1. call'[d] = call[d] /\ Image(d)' = Image(d)
      BY <1>1, <2>3 DEF Image
    <3>2. /\ Storing(d) => Image(d) \in Images /\ call[d].row \in FileRows /\ file[Image(d)] = None
          /\ Doing(d, "create") => Image(d) \in object
          /\ Doing(d, "find") => ~call[d].deleted
          /\ Doing(d, "unput") => ~call[d].deleted
          /\ Cutting(d) => Image(d) \in Images
          /\ Doing(d, "remove") => IF call[d].deleted THEN Image(d) \notin object
                                                      ELSE "status" \in happened
          /\ Doing(d, "again") => "status" \in happened /\ file[Image(d)] = None
      BY <1>2 DEF CallsKnow
    <3>3. Storing(d) => Image(d) # Image(c) \/ Alone
      <4> SUFFICES ASSUME Storing(d), Image(d) = Image(c) PROVE Alone
        OBVIOUS
      <4>1. Doing(c, "find")
        BY <1>2, <1>3, <2>3 DEF StoredAlone, ForJob, Doing
      <4> QED
        BY <1>1, <4>1 DEF Storing, Doing, Deletes, Goes, Cutting
    <3>4. Image(c) = Image(d) => Deletes(c) \/ ~(Cutting(d))
      BY <1>1, <1>2, <2>3 DEF StoredAlone, ForJob, Cutting
    <3>5. Cutting(d) => /\ Image(d) \notin object => Image(d) \notin object'
                        /\ file[Image(d)] = None => file'[Image(d)] = None
      <4>1. CASE Image(d) # Image(c)
        BY <1>1, <3>2, <4>1
      <4>2. CASE Image(d) = Image(c)
        <5>1. Cutting(d) => Deletes(c)
          BY <3>4, <4>2
        <5>2. Deletes(c) => object' \subseteq object /\ \A i \in Images : file'[i] = None \/ file'[i] = file[i]
          BY ServeIs
        <5> QED
          BY <3>2, <4>2, <5>1, <5>2
      <4> QED
        BY <4>1, <4>2
    <3>6. Storing(d) => file'[Image(d)] = None /\ (Image(d) \in object => Image(d) \in object')
      BY <1>1, <3>2, <3>3 DEF Alone
    <3> QED
      BY <1>1, <3>1, <3>2, <3>5, <3>6 DEF Storing, Doing, Cutting
  <2> QED
    BY <1>1, <2>1, <2>2, <2>3
<1>7. Waited'
  <2>1. call[c] # Free
    BY <1>1, <1>5 DEF Storing, Deleting
  <2> QED
    BY <1>1, <2>1 DEF MediaInv, Waited
<1>8. ObjectsMatchRows'
  <2> SUFFICES ASSUME NEW i \in Images, happened' \cap Cuts = {},
                      ~(i \in object' <=> file'[i] # None)
               PROVE  \E d \in Calls : Image(d)' = i /\ call'[d].pc \in {"create", "remove", "again"}
    BY DEF ObjectsMatchRows
  <2>1. happened \cap Cuts = {} /\ ~Broke
    BY <1>1 DEF Broke
  <2>2. ~(i \in object <=> file[i] # None) =>
            \E d \in Calls : Image(d) = i /\ call[d].pc \in {"create", "remove", "again"}
    BY <2>1 DEF MediaInv, ObjectsMatchRows
  <2>3. ASSUME NEW d \in Calls \ {c}, Image(d) = i, call[d].pc \in {"create", "remove", "again"}
        PROVE  Image(d)' = i /\ call'[d].pc \in {"create", "remove", "again"}
    BY <1>1, <2>3 DEF Image
  <2>4. CASE i # Image(c)
    BY <1>1, <2>2, <2>3, <2>4
  <2>5. CASE i = Image(c) /\ call'[c].pc \in {"create", "remove", "again"}
    BY <1>1, <1>5, <2>5
  <2>6. CASE i = Image(c) /\ call'[c].pc \notin {"create", "remove", "again"}
    <3>1. CASE Stores(c)
      <4>1. i \in object' /\ file'[i] # None
        BY <1>1, <1>2, <1>4, <2>1, <2>6, <3>1, NoneAssumption DEF Stores, Goes
      <4> QED
        BY <4>1
    <3>2. CASE Deletes(c)
      <4>1. CASE Doing(c, "find") /\ Alone
        <5>1. PICK d \in Calls : Image(d) = i /\ call[d].pc \in {"create", "remove", "again"}
          BY <2>2, <4>1 DEF Alone
        <5>2. d # c
          BY <4>1, <5>1 DEF Doing
        <5> QED
          BY <2>3, <5>1, <5>2
      <4>2. CASE Doing(c, "remove") /\ object' = object /\ file' = [file EXCEPT ![Image(c)] = None]
                 /\ call[c].deleted
        BY <1>2, <1>4, <2>6, <4>2 DEF Cutting, Doing
      <4>3. CASE Doing(c, "again") /\ file' = file /\ object' = object \ {Image(c)}
        BY <1>4, <2>6, <4>3
      <4> QED
        BY <2>1, <2>6, <3>2, <4>1, <4>2, <4>3 DEF Deletes, Goes
    <3> QED
      BY <1>1, <3>1, <3>2
  <2> QED
    BY <2>4, <2>5, <2>6
<1> QED
  BY <1>6, <1>7, <1>8

LEMMA ServeOwnership ==
    ASSUME MediaInv, NEW c \in Calls, Serve(c)
    PROVE  Ownership'
<1>1. /\ Stores(c) \/ Deletes(c)
      /\ ~Doing(c, "answered")
      /\ \A d \in Calls \ {c} : call'[d] = call[d]
      /\ call'[c].who = call[c].who
      /\ call'[c] = Free \/ Image(c)' = Image(c)
      /\ Storing(c)' => Storing(c)
      /\ Deleting(c)' => Deleting(c)
      /\ Stores(c) => Storing(c) /\ ~Deleting(c)'
      /\ Deletes(c) => Deleting(c)
      /\ Storing(c) => ~Deleting(c)
      /\ \A i \in Images \ {Image(c)} : (i \in object' <=> i \in object) /\ file'[i] = file[i]
      /\ Stores(c) => object \subseteq object' /\ \A i \in Images : file[i] # None => file'[i] # None
      /\ Deletes(c) => object' \subseteq object /\ \A i \in Images : file'[i] = None \/ file'[i] = file[i]
  BY ServeIs
<1>2. UNCHANGED <<avatar, req, job, taken, offered, named, post, shared>>
  BY ServeIs DEF gateway, history
<1>3. /\ StoredAlone /\ CallersWait /\ UploadsOwn /\ UnphotosOwn /\ AvatarsOwn /\ Known /\ CallsKnow
      /\ None \notin Images /\ None \notin Requests /\ "cron" # None
      /\ file \in [Images -> FileRows \cup {None}]
  BY FilesAssumption, MediaAssumption DEF MediaInv, Ownership, TypeOK, FilesTypeOK
<1>d. DoomLasts
  BY <1>2, DoomKept
<1>4. \A d \in Calls : /\ call'[d].who = call[d].who
                       /\ Image(d)' = Image(d) \/ Image(d)' = None
                       /\ Storing(d)' => Storing(d) /\ Image(d)' = Image(d)
                       /\ Deleting(d)' => Deleting(d)
  <2>1. Image(c)' = Image(c) \/ Image(c)' = None
    BY <1>1, FreeIs DEF Image
  <2>2. Storing(c)' => Image(c)' = Image(c)
    BY <1>1, FreeIs DEF Storing
  <2>3. \A d \in Calls \ {c} : /\ Image(d)' = Image(d) /\ (Storing(d)' <=> Storing(d))
                               /\ (Deleting(d)' <=> Deleting(d))
    BY <1>1 DEF Image, Storing, Deleting
  <2> QED
    BY <1>1, <2>1, <2>2, <2>3
<1>5. StoredAlone'
  <2>1. \A d \in Calls : Storing(d) => Image(d) \in Images
    BY <1>3 DEF CallsKnow
  <2>2. ASSUME NEW d \in Calls, NEW e \in Calls, Storing(d)', Image(e)' = Image(d)'
        PROVE  e = d \/ ForJob(e)'
    <3>1. Storing(d) /\ Image(d)' = Image(d) /\ Image(d) \in Images /\ file[Image(d)] = None
      BY <1>3, <1>4, <2>2 DEF CallsKnow
    <3>2. Image(e) = Image(d) /\ call'[e] # Free
      BY <1>3, <1>4, <2>2, <3>1, FreeIs DEF Image
    <3> QED
      BY <1>3, <3>1, <3>2, ServeForJob DEF StoredAlone
  <2> QED
    BY <1>2, <1>3, <1>4, <2>1, <2>2 DEF StoredAlone
<1>6. CallersWait'
  <2>1. \A d, e \in Calls : call'[d].who = call'[e].who /\ call'[d].who # None => d = e
    BY <1>3, <1>4 DEF CallersWait
  <2>2. ASSUME NEW d \in Calls, NEW q \in Requests, call'[d].who = q
        PROVE  /\ req'[q] # Idle /\ req'[q].pc = "wait" /\ req'[q].image = Image(d)'
               /\ Storing(d)' => Uploading(q)'
               /\ Deleting(d)' => Unphoto(q)'
               /\ Doing(d, "answered")' /\ call'[d].ok /\ Uploading(q)' => Arrived(Image(d))'
    <3>1. /\ call[d].who = q
          /\ req[q] # Idle /\ req[q].pc = "wait" /\ req[q].image = Image(d)
          /\ Storing(d) => Uploading(q)
          /\ Deleting(d) => Unphoto(q)
          /\ Doing(d, "answered") /\ call[d].ok /\ Uploading(q) => Arrived(Image(d))
      BY <1>3, <1>4, <2>2 DEF CallersWait
    <3>2. (Uploading(q)' <=> Uploading(q)) /\ (Unphoto(q)' <=> Unphoto(q))
      BY <1>2 DEF Uploading, Unphoto
    <3>3. Image(d)' = Image(d)
      <4>1. call'[d] # Free
        BY <1>3, <2>2, FreeIs
      <4> QED
        BY <1>1, <4>1 DEF Image
    <3>4. ASSUME Doing(d, "answered")', call'[d].ok, Uploading(q) PROVE Arrived(Image(d))'
      <4>1. Image(d) \in Images
        BY <1>3, <3>1, <3>4 DEF UploadsOwn
      <4>2. CASE d = c
        <5>1. ~Deletes(c)
          BY <1>1, <3>1, <3>4, <4>2 DEF Uploading, Unphoto
        <5>2. Stores(c) /\ call'[c].pc = "answered" /\ call'[c].ok
          BY <1>1, <3>4, <4>2, <5>1 DEF Doing
        <5>3. Doing(c, "create") /\ object' = object /\ file' = [file EXCEPT ![Image(c)] = call[c].row]
          BY <1>3, <3>1, <4>2, <5>2 DEF Stores, Goes, Answers
        <5>4. Image(c) \in object /\ call[c].row # None
          BY <1>3, <5>3, NoneAssumption DEF CallsKnow, Storing, Doing
        <5> QED
          BY <1>3, <3>3, <4>1, <4>2, <5>3, <5>4 DEF Arrived, Stands
      <4>3. CASE d # c
        <5>1. Arrived(Image(d))
          BY <1>1, <3>1, <3>4, <4>3 DEF Doing
        <5>2. Image(d) # Image(c) \/ Doomed(Image(d))
          BY <1>1, <1>3, <3>1, <3>4, <4>3 DEF UploadsOwn, CallersWait
        <5> QED
          BY <1>1, <1>d, <3>3, <4>1, <5>1, <5>2 DEF Arrived, Stands, DoomLasts
      <4> QED
        BY <4>2, <4>3
    <3> QED
      BY <1>2, <1>4, <3>1, <3>2, <3>3, <3>4
  <2>3. \A d \in Calls : call'[d].who = "cron" => job'.pc = "wait" /\ ~Storing(d)' /\ Doomed(Image(d))'
    <3> SUFFICES ASSUME NEW d \in Calls, call'[d].who = "cron"
                 PROVE  job'.pc = "wait" /\ ~Storing(d)' /\ Doomed(Image(d))'
      OBVIOUS
    <3>1. call'[d] # Free
      BY <1>3, FreeIs
    <3>2. Image(d)' = Image(d)
      BY <1>1, <3>1 DEF Image
    <3> QED
      BY <1>2, <1>3, <1>4, <1>d, <3>2 DEF CallersWait, DoomLasts
  <2> QED
    BY <2>1, <2>2, <2>3 DEF CallersWait
<1>7. UploadsOwn'
  <2> SUFFICES ASSUME NEW s \in Requests, Uploading(s)'
      PROVE  /\ req'[s].image \in Images \ offered'
             /\ \A v \in Users : avatar'[v] # req'[s].image
             /\ \A q \in Requests : req'[q] # Idle /\ req'[q].image = req'[s].image => q = s
             /\ \A d \in Calls : Image(d)' = req'[s].image =>
                  call'[d].who = s \/ (call'[d].who \in {"cron", None} /\ Doomed(Image(d))')
             /\ req'[s].pc = "write" =>
                  (file'[req'[s].image] # None \/ req'[s].image \in named') /\ req'[s].op = "photo"
    BY DEF UploadsOwn
  <2>1. Uploading(s) /\ req'[s] = req[s]
    BY <1>2 DEF Uploading
  <2>2. /\ req[s].image \in Images \ offered
        /\ \A v \in Users : avatar[v] # req[s].image
        /\ \A q \in Requests : req[q] # Idle /\ req[q].image = req[s].image => q = s
        /\ \A d \in Calls : Image(d) = req[s].image =>
             call[d].who = s \/ (call[d].who \in {"cron", None} /\ Doomed(Image(d)))
        /\ req[s].pc = "write" =>
             (file[req[s].image] # None \/ req[s].image \in named) /\ req[s].op = "photo"
    BY <1>3, <2>1 DEF UploadsOwn
  <2>3. \A d \in Calls : Image(d)' = req[s].image =>
          call'[d].who = s \/ (call'[d].who \in {"cron", None} /\ Doomed(Image(d))')
    BY <1>3, <1>4, <1>d, <2>2 DEF DoomLasts
  <2>4. req[s].pc = "write" => file'[req[s].image] # None \/ req[s].image \in named
    <3>1. SUFFICES ASSUME req[s].pc = "write", req[s].image \notin named
                   PROVE  file'[req[s].image] # None
      OBVIOUS
    <3>2. Image(c) # req[s].image
      BY <1>3, <2>2, <3>1 DEF CallersWait, Doomed
    <3> QED
      BY <1>1, <2>2, <3>1, <3>2
  <2> QED
    BY <1>2, <2>1, <2>2, <2>3, <2>4
<1>8. UnphotosOwn' /\ AvatarsOwn'
  BY <1>2, <1>3 DEF UnphotosOwn, AvatarsOwn, Unphoto
<1>9. Known'
  <2>1. Stores(c) => Image(c) \in taken
    BY <1>1, <1>3 DEF Known, ForJob, Storing, CallsKnow
  <2>2. object' \subseteq Images
    BY ServeIs DEF TypeOK, FilesTypeOK
  <2>3. \A i \in object' : i \in taken
    BY <1>1, <1>3, <2>1, <2>2 DEF Known
  <2>4. \A i \in Images : file'[i] # None => i \in taken
    BY <1>1, <1>3, <2>1 DEF Known
  <2>5. ASSUME NEW d \in Calls, ForJob(d) PROVE Image(d)' \in taken \cup {None} \/ ForJob(d)'
    <3>1. CASE call'[d] = Free
      BY <3>1, FreeIs DEF Image
    <3>2. CASE call'[d] # Free
      BY <1>3, <1>4, <2>5, <3>2, ServeForJob DEF Known
    <3> QED
      BY <3>1, <3>2
  <2> QED
    BY <1>2, <1>3, <1>4, <2>3, <2>4, <2>5 DEF Known
<1> QED
  BY <1>5, <1>6, <1>7, <1>8, <1>9 DEF Ownership

LEMMA ServeImages ==
    ASSUME MediaInv, NEW c \in Calls, Serve(c)
    PROVE  DeletionsSafe' /\ PostsName' /\ PostImagesStand' /\ Dated'
<1>1. /\ Stores(c) \/ Deletes(c)
      /\ \A d \in Calls \ {c} : call'[d] = call[d]
      /\ call'[c] = Free \/ Image(c)' = Image(c)
      /\ Deleting(c)' => Deleting(c)
      /\ Deletes(c) => Deleting(c)
      /\ \A i \in Images \ {Image(c)} : (i \in object' <=> i \in object) /\ file'[i] = file[i]
      /\ Stores(c) => object \subseteq object' /\ \A i \in Images : file[i] # None => file'[i] # None
  BY ServeIs
<1>2. UNCHANGED <<post, job, clock, offered, named, shared, since>>
  BY ServeIs DEF gateway, history
<1>3. TypeOK /\ DeletionsSafe /\ PostsName /\ PostImagesStand /\ Dated /\ offered \subseteq Images
  BY DEF MediaInv, TypeOK
<1>4. \A x : Doomed(x)' <=> Doomed(x)
  BY <1>2 DEF Doomed, Live, Rows
<1>5. \A d \in Calls : Deleting(d)' => Deleting(d) /\ Image(d)' = Image(d)
  BY <1>1, FreeIs DEF Deleting, Image
\* What stands and may be needed is not what is deleted.
<1>6. \A i \in offered : Stands(i) => Stands(i)' \/ Doomed(i)
  BY <1>1, <1>3 DEF Stands, DeletionsSafe
<1>7. DeletionsSafe'
  <2>1. \A d \in Calls : Deleting(d)' => Image(d)' \notin offered' \/ Doomed(Image(d))'
    BY <1>2, <1>3, <1>4, <1>5 DEF DeletionsSafe
  <2>2. \A x \in job'.images : Doomed(x[2])'
    BY <1>2, <1>3, <1>4 DEF DeletionsSafe
  <2>3. \A i \in offered' \ named' : Stands(i)'
    BY <1>2, <1>3, <1>6 DEF DeletionsSafe, Doomed
  <2> QED
    BY <2>1, <2>2, <2>3 DEF DeletionsSafe
<1>8. PostsName' /\ Dated'
  BY <1>2, <1>3 DEF PostsName, Dated, Rows
<1>9. PostImagesStand'
  <2> SUFFICES ASSUME NEW p \in Posts, Live(p), NEW i \in (post[p].images \cap offered) \ shared
               PROVE  i \in object' /\ file'[i] # None
    BY <1>2 DEF PostImagesStand, Live, Rows
  <2>1. i \in named /\ i \in offered /\ Stands(i)
    BY <1>3 DEF PostsName, PostImagesStand, Stands, Live, TypeOK
  <2>2. ~Doomed(i)
    BY DEF Doomed
  <2> QED
    BY <1>6, <2>1, <2>2 DEF Stands
<1> QED
  BY <1>7, <1>8, <1>9

LEMMA ServeUndangling ==
    ASSUME MediaInv, NEW c \in Calls, Serve(c)
    PROVE  Undangling'
<1>1. /\ happened \subseteq happened'
      /\ Stores(c) \/ Deletes(c)
      /\ ~Doing(c, "answered")
      /\ \A d \in Calls \ {c} : call'[d] = call[d]
      /\ call'[c].who = call[c].who
      /\ Stores(c) => Storing(c)
      /\ Storing(c) => ~Deleting(c)
      /\ \A i \in Images \ {Image(c)} : file'[i] = file[i]
      /\ Stores(c) => \A i \in Images : file[i] # None => file'[i] # None
  BY ServeIs
<1>2. UNCHANGED <<avatar, req, named>>
  BY ServeIs DEF gateway, history
<1>3. /\ CallersWait /\ AvatarsOwn /\ Undangling /\ Waited /\ TypeOK
      /\ None \notin Requests /\ Callers = Requests \cup {"cron"}
      /\ avatar \in [Users -> Images \cup {None}]
  BY FilesAssumption, MediaAssumption DEF MediaInv, Ownership, TypeOK
\* A call that deletes and is waited for goes on to succeed.
<1>4. Cutting(c) /\ call[c].who # None =>
          Cutting(c)' \/ (Doing(c, "answered")' /\ call'[c].ok)
  BY <1>1 DEF Stores, Deletes, Storing, Cutting, Deleting, Goes, Answers, Doing
<1>5. \A q \in Requests : WillClear(q) => WillClear(q)'
  <2> SUFFICES ASSUME NEW q \in Requests, WillClear(q) PROVE WillClear(q)'
    OBVIOUS
  <2>1. Unphoto(q)' /\ req'[q] = req[q]
    BY <1>2 DEF WillClear, Unphoto
  <2>2. CASE req[q].pc = "write"
    BY <2>1, <2>2 DEF WillClear
  <2>3. ASSUME NEW d \in Calls, call[d].who = q, Cutting(d) \/ (Doing(d, "answered") /\ call[d].ok)
        PROVE  WillClear(q)'
    <3>1. CASE d = c
      BY <1>1, <1>3, <1>4, <2>1, <2>3, <3>1 DEF WillClear
    <3>2. CASE d # c
      BY <1>1, <2>1, <2>3, <3>2 DEF WillClear, Cutting, Doing
    <3> QED
      BY <3>1, <3>2
  <2> QED
    BY <2>2, <2>3 DEF WillClear
<1>6. SUFFICES ASSUME NEW u \in Users, avatar[u] # None, file'[avatar[u]] = None, ~Spoiled',
                      avatar[u] \notin named
               PROVE  \E r \in Requests : WillClear(r) /\ req[r].image = avatar[u]
  BY <1>2, <1>5 DEF Undangling
<1>7. ~Spoiled
  BY <1>1, <1>6 DEF Spoiled
<1>8. CASE file[avatar[u]] = None
  BY <1>3, <1>6, <1>7, <1>8 DEF Undangling
<1>9. CASE file[avatar[u]] # None
  <2>1. avatar[u] \in Images /\ avatar[u] = Image(c) /\ ~Stores(c)
    BY <1>1, <1>3, <1>6, <1>9
  <2>2. Doing(c, "remove")
    BY <1>1, <1>6, <1>9, <2>1 DEF Deletes, Alone
  <2>3. call[c] # Free /\ Cutting(c) /\ Deleting(c)
    BY <2>2, FreeIs DEF Doing, Cutting, Deleting
  <2>4. call[c].who # None
    BY <1>3, <1>7, <2>3 DEF Waited, Spoiled
  <2>5. call[c].who \in Callers
    <3>1. call[c] \in InService
      BY <1>3, <2>3 DEF TypeOK, FilesTypeOK
    <3> QED
      BY <2>4, <3>1 DEF InService
  <2>6. call[c].who # "cron"
    BY <1>3, <1>6, <2>1 DEF CallersWait, Doomed
  <2>7. PICK r \in Requests : call[c].who = r
    BY <1>3, <2>5, <2>6
  <2>8. Unphoto(r) /\ req[r].image = avatar[u]
    BY <1>3, <2>1, <2>3, <2>7 DEF CallersWait
  <2> QED
    BY <2>3, <2>7, <2>8 DEF WillClear
<1> QED
  BY <1>8, <1>9

-----------------------------------------------------------------------------
(* Theorems *)

LEMMA StepKeeps ==
    ASSUME MediaInv, [Next]_vars
    PROVE  MediaInv'
<1>1. ASSUME NEW c \in Calls, Serve(c) PROVE MediaInv'
  <2>1. TypeOK'
    BY <1>1, ServeIs
  <2> QED
    BY <1>1, <2>1, ServeCalls, ServeOwnership, ServeImages, ServeUndangling DEF MediaInv
<1>2. CASE ServiceCrash /\ UNCHANGED gateway
  BY <1>2, ServiceCrashKeeps
<1>3. ASSUME NEW r \in Requests, Arrive(r) PROVE MediaInv'
  BY <1>3, UploadKeeps, DeletePhotoKeeps, FindPostKeeps DEF Arrive
<1>4. ASSUME NEW r \in Requests, Hear(r) PROVE MediaInv'
  BY <1>4, UploadedKeeps, PhotoDeletedKeeps DEF Hear
<1>5. ASSUME NEW r \in Requests, Write(r) PROVE MediaInv'
  BY <1>5, SetAvatarKeeps, ClearAvatarKeeps, EditPostKeeps, DeletePostKeeps DEF Write
<1>6. ASSUME NEW u \in Users, NEW images \in SUBSET Images, CreatePost(u, images) PROVE MediaInv'
  BY <1>6, CreatePostKeeps
<1>7. CASE Cleanup
  BY <1>7, CleanupStartKeeps, CleanupImageKeeps, CleanupHearsKeeps, CleanupPostKeeps DEF Cleanup
<1>8. CASE GatewayStop
  BY <1>8, GatewayStopKeeps
<1>9. CASE Tick
  BY <1>9, TickKeeps
<1>10. CASE UNCHANGED vars
  BY <1>10, StutterKeeps
<1> QED
  BY <1>1, <1>2, <1>3, <1>4, <1>5, <1>6, <1>7, <1>8, <1>9, <1>10 DEF Next

\* What calls, requests, avatars, posts and the two stores know of one another
\* holds in every state.
THEOREM MediaInvariant == Spec => []MediaInv
<1>1. MediaInv /\ [Next]_vars => MediaInv'
  BY StepKeeps
<1> QED
  BY InitMediaInv, <1>1, PTL DEF Spec

\* Every variable of Media and of Files keeps its type, for any number of users,
\* images, posts, requests, calls and faults.
THEOREM TypeCorrect == Spec => []TypeOK
<1>1. MediaInv => TypeOK
  BY DEF MediaInv
<1> QED
  BY <1>1, MediaInvariant, PTL

\* An object in S3 and its row in Mongo exist together, except while a call is
\* between the two or after S3, Mongo or the service failed: a bad status alone
\* is made up for, since the object is asked for again after the row is gone.
THEOREM RowsHaveObjects == Spec => []ObjectsMatchRows
<1>1. MediaInv => ObjectsMatchRows
  BY DEF MediaInv
<1> QED
  BY <1>1, MediaInvariant, PTL

\* The images of a live post that it does not share have their object and their
\* row, whatever fails, times out or stops, and whatever the job cleans up.
THEOREM ImagesOfPostsStand == Spec => []PostImagesStand
<1>1. MediaInv => PostImagesStand
  BY DEF MediaInv
<1> QED
  BY <1>1, MediaInvariant, PTL

\* An avatar stays without a file only after a timeout, a crash, a failed write
\* or a stop of the gateway.
THEOREM DanglingNeedsFault == Spec => []DanglingAvatarNeedsFault
<1>1. MediaInv => DanglingAvatarNeedsFault
  BY DEF MediaInv, Undangling, WillClear, Unphoto, Spoiled, DanglingAvatarNeedsFault
<1> QED
  BY <1>1, MediaInvariant, PTL

\* Only the writes of requests about avatars change one.
LEMMA AvatarSteps ==
    ASSUME [Next]_vars
    PROVE  avatar' = avatar \/ \E r \in Requests : SetAvatar(r) \/ ClearAvatar(r)
<1>1. ASSUME NEW c \in Calls, Serve(c) PROVE avatar' = avatar
  BY <1>1 DEF Serve, gateway
<1>2. CASE ServiceCrash /\ UNCHANGED gateway
  BY <1>2 DEF gateway
<1>3. ASSUME NEW r \in Requests, Arrive(r) PROVE avatar' = avatar
  BY <1>3 DEF Arrive, Upload, DeletePhoto, FindPost
<1>4. ASSUME NEW r \in Requests, Hear(r) PROVE avatar' = avatar
  BY <1>4 DEF Hear, Uploaded, PhotoDeleted
<1>5. ASSUME NEW r \in Requests, Write(r)
      PROVE  avatar' = avatar \/ SetAvatar(r) \/ ClearAvatar(r)
  BY <1>5 DEF Write, EditPost, DeletePost
<1>6. ASSUME NEW u \in Users, NEW images \in SUBSET Images, CreatePost(u, images)
      PROVE  avatar' = avatar
  BY <1>6 DEF CreatePost
<1>7. CASE Cleanup
  BY <1>7 DEF Cleanup, CleanupStart, CleanupImage, CleanupHears, CleanupPost
<1>8. CASE GatewayStop \/ Tick
  BY <1>8 DEF GatewayStop, Tick
<1>9. CASE UNCHANGED vars
  BY <1>9 DEF vars, gateway
<1> QED
  BY <1>1, <1>2, <1>3, <1>4, <1>5, <1>6, <1>7, <1>8, <1>9 DEF Next

\* An avatar is cleared only by a request of its user that saw it, or that was
\* overtaken by an upload: nobody else's request clears it.
THEOREM ClearedAsSeen == Spec => ClearTakesWhatItSaw
<1>1. ASSUME MediaInv, [Next]_vars
      PROVE  \A u \in Users : avatar[u] # None /\ avatar'[u] = None =>
                 \E r \in Requests : /\ Asked(r, "unphoto", "write") /\ req[r].user = u
                                    /\ (req[r].image = avatar[u] \/ req[r].stale)
  <2> SUFFICES ASSUME NEW u \in Users, avatar[u] # None, avatar'[u] = None
               PROVE  \E r \in Requests : /\ Asked(r, "unphoto", "write") /\ req[r].user = u
                                         /\ (req[r].image = avatar[u] \/ req[r].stale)
    OBVIOUS
  <2>1. PICK r \in Requests : SetAvatar(r) \/ ClearAvatar(r)
    BY <1>1, AvatarSteps
  <2>2. TypeOK /\ Ownership
    BY <1>1 DEF MediaInv
  <2>3. CASE SetAvatar(r)
    <3>1. Uploading(r) /\ (avatar' = avatar \/ avatar' = [avatar EXCEPT ![req[r].user] = req[r].image])
      BY <2>2, <2>3, SetAvatarSettles
    <3>2. req[r].image # None
      BY <2>2, <3>1, FilesAssumption DEF Ownership, UploadsOwn
    <3> QED
      BY <2>2, <3>1, <3>2 DEF TypeOK
  <2>4. CASE ClearAvatar(r)
    <3>1. Unphoto(r) /\ (avatar' = avatar \/ avatar' = [avatar EXCEPT ![req[r].user] = None])
      BY <2>2, <2>4, ClearAvatarSettles
    <3>2. req[r].user = u
      BY <2>2, <3>1 DEF TypeOK
    <3>3. Asked(r, "unphoto", "write")
      BY <2>4 DEF ClearAvatar
    <3> QED
      BY <2>2, <3>1, <3>2, <3>3 DEF Ownership, UnphotosOwn
  <2> QED
    BY <2>1, <2>3, <2>4
<1> QED
  BY <1>1, MediaInvariant, PTL DEF Spec, ClearTakesWhatItSaw

\* No step but the job's takes a post for good.
LEMMA GoneSteps ==
    ASSUME TypeOK, Ownership, [Next]_vars, NEW p \in Posts, p \in Rows, post'[p] = Gone
    PROVE  CleanupPost(p)
<1>1. post[p] # Gone /\ post[p] \in PostRows
  BY DEF Rows, TypeOK
<1>2. ASSUME NEW row \in PostRows PROVE row # Gone
  BY DEF PostRows, Gone
<1>3. ASSUME NEW c \in Calls, Serve(c) PROVE FALSE
  BY <1>1, <1>3 DEF Serve, gateway
<1>4. CASE ServiceCrash /\ UNCHANGED gateway
  BY <1>1, <1>4 DEF gateway
<1>5. ASSUME NEW r \in Requests, Arrive(r) PROVE FALSE
  BY <1>1, <1>5 DEF Arrive, Upload, DeletePhoto, FindPost
<1>6. ASSUME NEW r \in Requests, Hear(r) PROVE FALSE
  BY <1>1, <1>6 DEF Hear, Uploaded, PhotoDeleted
<1>7. ASSUME NEW r \in Requests, Write(r) PROVE FALSE
  <2>1. CASE SetAvatar(r) \/ ClearAvatar(r)
    BY <1>1, <2>1 DEF SetAvatar, ClearAvatar
  <2>2. CASE EditPost(r)
    <3>1. post'[p] = [post[p] EXCEPT !.edited = TRUE]
      BY <1>1, <2>2, EditPostSettles
    <3>2. [post[p] EXCEPT !.edited = TRUE] \in PostRows
      BY <1>1 DEF PostRows
    <3> QED
      BY <1>2, <3>1, <3>2
  <2>3. CASE DeletePost(r)
    <3>1. post'[p] = [post[p] EXCEPT !.deletedAt = clock]
      BY <1>1, <2>3, DeletePostSettles
    <3>2. clock \in Nat
      BY MediaAssumption DEF TypeOK
    <3>3. [post[p] EXCEPT !.deletedAt = clock] \in PostRows
      BY <1>1, <3>2 DEF PostRows
    <3> QED
      BY <1>2, <3>1, <3>3
  <2> QED
    BY <1>7, <2>1, <2>2, <2>3 DEF Write
<1>8. ASSUME NEW u \in Users, NEW images \in SUBSET Images, CreatePost(u, images) PROVE FALSE
  <2>1. PICK x \in Posts :
          /\ post[x] = Unborn
          /\ \A y \in Posts \ {x} : post'[y] = post[y]
    BY <1>8, CreatePostSettles
  <2>2. p # x
    BY <2>1 DEF Rows
  <2> QED
    BY <1>1, <2>1, <2>2
<1>9. CASE Cleanup
  <2>1. CASE CleanupStart \/ CleanupHears \/ \E c \in Calls : CleanupImage(c)
    BY <1>1, <2>1 DEF CleanupStart, CleanupImage, CleanupHears
  <2>2. ASSUME NEW x \in Posts, CleanupPost(x) PROVE CleanupPost(p)
    <3>1. \A y \in Posts \ {x} : post'[y] = post[y]
      BY <2>2, CleanupPostSettles
    <3> QED
      BY <1>1, <2>2, <3>1
  <2> QED
    BY <1>9, <2>1, <2>2 DEF Cleanup
<1>10. CASE GatewayStop \/ Tick
  BY <1>1, <1>10 DEF GatewayStop, Tick
<1>11. CASE UNCHANGED vars
  BY <1>1, <1>11 DEF vars, gateway
<1> QED
  BY <1>3, <1>4, <1>5, <1>6, <1>7, <1>8, <1>9, <1>10, <1>11 DEF Next

\* A post goes for good only more than Keep days after the first deletion of it,
\* also when a later deletion dated it anew while the job was at work.
THEOREM OnlyOldOnesGo == Spec => GoneAreOld
<1>1. ASSUME MediaInv, [Next]_vars
      PROVE  \A p \in Posts : p \in Rows /\ post'[p] = Gone =>
                 since[p] # None /\ since[p] + Keep < clock
  <2> SUFFICES ASSUME NEW p \in Posts, p \in Rows, post'[p] = Gone
               PROVE  since[p] # None /\ since[p] + Keep < clock
    OBVIOUS
  <2>1. CleanupPost(p)
    BY <1>1, GoneSteps DEF MediaInv
  <2>2. p \in job.posts
    BY <2>1 DEF CleanupPost
  <2> QED
    BY <1>1, <2>2 DEF MediaInv, Dated
<1> QED
  BY <1>1, MediaInvariant, PTL DEF Spec, GoneAreOld

=============================================================================
