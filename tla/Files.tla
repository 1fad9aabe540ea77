------------------------------- MODULE Files -------------------------------
(***************************************************************************)
(* The files service: an object in S3 and a row in Mongo for each file,    *)
(* stored and deleted by calls from the gateway (UploadFileUseCase,        *)
(* DeleteUserPhotoUseCases, S3Adapter, FileRepository).  A call runs until *)
(* its next await on S3 or Mongo; each such stretch is one action.  The    *)
(* gateway may have stopped waiting for it.                                *)
(***************************************************************************)
EXTENDS Naturals, FiniteSets

CONSTANTS
    Users,
    Images,     \* files: the S3 key, the Mongo id and the id the gateway keeps
    Calls,      \* calls the service can have in flight
    Callers,    \* who may wait for one at the gateway
    FaultKinds, \* the faults that happen, each once ...
    MaxFaults,  \* ... and how many of them
    None        \* null or undefined

Faults == {"s3", "status", "mongo", "crash", "timeout", "db", "stop"}

ASSUME FilesAssumption ==
    /\ FaultKinds \subseteq Faults
    /\ MaxFaults \in Nat
    /\ None \notin Users \cup Images \cup Calls \cup Callers

VARIABLES
    object,   \* files with an object in S3
    file,     \* the Mongo row of each file
    call,     \* calls in flight
    happened  \* faults that happened

files == <<object, file, call>>

-----------------------------------------------------------------------------
(* Values *)

FileTypes == {"avatar", "post_image"}
FileRows  == [owner : Users, type : FileTypes]

ASSUME NoneAssumption == None \notin FileRows

\* What a call waits for, and its answer.
CallSteps == {"put", "create", "find", "unput", "remove", "again", "answered"}

InService == [pc : CallSteps, who : Callers \cup {None}, image : Images \cup {None},
              row : FileRows \cup {None}, ok : BOOLEAN, deleted : BOOLEAN]

Free == [pc |-> "free", who |-> None, image |-> None, row |-> None,
         ok |-> FALSE, deleted |-> FALSE]

Fault(f) ==
    /\ f \in FaultKinds \ happened
    /\ Cardinality(happened) < MaxFaults
    /\ happened' = happened \cup {f}

NoFault == UNCHANGED happened

Doing(c, pc) == call[c].pc = pc
Image(c)     == call[c].image
Then(c, pc)  == call' = [call EXCEPT ![c].pc = pc]

\* Mutant: the answer waits for ever for who gave up.
AnsweredToNobody(c, ok) == [call[c] EXCEPT !.pc = "answered", !.ok = ok]

\* The service answers; an answer nobody waits for is dropped.
Answered(c, ok) ==
    IF call[c].who = None THEN Free ELSE [call[c] EXCEPT !.pc = "answered", !.ok = ok]

Answer(c, ok) == call' = [call EXCEPT ![c] = Answered(c, ok)]

\* A call to store or to delete a file begins, in a free place.
Place(c) == call[c] = Free /\ c = CHOOSE d \in Calls : call[d] = Free

AskToStore(c, who, i, row) ==
    /\ Place(c)
    /\ call' = [call EXCEPT ![c] = [Free EXCEPT !.pc = "put", !.who = who, !.image = i,
                                                !.row = row]]

AskToDelete(c, who, i) ==
    /\ Place(c)
    /\ call' = [call EXCEPT ![c] = [Free EXCEPT !.pc = "find", !.who = who, !.image = i]]

FilesInit ==
    /\ object = {}
    /\ file = [i \in Images |-> None]
    /\ call = [c \in Calls |-> Free]
    /\ happened = {}

-----------------------------------------------------------------------------
(* Storing a file *)

\* saveUserPhoto; its error is thrown on, and is the answer.
Put(c) ==
    /\ Doing(c, "put")
    /\ \/ object' = object \cup {Image(c)} /\ Then(c, "create") /\ NoFault
       \/ Fault("s3") /\ Answer(c, FALSE) /\ UNCHANGED object
    /\ UNCHANGED file

\* Mutant: the error of save() is swallowed.
NotCreatedQuietly(c) == Answer(c, TRUE)

NotCreated(c) == Answer(c, FALSE)

\* createFile; when it throws the object stays.
CreateFile(c) ==
    /\ Doing(c, "create")
    /\ \/ file' = [file EXCEPT ![Image(c)] = call[c].row] /\ Answer(c, TRUE) /\ NoFault
       \/ Fault("mongo") /\ NotCreated(c) /\ UNCHANGED file
    /\ UNCHANGED object

-----------------------------------------------------------------------------
(* Deleting a file *)

\* findFileById, outside of the try: its error is the answer.  A null id is a
\* random ObjectId, of no file; no file is no error at the gateway.
FindFile(c) ==
    /\ Doing(c, "find")
    /\ \/ /\ IF Image(c) # None /\ file[Image(c)] # None THEN Then(c, "unput")
                                                         ELSE Answer(c, TRUE)
          /\ NoFault
       \/ Fault("mongo") /\ Answer(c, FALSE)
    /\ UNCHANGED <<object, file>>

\* deleteUserPhoto: it deletes, has another status than 204, or throws, which
\* skips the rest and is answered with success.
Unput(c) ==
    /\ Doing(c, "unput")
    /\ \/ /\ object' = object \ {Image(c)}
          /\ call' = [call EXCEPT ![c].pc = "remove", ![c].deleted = TRUE]
          /\ NoFault
       \/ Fault("status") /\ Then(c, "remove") /\ UNCHANGED object
       \/ Fault("s3") /\ Answer(c, TRUE) /\ UNCHANGED object
    /\ UNCHANGED file

\* Mutant: the object is not deleted again.
AfterRemoveDone(c) == Answer(c, TRUE)

\* S3 is asked again after a status other than 204.
AfterRemove(c) == IF call[c].deleted THEN Answer(c, TRUE) ELSE Then(c, "again")

\* deleteFile of the row; trying again when there was none changes nothing.
RemoveFile(c) ==
    /\ Doing(c, "remove")
    /\ \/ file' = [file EXCEPT ![Image(c)] = None] /\ AfterRemove(c) /\ NoFault
       \/ Fault("mongo") /\ Answer(c, TRUE) /\ UNCHANGED file
    /\ UNCHANGED object

\* The second deleteUserPhoto, whatever comes of it.
UnputAgain(c) ==
    /\ Doing(c, "again")
    /\ \/ object' = object \ {Image(c)} /\ NoFault
       \/ (Fault("s3") \/ Fault("status")) /\ UNCHANGED object
    /\ Answer(c, TRUE)
    /\ UNCHANGED file

-----------------------------------------------------------------------------
Serving(c) ==
    \/ Put(c)
    \/ CreateFile(c)
    \/ FindFile(c)
    \/ Unput(c)
    \/ RemoveFile(c)
    \/ UnputAgain(c)

\* The service stops and starts again; who waits will time out.
ServiceCrash ==
    /\ Fault("crash")
    /\ call' = [c \in Calls |-> IF Doing(c, "answered") THEN call[c] ELSE Free]
    /\ UNCHANGED <<object, file>>

-----------------------------------------------------------------------------
(* Properties *)

FilesTypeOK ==
    /\ object \subseteq Images
    /\ file \in [Images -> FileRows \cup {None}]
    /\ call \in [Calls -> InService \cup {Free}]
    /\ \A c \in Calls : Doing(c, "answered") => call[c].who \in Callers
    /\ happened \subseteq Faults

\* Faults after which an object and its row may be apart for good.
Cuts == {"s3", "mongo", "crash"}

\* An object and its row exist together, except between the two steps of a
\* call, or where a step failed or was cut off.  (A bad status alone is made up
\* for by the second attempt.)
ObjectsMatchRows ==
    \A i \in Images : (i \in object <=> file[i] # None)
        \/ happened \cap Cuts # {}
        \/ \E c \in Calls : Image(c) = i /\ call[c].pc \in {"create", "remove", "again"}

=============================================================================
