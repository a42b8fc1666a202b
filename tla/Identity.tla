------------------------------ MODULE Identity ------------------------------
(***************************************************************************)
(* IdentityService: submitKyc, whose four layers run inside one database   *)
(* transaction, and deleteUserData.  The faces are kept by CompreFace,     *)
(* which no transaction of PostgreSQL covers, and the KYC token by the     *)
(* BlockTicSBT contract.                                                   *)
(*                                                                         *)
(* A Document is an image of an identity document (hashDocument hashes its *)
(* bytes), a Face what CompreFace recognises in a selfie.  A submission    *)
(* without consent, or with a userId that names nobody, ends at once.      *)
(***************************************************************************)
EXTENDS Naturals

CONSTANTS
    Persons,        \* ids of persons
    Documents, Faces, Users,
    Submissions,    \* calls of submitKyc, each made once
    Erasures,       \* calls of deleteUserData, each made once
    BadRequests     \* does CompreFace answer 400 to a search of faces it has?

ASSUME BadRequestsAssumption == BadRequests \in BOOLEAN

VARIABLES
    persons,     \* persons[p]: the row of person p, as last committed
    users,       \* users[u]: User.personId
    faces,       \* CompreFace: pairs of a subject and a face
    kycTokens,   \* persons whose wallet has been given the KYC token
    sub,         \* sub[s]: position and locals of a submission
    erasure,     \* erasure[e]: position and person of an erasure
    missed,      \* history: faces that a search did not find although CompreFace
                 \*   had them or was about to be given them
    erasing,     \* history: persons whose faces CompreFace was asked to delete
    approvedAs,  \* history: the face with which p was approved last
    contended,   \* history: persons on whom two calls were at work at once
    strays       \* history: persons a face of whom a failed submission left
                 \*   without a row naming it, or whose deletion was refused

stores == <<persons, users, faces, kycTokens>>
history == <<missed, erasing, approvedAs, contended, strays>>
identityVars == <<stores, sub, erasure, history>>

KycStatus == {"PENDING", "ID_VERIFIED", "LIVENESS_PASSED", "FACE_MATCHED",
              "APPROVED", "REJECTED"}

(* face stands for faceEmbeddingRef, which is the person's own id once it  *)
(* is set; sbt for aaWalletAddress and kycAttestationTxHash, which are     *)
(* saved together.                                                         *)
PersonRow == [status : KycStatus, hash : Documents \cup {"null"},
              face : {"null", "subject"}, sbt : {"null", "token"}]

NewRow == [status |-> "PENDING", hash |-> "null", face |-> "null", sbt |-> "null"]
NoRow  == [NewRow EXCEPT !.status = "ABSENT"]

Ended == {"approved", "rejected", "failed"}
Active == {"document", "liveness", "compare", "recognize", "add",
           "select", "update", "wallet", "mint", "commit"}

(* written is what the transaction has put into the person's row and not   *)
(* committed, NoRow if nothing; cols the columns save() found to differ;   *)
(* saved tells the second save() of an approval from the first.            *)
Submission == [pc : Active \cup Ended \cup {"idle"}, person : Persons \cup {"none"},
               document : Documents \cup {"null"}, face : Faces \cup {"null"},
               user : Users \cup {"none"}, entity : PersonRow \cup {NoRow},
               cols : SUBSET {"id", "status", "hash", "face", "sbt"},
               written : PersonRow \cup {NoRow}, saved : BOOLEAN]

IdleSubmission == [pc |-> "idle", person |-> "none", document |-> "null",
                   face |-> "null", user |-> "none", entity |-> NoRow,
                   cols |-> {}, written |-> NoRow, saved |-> FALSE]

IdentityInit ==
    /\ persons = [p \in Persons |-> NoRow]
    /\ users = [u \in Users |-> "none"]
    /\ faces = {}
    /\ kycTokens = {}
    /\ sub = [s \in Submissions |-> IdleSubmission]
    /\ erasure = [e \in Erasures |-> [pc |-> "idle", person |-> "none"]]
    /\ missed = {}
    /\ erasing = {}
    /\ approvedAs = [p \in Persons |-> "null"]
    /\ contended = {}
    /\ strays = {}

-----------------------------------------------------------------------------
(* A transaction at work: what it reads of its own row, and the row and    *)
(* key locks of the others.                                                *)

Open(s) == sub[s].pc \in Active /\ sub[s].written # NoRow

Seen(s) == IF Open(s) THEN sub[s].written ELSE persons[sub[s].person]

RowFree(p, s) == \A o \in Submissions \ {s} : Open(o) => sub[o].person # p

(* A unique index makes an insert wait for the transactions that are about *)
(* to add or to remove the same key, and fail if the key stays.            *)
NoUniqueIndex(h, s) == TRUE
KeyFree(h, s) ==
    \A o \in Submissions \ {s} :
        Open(o) => sub[o].written.hash # h /\ persons[sub[o].person].hash # h

HashTaken(h, p) == \E q \in Persons \ {p} : persons[q].hash = h

Differing(entity, row) == {c \in DOMAIN row : entity[c] # row[c]}

Moved(s, pc, entity) == [sub EXCEPT ![s].pc = pc, ![s].entity = entity]

Rejected(s) == Moved(s, "select", [sub[s].entity EXCEPT !.status = "REJECTED"])

-----------------------------------------------------------------------------
Fresh == {p \in Persons : persons[p] = NoRow /\ \A s \in Submissions : sub[s].person # p}

(* The persons that some call is at work on.                               *)
Busy == {sub[s].person : s \in {o \in Submissions : sub[o].pc \in Active}}
        \cup {erasure[e].person : e \in {x \in Erasures : erasure[x].pc \in {"erase", "remove"}}}

Begun(p, d, f, u, entity, written) ==
    [IdleSubmission EXCEPT !.pc = "document", !.person = p, !.document = d, !.face = f,
                           !.user = u, !.entity = entity, !.written = written]

(* submitKyc up to the try: the person is inserted, or read by dto.userId. *)
SubmitKycUnchecked(s, p, d, f, u) ==
    /\ sub[s].pc = "idle"
    /\ sub' = [sub EXCEPT ![s] = Begun(p, d, f, u, persons[p], NoRow)]
    /\ UNCHANGED <<stores, erasure, history>>

SubmitKyc(s, p, d, f, u) ==
    /\ sub[s].pc = "idle"
    /\ \/ /\ p \in Fresh
          /\ sub' = [sub EXCEPT ![s] = Begun(p, d, f, u, NewRow, NewRow)]
       \/ /\ persons[p] # NoRow
          /\ sub' = [sub EXCEPT ![s] = Begun(p, d, f, u, persons[p], NoRow)]
       \/ /\ persons[p] = NoRow
          /\ sub' = [sub EXCEPT ![s].pc = "failed"]
    /\ contended' = contended \cup ({p} \cap Busy)
    /\ UNCHANGED <<stores, erasure, missed, erasing, approvedAs, strays>>

(* Layer 1: is the hash of the document another person's?                  *)
CheckDocument(s) ==
    /\ sub[s].pc = "document"
    /\ sub' = IF HashTaken(sub[s].document, sub[s].person)
              THEN Rejected(s)
              ELSE Moved(s, "liveness", [sub[s].entity EXCEPT !.hash = sub[s].document,
                                                              !.status = "ID_VERIFIED"])
    /\ UNCHANGED <<stores, erasure, history>>

(* Layer 2: Rekognition's verdict, or none where it is not configured.     *)
DetectLiveness(s) ==
    /\ sub[s].pc = "liveness"
    /\ sub' \in {Rejected(s),
                 Moved(s, "compare", [sub[s].entity EXCEPT !.status = "LIVENESS_PASSED"])}
    /\ UNCHANGED <<stores, erasure, history>>

(* Layer 3: CompreFace compares the document's photo with the selfie.      *)
CompareFaces(s) ==
    /\ sub[s].pc = "compare"
    /\ sub' \in {Rejected(s),
                 Moved(s, "recognize", [sub[s].entity EXCEPT !.status = "FACE_MATCHED"])}
    /\ UNCHANGED <<stores, erasure, history>>

(* Layer 4, first call: does CompreFace know the face under any subject?   *)
(* 400, the answer of an empty collection, is taken for a no whatever its  *)
(* cause.                                                                  *)
KnownFace(f) == \E p \in Persons : <<p, f>> \in faces

SearchedBeside(s) ==
    \E o \in Submissions \ {s} : sub[o].pc = "add" /\ sub[o].face = sub[s].face

RecognizeIgnoringErrors(s) ==
    /\ sub[s].pc = "recognize"
    /\ sub' = [sub EXCEPT ![s].pc = "add"]
    /\ missed' = IF SearchedBeside(s) THEN missed \cup {sub[s].face} ELSE missed
    /\ UNCHANGED <<stores, erasure, erasing, approvedAs, contended, strays>>

Recognize(s) ==
    /\ sub[s].pc = "recognize"
    /\ \/ /\ KnownFace(sub[s].face)
          /\ sub' = Rejected(s)
          /\ UNCHANGED missed
       \/ /\ KnownFace(sub[s].face) => BadRequests
          /\ sub' = [sub EXCEPT ![s].pc = "add"]
          /\ missed' = IF KnownFace(sub[s].face) \/ SearchedBeside(s)
                       THEN missed \cup {sub[s].face} ELSE missed
    /\ UNCHANGED <<stores, erasure, erasing, approvedAs, contended, strays>>

(* Layer 4, second call: the face is registered under the person's id.  An *)
(* answer that does not come is a Rollback after this step.                *)
AddFaceUnrecorded(s) ==
    /\ sub[s].pc = "add"
    /\ faces' = faces \cup {<<sub[s].person, sub[s].face>>}
    /\ sub' = Moved(s, "select", [sub[s].entity EXCEPT !.status = "APPROVED"])
    /\ UNCHANGED <<persons, users, kycTokens, erasure, history>>

AddFaceUnconfirmed(s) ==
    /\ sub[s].pc = "add"
    /\ faces' \in {faces, faces \cup {<<sub[s].person, sub[s].face>>}}
    /\ sub' = Moved(s, "select", [sub[s].entity EXCEPT !.face = "subject",
                                                       !.status = "APPROVED"])
    /\ UNCHANGED <<persons, users, kycTokens, erasure, history>>

AddFace(s) ==
    /\ sub[s].pc = "add"
    /\ faces' = faces \cup {<<sub[s].person, sub[s].face>>}
    /\ sub' = Moved(s, "select", [sub[s].entity EXCEPT !.face = "subject",
                                                       !.status = "APPROVED"])
    /\ UNCHANGED <<persons, users, kycTokens, erasure, history>>

(* Has this submission registered its face?  After layer 1 nothing but the *)
(* registration makes the entity APPROVED.                                 *)
HasAdded(s) == sub[s].pc # "document" /\ sub[s].entity.status = "APPROVED"

(* The submission ends without a trace in the database; what it told       *)
(* CompreFace stays there, and no row may tell of it.                      *)
Fails(s) ==
    /\ sub' = [sub EXCEPT ![s].pc = "failed"]
    /\ strays' = IF HasAdded(s) /\ persons[sub[s].person].face # "subject"
                 THEN strays \cup {sub[s].person} ELSE strays

(* personRepo.save(person): its SELECT.                                    *)
SaveSelect(s) ==
    /\ sub[s].pc = "select"
    /\ sub' = [sub EXCEPT ![s].pc = "update",
                          ![s].cols = IF Seen(s) = NoRow THEN DOMAIN NewRow \cup {"id"}
                                      ELSE Differing(sub[s].entity, Seen(s))]
    /\ UNCHANGED <<stores, erasure, history>>

(* Its UPDATE of the differing columns, or INSERT when the SELECT found    *)
(* nothing.  An UPDATE of a row that is gone by now changes nothing.  A    *)
(* key that is taken aborts the transaction, and with it the submission.   *)
SaveUpdate(s) ==
    LET cols == sub[s].cols
        entity == sub[s].entity
        setsKey == "hash" \in cols /\ entity.hash # "null"
        conflict == \/ setsKey /\ HashTaken(entity.hash, sub[s].person)
                    \/ "id" \in cols /\ Seen(s) # NoRow
    IN
    /\ sub[s].pc = "update"
    /\ RowFree(sub[s].person, s)
    /\ setsKey => KeyFree(entity.hash, s)
    /\ \/ conflict /\ Fails(s)
       \/ /\ ~conflict
          /\ sub' = [sub EXCEPT
                ![s].written = IF Seen(s) = NoRow /\ "id" \notin cols THEN NoRow
                               ELSE [c \in DOMAIN NewRow |->
                                        IF c \in cols THEN entity[c] ELSE Seen(s)[c]],
                ![s].pc = IF entity.status = "APPROVED" /\ ~sub[s].saved
                          THEN "wallet" ELSE "commit",
                ![s].saved = TRUE]
          /\ UNCHANGED strays
    /\ UNCHANGED <<stores, erasure, missed, erasing, approvedAs, contended>>

(* A failure on the chain is only logged: the approval goes on without.    *)
Unattested(s) == [sub EXCEPT ![s].pc = "commit"]

(* createAAWallet: the factory tells the address, or cannot be asked.      *)
CreateAAWallet(s) ==
    /\ sub[s].pc = "wallet"
    /\ sub' \in {[sub EXCEPT ![s].pc = "mint"], Unattested(s)}
    /\ UNCHANGED <<stores, erasure, history>>

(* sendContractTx: mined and reported, mined without a receipt reaching    *)
(* the backend, or never mined.                                            *)
TxOutcomes == {[mined |-> TRUE, receipt |-> TRUE], [mined |-> TRUE, receipt |-> FALSE],
               [mined |-> FALSE, receipt |-> FALSE]}

(* mintKycSbt; with its hash the person is saved a second time.            *)
MintKycSbt(s) ==
    /\ sub[s].pc = "mint"
    /\ \E tx \in TxOutcomes :
          /\ kycTokens' = IF tx.mined THEN kycTokens \cup {sub[s].person} ELSE kycTokens
          /\ sub' = IF tx.receipt
                    THEN Moved(s, "select", [sub[s].entity EXCEPT !.sbt = "token"])
                    ELSE Unattested(s)
    /\ UNCHANGED <<persons, users, faces, erasure, history>>

(* userRepo.update after an approval, COMMIT.                              *)
Commit(s) ==
    LET p == sub[s].person
        approved == sub[s].entity.status = "APPROVED"
    IN
    /\ sub[s].pc = "commit"
    /\ persons' = IF Open(s) THEN [persons EXCEPT ![p] = sub[s].written] ELSE persons
    /\ users' = IF approved THEN [users EXCEPT ![sub[s].user] = p] ELSE users
    /\ approvedAs' = IF approved THEN [approvedAs EXCEPT ![p] = sub[s].face] ELSE approvedAs
    /\ sub' = [sub EXCEPT ![s].pc = IF approved THEN "approved" ELSE "rejected"]
    /\ UNCHANGED <<faces, kycTokens, erasure, missed, erasing, contended, strays>>

(* An exception, thrown again after the catch has saved REJECTED in the    *)
(* same transaction, or the loss of the process: ROLLBACK.                 *)
Rollback(s) ==
    /\ sub[s].pc \in Active
    /\ Fails(s)
    /\ UNCHANGED <<stores, erasure, missed, erasing, approvedAs, contended>>

-----------------------------------------------------------------------------
(* deleteUserData: findOne.                                                *)
DeleteUserData(e, p) ==
    /\ erasure[e].pc = "idle"
    /\ erasure' = [erasure EXCEPT ![e] =
                      [pc |-> IF persons[p] = NoRow THEN "failed"
                              ELSE IF persons[p].face = "subject" THEN "erase" ELSE "remove",
                       person |-> p]]
    /\ contended' = contended \cup ({p} \cap Busy)
    /\ UNCHANGED <<stores, sub, missed, erasing, approvedAs, strays>>

(* CompreFace deletes the subject, or answers an error that is only logged. *)
DeleteFaceFromCompreFace(e) ==
    /\ erasure[e].pc = "erase"
    /\ LET p == erasure[e].person IN
       /\ \/ faces' = {x \in faces : x[1] # p} /\ UNCHANGED strays
          \/ strays' = strays \cup {p} /\ UNCHANGED faces
       /\ erasing' = erasing \cup {p}
    /\ erasure' = [erasure EXCEPT ![e].pc = "remove"]
    /\ UNCHANGED <<persons, users, kycTokens, sub, missed, approvedAs, contended>>

(* personRepo.remove(person): a DELETE by id.                              *)
RemovePerson(e) ==
    /\ erasure[e].pc = "remove"
    /\ RowFree(erasure[e].person, "none")
    /\ persons' = [persons EXCEPT ![erasure[e].person] = NoRow]
    /\ erasure' = [erasure EXCEPT ![e].pc = "deleted"]
    /\ UNCHANGED <<users, faces, kycTokens, sub, history>>

(* A timeout of the call to CompreFace, which may have acted, or the loss  *)
(* of the process.                                                         *)
ErasureDies(e) ==
    /\ erasure[e].pc \in {"erase", "remove"}
    /\ erasure' = [erasure EXCEPT ![e].pc = "failed"]
    /\ UNCHANGED <<stores, sub, history>>

IdentityNext ==
    \/ \E s \in Submissions, p \in Persons, d \in Documents, f \in Faces, u \in Users :
          SubmitKyc(s, p, d, f, u)
    \/ \E s \in Submissions :
          \/ CheckDocument(s) \/ DetectLiveness(s) \/ CompareFaces(s)
          \/ Recognize(s) \/ AddFace(s)
          \/ SaveSelect(s) \/ SaveUpdate(s)
          \/ CreateAAWallet(s) \/ MintKycSbt(s) \/ Commit(s) \/ Rollback(s)
    \/ \E e \in Erasures, p \in Persons : DeleteUserData(e, p)
    \/ \E e \in Erasures :
          DeleteFaceFromCompreFace(e) \/ RemovePerson(e) \/ ErasureDies(e)

IdentitySpec == IdentityInit /\ [][IdentityNext]_identityVars

-----------------------------------------------------------------------------
(* Every variable holds values of the kind its column or local has; only a *)
(* submission that found or made its person is at work on it.              *)
IdentityTypeOK ==
    /\ persons \in [Persons -> PersonRow \cup {NoRow}]
    /\ users \in [Users -> Persons \cup {"none"}]
    /\ faces \subseteq Persons \X Faces
    /\ kycTokens \subseteq Persons
    /\ sub \in [Submissions -> Submission]
    /\ \A s \in Submissions : sub[s].pc \in Active => sub[s].entity \in PersonRow
    /\ erasure \in [Erasures -> [pc : {"idle", "erase", "remove", "deleted", "failed"},
                                 person : Persons \cup {"none"}]]

Approved(p) == persons[p].status = "APPROVED"

(* One document, one person: submissions of one document at the same time  *)
(* all pass the query of layer 1, and the unique index lets one of them    *)
(* commit, also while rows change their document or are erased.            *)
OneDocumentOnePerson ==
    \A p, q \in Persons :
        p # q /\ persons[p].hash # "null" => persons[p].hash # persons[q].hash

(* The face of an approved person stays registered under the person, where *)
(* the gate and the search for duplicates look for it, through stale       *)
(* saves, rollbacks and new submissions, until an erasure asks for its     *)
(* deletion.                                                               *)
ApprovedIsEnrolled ==
    \A p \in Persons : Approved(p) /\ p \notin erasing => <<p, approvedAs[p]>> \in faces

(* "Layer 4: 1:N face deduplication, so that nobody has several accounts": *)
(* no two approved persons have the same face.                             *)
OneAccountPerFace ==
    \A p, q \in Persons :
        p # q /\ Approved(p) /\ Approved(q) => approvedAs[p] # approvedAs[q]

(* Layer 4 has no other gaps than these: two persons are approved with one *)
(* face only if a search for it came between the search and the            *)
(* registration of another submission, or was answered 400 although the    *)
(* face was there, or one of the two persons was asked to be erased.       *)
OneAccountPerFaceUnlessMissed ==
    \A p, q \in Persons :
        p # q /\ Approved(p) /\ Approved(q) /\ approvedAs[p] = approvedAs[q] =>
            approvedAs[p] \in missed \/ p \in erasing \/ q \in erasing

Erased(p) == persons[p] = NoRow /\ \A f \in Faces : <<p, f>> \notin faces

(* "Removes all personal data associated with the user, including face     *)
(* embeddings": after deleteUserData has answered "deleted" there is       *)
(* neither a row nor a face of the person.                                 *)
ErasureIsComplete ==
    \A e \in Erasures : erasure[e].pc = "deleted" => Erased(erasure[e].person)

(* deleteUserData has no other gaps than these: what it answers "deleted"  *)
(* of is erased, also a face that a later submission registered or that a  *)
(* rejected one had kept, unless another call was at work on the person,   *)
(* CompreFace refused the deletion, or a submission that failed after      *)
(* registering the face had left no row that names it.                     *)
ErasureLeavesNothing ==
    \A e \in Erasures :
        erasure[e].pc = "deleted" /\ erasure[e].person \notin contended \cup strays =>
            Erased(erasure[e].person)
=============================================================================
