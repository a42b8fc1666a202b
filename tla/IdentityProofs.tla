--------------------------- MODULE IdentityProofs ---------------------------
(***************************************************************************)
(* Proofs about Identity for any number of persons, documents, faces,      *)
(* submissions and erasures, which may overlap as they like.               *)
(***************************************************************************)
EXTENDS Identity, TLAPS

Late == {"select", "update", "wallet", "mint", "commit"}

(* A submission at work knows its person, document, face and user.         *)
LocalsKnown ==
    \A s \in Submissions : sub[s].pc \in Active =>
        /\ sub[s].person \in Persons
        /\ sub[s].document \in Documents
        /\ sub[s].face \in Faces
        /\ sub[s].user \in Users
        /\ sub[s].entity \in PersonRow

(* An INSERT carries every column.                                         *)
InsertIsWhole ==
    \A s \in Submissions : "id" \in sub[s].cols => {"status", "hash", "face", "sbt"} \subseteq sub[s].cols

ErasureKnown ==
    \A e \in Erasures : erasure[e].pc \in {"erase", "remove", "deleted"} => erasure[e].person \in Persons

IdentityTypeInv ==
    /\ IdentityTypeOK
    /\ approvedAs \in [Persons -> Faces \cup {"null"}]
    /\ LocalsKnown
    /\ InsertIsWhole
    /\ ErasureKnown

(* Open transactions hold different persons and, if any, different keys,   *)
(* and none holds the key of a row of somebody else.                       *)
KeysApart ==
    \A s, o \in Submissions : s # o /\ Open(s) /\ Open(o) =>
        /\ sub[s].person # sub[o].person
        /\ sub[s].written.hash # "null" => sub[s].written.hash # sub[o].written.hash

KeyIsOwn ==
    \A s \in Submissions : Open(s) /\ sub[s].written.hash # "null" =>
        ~HashTaken(sub[s].written.hash, sub[s].person)

DocumentInv == OneDocumentOnePerson /\ KeysApart /\ KeyIsOwn

(* A face that CompreFace was told stays until it is asked to delete it.   *)
FaceKept(p, f) == <<p, f>> \in faces \/ p \in erasing

Approving(s) == sub[s].pc \in Late /\ sub[s].entity.status = "APPROVED"

EnrolInv ==
    /\ \A p \in Persons : Approved(p) => FaceKept(p, approvedAs[p])
    /\ \A s \in Submissions : Approving(s) => FaceKept(sub[s].person, sub[s].face)
    /\ \A s \in Submissions : Open(s) /\ sub[s].written.status = "APPROVED" =>
          Approving(s) \/ FaceKept(sub[s].person, approvedAs[sub[s].person])

(* Two registrations of a face, or one while a search that did not find it *)
(* is unfinished, mean that a search missed the face.                      *)
SearchInv ==
    /\ \A p, q \in Persons, f \in Faces :
          p # q /\ <<p, f>> \in faces /\ <<q, f>> \in faces => f \in missed
    /\ \A s \in Submissions : sub[s].pc = "add" /\ KnownFace(sub[s].face) => sub[s].face \in missed
    /\ \A s, o \in Submissions :
          s # o /\ sub[s].pc = "add" /\ sub[o].pc = "add" /\ sub[s].face = sub[o].face
             => sub[s].face \in missed

(* At most one call is at work on a person that is not contended.          *)
Erasing == {"erase", "remove"}

AloneInv ==
    /\ \A s, o \in Submissions :
          /\ sub[s].pc \in Active /\ sub[o].pc \in Active /\ sub[s].person = sub[o].person
          => s = o \/ sub[s].person \in contended
    /\ \A s \in Submissions, e \in Erasures :
          /\ sub[s].pc \in Active /\ erasure[e].pc \in Erasing
          /\ sub[s].person = erasure[e].person
          => sub[s].person \in contended
    /\ \A e, x \in Erasures :
          /\ erasure[e].pc \in Erasing /\ erasure[x].pc \in Erasing
          /\ erasure[e].person = erasure[x].person
          => e = x \/ erasure[e].person \in contended

(* Somebody once submitted every person that has a row or is erased.       *)
EverSubmitted(p) == \E s \in Submissions : sub[s].person = p /\ sub[s].pc # "idle"

SubmittedInv ==
    /\ \A p \in Persons : persons[p] # NoRow => EverSubmitted(p)
    /\ \A e \in Erasures : erasure[e].pc \in {"erase", "remove", "deleted"} => EverSubmitted(erasure[e].person)

(* Alone on its person, a submission sees the row it loaded and saves      *)
(* exactly its entity, which names a face only if the row does or if the   *)
(* submission has registered one.                                          *)
CurrentInv ==
    \A s \in Submissions : sub[s].pc \in Active /\ sub[s].person \notin contended =>
        /\ Seen(s) # NoRow
        /\ sub[s].pc = "update" => sub[s].cols = Differing(sub[s].entity, Seen(s))
        /\ sub[s].pc \in {"wallet", "mint", "commit"} => sub[s].written = sub[s].entity
        /\ persons[sub[s].person].face = "subject" => sub[s].entity.face = "subject"
        /\ sub[s].entity.face = "subject" => Approving(s) \/ persons[sub[s].person].face = "subject"

FaceIsTold ==
    \A p \in Persons \ (contended \cup strays) :
        (\E f \in Faces : <<p, f>> \in faces) =>
            \/ persons[p].face = "subject"
            \/ \E s \in Submissions : /\ sub[s].pc \in Active /\ sub[s].person = p
                                      /\ sub[s].entity.face = "subject"

ErasedInv ==
    \A e \in Erasures :
        LET p == erasure[e].person IN
        p \notin contended \cup strays =>
            /\ erasure[e].pc \in {"remove", "deleted"} => \A f \in Faces : <<p, f>> \notin faces
            /\ erasure[e].pc = "deleted" =>
                  /\ persons[p] = NoRow
                  /\ \A s \in Submissions : sub[s].pc \in Active => sub[s].person # p

ErasureInv == AloneInv /\ SubmittedInv /\ CurrentInv /\ FaceIsTold /\ ErasedInv

-----------------------------------------------------------------------------
(* Rows: what the assignments of the layers and the merge of a save keep.  *)
LEMMA RowFacts ==
    /\ NewRow \in PersonRow
    /\ NoRow \notin PersonRow
    /\ NoRow.status = "ABSENT" /\ NoRow.hash = "null" /\ NoRow.face = "null"
    /\ NewRow.status = "PENDING" /\ NewRow.hash = "null" /\ NewRow.face = "null"
    /\ DOMAIN NewRow = {"status", "hash", "face", "sbt"}
  BY DEF NewRow, NoRow, PersonRow, KycStatus

Merged(entity, row, cols) ==
    [c \in DOMAIN NewRow |-> IF c \in cols THEN entity[c] ELSE row[c]]

(* The UPDATE of a save leaves a row that mixes columns of two.            *)
LEMMA MergedRow ==
    ASSUME NEW entity \in PersonRow, NEW row, NEW cols,
           row \in PersonRow \/ {"status", "hash", "face", "sbt"} \subseteq cols
    PROVE  LET m == Merged(entity, row, cols) IN
           /\ m \in PersonRow
           /\ m.status = IF "status" \in cols THEN entity.status ELSE row.status
           /\ m.hash = IF "hash" \in cols THEN entity.hash ELSE row.hash
           /\ cols = Differing(entity, row) /\ row \in PersonRow => m = entity
<1> DEFINE m == Merged(entity, row, cols)
<1>1. m = [c \in {"status", "hash", "face", "sbt"} |-> IF c \in cols THEN entity[c] ELSE row[c]]
  BY RowFacts DEF Merged
<1>2. /\ m.status = IF "status" \in cols THEN entity.status ELSE row.status
      /\ m.hash = IF "hash" \in cols THEN entity.hash ELSE row.hash
      /\ m.face = IF "face" \in cols THEN entity.face ELSE row.face
      /\ m.sbt = IF "sbt" \in cols THEN entity.sbt ELSE row.sbt
  BY <1>1
<1>3. m = [status |-> m.status, hash |-> m.hash, face |-> m.face, sbt |-> m.sbt]
  BY <1>1
<1> HIDE DEF m
<1>4. m \in PersonRow
  BY <1>2, <1>3 DEF PersonRow
<1>5. ASSUME cols = Differing(entity, row), row \in PersonRow
      PROVE  m = entity
  <2>1. /\ "status" \notin cols => entity.status = row.status
        /\ "hash" \notin cols => entity.hash = row.hash
        /\ "face" \notin cols => entity.face = row.face
        /\ "sbt" \notin cols => entity.sbt = row.sbt
    BY <1>5 DEF Differing, PersonRow
  <2>2. entity = [status |-> entity.status, hash |-> entity.hash, face |-> entity.face,
                  sbt |-> entity.sbt]
    BY DEF PersonRow
  <2>3. m.status = entity.status /\ m.hash = entity.hash /\ m.face = entity.face /\ m.sbt = entity.sbt
    BY <1>2, <2>1
  <2>4. QED
    BY <1>3, <2>2, <2>3
<1>6. QED
  BY <1>2, <1>4, <1>5 DEF m

-----------------------------------------------------------------------------
(* What a step of submission s does, by kind.                              *)
SameCall(s) ==
    /\ \A o \in Submissions \ {s} : sub'[o] = sub[o]
    /\ sub'[s].person = sub[s].person
    /\ sub'[s].document = sub[s].document
    /\ sub'[s].face = sub[s].face
    /\ sub'[s].user = sub[s].user

(* The steps that only think: layers, searches, SELECTs and the chain.     *)
Quiet(s) ==
    /\ sub[s].pc \in Active /\ sub'[s].pc \in Active
    /\ SameCall(s)
    /\ sub'[s].written = sub[s].written
    /\ sub'[s].entity.face = sub[s].entity.face
    /\ Approving(s)' <=> Approving(s)
    /\ sub'[s].pc = "update" =>
          /\ sub'[s].entity = sub[s].entity
          /\ sub'[s].cols = IF Seen(s) = NoRow THEN DOMAIN NewRow \cup {"id"}
                            ELSE Differing(sub[s].entity, Seen(s))
    /\ sub'[s].pc \in {"wallet", "mint", "commit"} =>
          sub[s].pc \in {"wallet", "mint"} /\ sub'[s].entity = sub[s].entity
    /\ sub'[s].pc = "add" =>
          /\ KnownFace(sub[s].face) => sub[s].face \in missed'
          /\ \A o \in Submissions \ {s} :
                sub[o].pc = "add" /\ sub[o].face = sub[s].face => sub[s].face \in missed'
    /\ missed \subseteq missed'
    /\ UNCHANGED <<persons, users, faces, erasure, erasing, approvedAs, contended, strays>>

(* Types, as far as a step of s can disturb them.                          *)
StaysTyped(s) ==
    /\ sub' \in [Submissions -> Submission]
    /\ sub'[s].pc \in Active => sub'[s].entity \in PersonRow
    /\ "id" \in sub'[s].cols => {"status", "hash", "face", "sbt"} \subseteq sub'[s].cols

(* A submission that moves on with another entity.                         *)
LEMMA MovedOn ==
    ASSUME IdentityTypeInv, NEW s \in Submissions, NEW pc \in Active, NEW entity \in PersonRow,
           sub' = Moved(s, pc, entity)
    PROVE  /\ StaysTyped(s) /\ SameCall(s)
           /\ sub'[s].pc = pc /\ sub'[s].entity = entity
           /\ sub'[s].written = sub[s].written
<1>1. sub \in [Submissions -> Submission]
  BY DEF IdentityTypeInv, IdentityTypeOK
<1>2. PICK new : new = [sub[s] EXCEPT !.pc = pc, !.entity = entity]
  OBVIOUS
<1>3. /\ new \in Submission /\ new.pc = pc /\ new.entity = entity
      /\ new.person = sub[s].person /\ new.document = sub[s].document
      /\ new.face = sub[s].face /\ new.user = sub[s].user
      /\ new.written = sub[s].written /\ new.cols = sub[s].cols
  <2>1. sub[s] \in Submission
    BY <1>1
  <2>2. pc \in Active \cup Ended \cup {"idle"}
    OBVIOUS
  <2>3. QED
    BY <1>2, <2>1, <2>2 DEF Submission
<1>4. sub' = [sub EXCEPT ![s] = new]
  BY <1>2 DEF Moved
<1>5. sub' \in [Submissions -> Submission] /\ sub'[s] = new
      /\ \A o \in Submissions \ {s} : sub'[o] = sub[o]
  BY <1>1, <1>3, <1>4
<1>6. QED
  BY <1>3, <1>5 DEF StaysTyped, SameCall, IdentityTypeInv, InsertIsWhole

(* A rejection goes to the save.                                           *)
LEMMA RejectedIsQuiet ==
    ASSUME IdentityTypeInv, NEW s \in Submissions, sub[s].pc \in Active \ Late,
           sub' = Rejected(s), missed \subseteq missed',
           UNCHANGED <<persons, users, faces, erasure, erasing, approvedAs, contended, strays>>
    PROVE  Quiet(s) /\ StaysTyped(s)
<1>1. sub[s].entity \in PersonRow
  BY DEF IdentityTypeInv, LocalsKnown
<1>2. PICK new : new = [sub[s].entity EXCEPT !.status = "REJECTED"]
  OBVIOUS
<1>3. /\ new \in PersonRow /\ new.status = "REJECTED" /\ new.face = sub[s].entity.face
  BY <1>1, <1>2 DEF PersonRow, KycStatus
<1>4. sub' = Moved(s, "select", new) /\ "select" \in Active
  BY <1>2 DEF Rejected, Active
<1>5. /\ StaysTyped(s) /\ SameCall(s) /\ sub'[s].pc = "select" /\ sub'[s].entity = new
      /\ sub'[s].written = sub[s].written
  BY <1>3, <1>4, MovedOn
<1>6. QED
  BY <1>3, <1>4, <1>5 DEF Quiet, Approving

(* A layer that is passed goes on to the next.                             *)
LEMMA PassedIsQuiet ==
    ASSUME IdentityTypeInv, NEW s \in Submissions, sub[s].pc \in Active \ Late,
           NEW pc \in {"liveness", "compare", "recognize"}, NEW new \in PersonRow,
           new.face = sub[s].entity.face, sub' = Moved(s, pc, new), UNCHANGED missed,
           UNCHANGED <<persons, users, faces, erasure, erasing, approvedAs, contended, strays>>
    PROVE  Quiet(s) /\ StaysTyped(s)
<1>1. pc \in Active
  BY DEF Active
<1>2. /\ StaysTyped(s) /\ SameCall(s) /\ sub'[s].pc = pc /\ sub'[s].entity = new
      /\ sub'[s].written = sub[s].written
  BY <1>1, MovedOn
<1>3. QED
  BY <1>1, <1>2 DEF Quiet, Approving, Late

QuietAction(s) ==
    \/ CheckDocument(s) \/ DetectLiveness(s) \/ CompareFaces(s) \/ Recognize(s)
    \/ SaveSelect(s) \/ CreateAAWallet(s) \/ MintKycSbt(s)

(* The quiet steps are these.                                              *)
LEMMA QuietSteps ==
    ASSUME IdentityTypeInv, NEW s \in Submissions, QuietAction(s)
    PROVE  Quiet(s) /\ StaysTyped(s) /\ kycTokens' \subseteq Persons
<1>0. /\ sub \in [Submissions -> Submission]
      /\ kycTokens \subseteq Persons
      /\ sub[s].pc \in Active =>
            sub[s].entity \in PersonRow /\ sub[s].document \in Documents /\ sub[s].person \in Persons
  BY DEF IdentityTypeInv, IdentityTypeOK, LocalsKnown
<1>1. CASE CheckDocument(s)
  <2>1. /\ sub[s].pc = "document" /\ sub[s].pc \in Active \ Late /\ UNCHANGED kycTokens
        /\ UNCHANGED missed
        /\ UNCHANGED <<persons, users, faces, erasure, erasing, approvedAs, contended, strays>>
    BY <1>1 DEF CheckDocument, stores, history, Active, Late
  <2>2. CASE sub' = Rejected(s)
    BY <2>1, <2>2, <1>0, RejectedIsQuiet
  <2>3. CASE sub' # Rejected(s)
    <3>1. PICK new : new = [sub[s].entity EXCEPT !.hash = sub[s].document, !.status = "ID_VERIFIED"]
      OBVIOUS
    <3>2. new \in PersonRow /\ new.face = sub[s].entity.face
      BY <1>0, <2>1, <3>1 DEF PersonRow, KycStatus
    <3>3. sub' = Moved(s, "liveness", new)
      BY <1>1, <2>3, <3>1 DEF CheckDocument
    <3>4. QED
      BY <1>0, <2>1, <3>2, <3>3, PassedIsQuiet
  <2>4. QED
    BY <2>2, <2>3
<1>2. CASE DetectLiveness(s)
  <2>1. /\ sub[s].pc = "liveness" /\ sub[s].pc \in Active \ Late /\ UNCHANGED kycTokens
        /\ UNCHANGED missed
        /\ UNCHANGED <<persons, users, faces, erasure, erasing, approvedAs, contended, strays>>
    BY <1>2 DEF DetectLiveness, stores, history, Active, Late
  <2>2. CASE sub' = Rejected(s)
    BY <2>1, <2>2, <1>0, RejectedIsQuiet
  <2>3. CASE sub' # Rejected(s)
    <3>1. PICK new : new = [sub[s].entity EXCEPT !.status = "LIVENESS_PASSED"]
      OBVIOUS
    <3>2. new \in PersonRow /\ new.face = sub[s].entity.face
      BY <1>0, <2>1, <3>1 DEF PersonRow, KycStatus
    <3>3. sub' = Moved(s, "compare", new)
      BY <1>2, <2>3, <3>1 DEF DetectLiveness
    <3>4. QED
      BY <1>0, <2>1, <3>2, <3>3, PassedIsQuiet
  <2>4. QED
    BY <2>2, <2>3
<1>3. CASE CompareFaces(s)
  <2>1. /\ sub[s].pc = "compare" /\ sub[s].pc \in Active \ Late /\ UNCHANGED kycTokens
        /\ UNCHANGED missed
        /\ UNCHANGED <<persons, users, faces, erasure, erasing, approvedAs, contended, strays>>
    BY <1>3 DEF CompareFaces, stores, history, Active, Late
  <2>2. CASE sub' = Rejected(s)
    BY <2>1, <2>2, <1>0, RejectedIsQuiet
  <2>3. CASE sub' # Rejected(s)
    <3>1. PICK new : new = [sub[s].entity EXCEPT !.status = "FACE_MATCHED"]
      OBVIOUS
    <3>2. new \in PersonRow /\ new.face = sub[s].entity.face
      BY <1>0, <2>1, <3>1 DEF PersonRow, KycStatus
    <3>3. sub' = Moved(s, "recognize", new)
      BY <1>3, <2>3, <3>1 DEF CompareFaces
    <3>4. QED
      BY <1>0, <2>1, <3>2, <3>3, PassedIsQuiet
  <2>4. QED
    BY <2>2, <2>3
<1>4. CASE Recognize(s)
  <2>1. /\ sub[s].pc = "recognize" /\ sub[s].pc \in Active \ Late /\ UNCHANGED kycTokens
        /\ missed \subseteq missed'
        /\ UNCHANGED <<persons, users, faces, erasure, erasing, approvedAs, contended, strays>>
    BY <1>4 DEF Recognize, stores, Active, Late
  <2>2. CASE sub' = Rejected(s)
    BY <1>0, <2>1, <2>2, RejectedIsQuiet
  <2>3. CASE /\ sub' = [sub EXCEPT ![s].pc = "add"]
             /\ missed' = IF KnownFace(sub[s].face) \/ SearchedBeside(s)
                          THEN missed \cup {sub[s].face} ELSE missed
    <3>1. /\ sub' = [sub EXCEPT ![s].pc = "add"]
          /\ KnownFace(sub[s].face) => sub[s].face \in missed'
          /\ \A o \in Submissions \ {s} :
                sub[o].pc = "add" /\ sub[o].face = sub[s].face => sub[s].face \in missed'
      BY <2>3 DEF SearchedBeside
    <3>2. /\ sub'[s].pc = "add" /\ sub'[s].entity = sub[s].entity
          /\ sub'[s].written = sub[s].written /\ SameCall(s) /\ sub'[s].cols = sub[s].cols
      BY <1>0, <3>1 DEF Submission, SameCall
    <3>3. sub' \in [Submissions -> Submission]
      BY <1>0, <3>1 DEF Submission, Active
    <3>4. StaysTyped(s)
      BY <1>0, <2>1, <3>2, <3>3 DEF StaysTyped, IdentityTypeInv, InsertIsWhole
    <3>5. QED
      BY <1>0, <2>1, <3>1, <3>2, <3>4 DEF Quiet, Approving, Late, Active
  <2>4. QED
    BY <1>4, <2>2, <2>3 DEF Recognize
<1>5. CASE SaveSelect(s)
  <2>1. PICK cols : cols = IF Seen(s) = NoRow THEN DOMAIN NewRow \cup {"id"}
                           ELSE Differing(sub[s].entity, Seen(s))
    OBVIOUS
  <2>2. /\ sub[s].pc = "select" /\ sub' = [sub EXCEPT ![s].pc = "update", ![s].cols = cols]
        /\ UNCHANGED <<kycTokens, missed>>
        /\ UNCHANGED <<persons, users, faces, erasure, erasing, approvedAs, contended, strays>>
    BY <1>5, <2>1 DEF SaveSelect, stores, history
  <2>3. sub[s].pc \in Active
    BY <2>2 DEF Active
  <2>4. Seen(s) \in PersonRow \cup {NoRow}
    BY <1>0, <2>3 DEF Seen, Submission, IdentityTypeInv, IdentityTypeOK
  <2>5. /\ cols \in SUBSET {"id", "status", "hash", "face", "sbt"}
        /\ "id" \in cols => {"status", "hash", "face", "sbt"} \subseteq cols
    BY <2>1, <2>4, RowFacts DEF Differing, PersonRow
  <2>6. /\ sub'[s].pc = "update" /\ sub'[s].entity = sub[s].entity /\ sub'[s].cols = cols
        /\ sub'[s].written = sub[s].written /\ SameCall(s)
    BY <1>0, <2>2 DEF Submission, SameCall
  <2>7. sub' \in [Submissions -> Submission]
    <3>1. sub[s] \in Submission
      BY <1>0
    <3>2. "update" \in Active \cup Ended \cup {"idle"}
      BY DEF Active
    <3>3. [sub[s] EXCEPT !.pc = "update", !.cols = cols] \in Submission
      BY <2>5, <3>1, <3>2 DEF Submission
    <3>4. QED
      BY <1>0, <2>2, <3>3
  <2>8. StaysTyped(s)
    BY <1>0, <2>3, <2>5, <2>6, <2>7 DEF StaysTyped
  <2>9. QED
    BY <1>0, <2>1, <2>2, <2>3, <2>6, <2>8 DEF Quiet, Approving, Late, Active
<1>6. CASE CreateAAWallet(s)
  <2>1. /\ sub[s].pc = "wallet" /\ UNCHANGED <<kycTokens, missed>>
        /\ UNCHANGED <<persons, users, faces, erasure, erasing, approvedAs, contended, strays>>
    BY <1>6 DEF CreateAAWallet, stores, history
  <2>2. PICK pc \in {"mint", "commit"} : sub' = [sub EXCEPT ![s].pc = pc]
    BY <1>6 DEF CreateAAWallet, Unattested
  <2>3. /\ sub'[s].pc = pc /\ sub'[s].entity = sub[s].entity /\ sub'[s].cols = sub[s].cols
        /\ sub'[s].written = sub[s].written /\ SameCall(s)
    BY <1>0, <2>2 DEF Submission, SameCall
  <2>4. sub' \in [Submissions -> Submission]
    BY <1>0, <2>2 DEF Submission, Active
  <2>5. QED
    BY <1>0, <2>1, <2>3, <2>4
       DEF Quiet, StaysTyped, Approving, Late, Active, IdentityTypeInv, InsertIsWhole
<1>7. CASE MintKycSbt(s)
  <2>1. /\ sub[s].pc = "mint" /\ UNCHANGED missed /\ sub[s].pc \in Active
        /\ UNCHANGED <<persons, users, faces, erasure, erasing, approvedAs, contended, strays>>
    BY <1>7 DEF MintKycSbt, history, Active
  <2>2. kycTokens' \subseteq Persons
    BY <1>0, <1>7, <2>1 DEF MintKycSbt
  <2>3. PICK new : new = [sub[s].entity EXCEPT !.sbt = "token"]
    OBVIOUS
  <2>4. new \in PersonRow /\ new.face = sub[s].entity.face /\ new.status = sub[s].entity.status
    BY <1>0, <2>1, <2>3 DEF PersonRow
  <2>5. CASE sub' = Moved(s, "select", new)
    <3>1. /\ StaysTyped(s) /\ SameCall(s) /\ sub'[s].pc = "select" /\ sub'[s].entity = new
          /\ sub'[s].written = sub[s].written
      BY <2>4, <2>5, MovedOn DEF Active
    <3>2. QED
      BY <2>1, <2>2, <2>4, <3>1 DEF Quiet, Approving, Late, Active
  <2>6. CASE sub' = Unattested(s)
    <3>1. sub' = [sub EXCEPT ![s].pc = "commit"]
      BY <2>6 DEF Unattested
    <3>2. /\ sub'[s].pc = "commit" /\ sub'[s].entity = sub[s].entity /\ sub'[s].cols = sub[s].cols
          /\ sub'[s].written = sub[s].written /\ SameCall(s)
      BY <1>0, <3>1 DEF Submission, SameCall
    <3>3. sub' \in [Submissions -> Submission]
      BY <1>0, <3>1 DEF Submission, Active
    <3>4. QED
      BY <1>0, <2>1, <2>2, <3>2, <3>3
         DEF Quiet, StaysTyped, Approving, Late, Active, IdentityTypeInv, InsertIsWhole
  <2>7. QED
    BY <1>7, <2>3, <2>5, <2>6 DEF MintKycSbt
<1>8. QED
  BY <1>1, <1>2, <1>3, <1>4, <1>5, <1>6, <1>7 DEF QuietAction

(* CompreFace is told the face.                                            *)
Enrols(s) ==
    /\ sub[s].pc = "add" /\ sub'[s].pc = "select"
    /\ SameCall(s)
    /\ sub'[s].written = sub[s].written
    /\ sub'[s].entity.status = "APPROVED" /\ sub'[s].entity.face = "subject"
    /\ faces' = faces \cup {<<sub[s].person, sub[s].face>>}
    /\ UNCHANGED <<persons, users, kycTokens, erasure, missed, erasing, approvedAs, contended, strays>>

(* The transaction writes the row, with the locks it needs.                *)
Writes(s) ==
    /\ sub[s].pc = "update" /\ sub'[s].pc \in {"wallet", "commit"}
    /\ SameCall(s)
    /\ sub'[s].entity = sub[s].entity
    /\ RowFree(sub[s].person, s)
    /\ "hash" \in sub[s].cols /\ sub[s].entity.hash # "null" =>
          KeyFree(sub[s].entity.hash, s) /\ ~HashTaken(sub[s].entity.hash, sub[s].person)
    /\ \/ Seen(s) = NoRow /\ "id" \notin sub[s].cols /\ sub'[s].written = NoRow
       \/ /\ Seen(s) # NoRow \/ "id" \in sub[s].cols
          /\ sub'[s].written = Merged(sub[s].entity, Seen(s), sub[s].cols)
    /\ UNCHANGED <<persons, users, faces, kycTokens, erasure, missed, erasing, approvedAs,
                   contended, strays>>

(* The submission ends without a commit.                                   *)
Aborts(s) ==
    /\ sub[s].pc \in Active /\ sub'[s].pc = "failed"
    /\ SameCall(s)
    /\ Approving(s) /\ persons[sub[s].person].face # "subject" => sub[s].person \in strays'
    /\ strays \subseteq strays'
    /\ UNCHANGED <<persons, users, faces, kycTokens, erasure, missed, erasing, approvedAs, contended>>

(* AddFace is such a step, ...                                             *)
LEMMA AddFaceEnrols ==
    ASSUME IdentityTypeInv, NEW s \in Submissions, AddFace(s)
    PROVE  Enrols(s) /\ StaysTyped(s)
<1>1. sub[s].pc = "add" /\ sub[s].pc \in Active
  BY DEF AddFace, Active
<1>2. sub[s].entity \in PersonRow
  BY <1>1 DEF IdentityTypeInv, LocalsKnown
<1>3. PICK new : new = [sub[s].entity EXCEPT !.face = "subject", !.status = "APPROVED"]
  OBVIOUS
<1>4. new \in PersonRow /\ new.status = "APPROVED" /\ new.face = "subject"
  BY <1>2, <1>3 DEF PersonRow, KycStatus
<1>5. sub' = Moved(s, "select", new) /\ "select" \in Active
  BY <1>3 DEF AddFace, Active
<1>6. /\ StaysTyped(s) /\ SameCall(s) /\ sub'[s].pc = "select" /\ sub'[s].entity = new
      /\ sub'[s].written = sub[s].written
  BY <1>4, <1>5, MovedOn
<1>7. QED
  BY <1>1, <1>4, <1>6 DEF AddFace, Enrols, history

(* ... an exception, a crash or a key conflict is an abort, ...            *)
LEMMA FailsAborts ==
    ASSUME IdentityTypeInv, NEW s \in Submissions, sub[s].pc \in Active, Fails(s),
           UNCHANGED <<stores, erasure, missed, erasing, approvedAs, contended>>
    PROVE  Aborts(s) /\ StaysTyped(s)
<1>1. sub \in [Submissions -> Submission]
  BY DEF IdentityTypeInv, IdentityTypeOK
<1>2. sub' = [sub EXCEPT ![s].pc = "failed"]
  BY DEF Fails
<1>3. sub' \in [Submissions -> Submission]
  BY <1>1, <1>2 DEF Submission, Ended
<1>4. sub'[s].pc = "failed" /\ SameCall(s) /\ sub'[s].cols = sub[s].cols
  BY <1>1, <1>2 DEF Submission, SameCall
<1>5. Aborts(s)
  BY <1>4 DEF Aborts, Fails, HasAdded, Approving, Late, stores
<1>6. "failed" \notin Active
  BY DEF Active
<1>7. QED
  BY <1>3, <1>4, <1>5, <1>6 DEF StaysTyped, IdentityTypeInv, InsertIsWhole

(* What a submission sees of its person is a row or nothing.               *)
LEMMA SeenRow ==
    ASSUME IdentityTypeInv, NEW s \in Submissions, sub[s].pc \in Active
    PROVE  Seen(s) \in PersonRow \cup {NoRow}
  BY DEF Seen, Submission, IdentityTypeInv, IdentityTypeOK, LocalsKnown

(* ... and the UPDATE or INSERT of a save writes or aborts.                *)
LEMMA SaveWritesOrAborts ==
    ASSUME IdentityTypeInv, NEW s \in Submissions, SaveUpdate(s)
    PROVE  (Writes(s) \/ Aborts(s)) /\ StaysTyped(s)
<1> DEFINE cols == sub[s].cols
           entity == sub[s].entity
           setsKey == "hash" \in cols /\ entity.hash # "null"
           conflict == \/ setsKey /\ HashTaken(entity.hash, sub[s].person)
                       \/ "id" \in cols /\ Seen(s) # NoRow
<1>1. /\ sub[s].pc = "update" /\ sub[s].pc \in Active
      /\ RowFree(sub[s].person, s) /\ (setsKey => KeyFree(entity.hash, s))
      /\ UNCHANGED <<stores, erasure, missed, erasing, approvedAs, contended>>
  BY DEF SaveUpdate, Active
<1>2. CASE conflict
  <2>1. Fails(s)
    BY <1>2 DEF SaveUpdate
  <2>2. QED
    BY <1>1, <2>1, FailsAborts
<1>3. CASE ~conflict
  <2>0. /\ sub \in [Submissions -> Submission] /\ entity \in PersonRow
        /\ "id" \in cols => {"status", "hash", "face", "sbt"} \subseteq cols
        /\ Seen(s) \in PersonRow \cup {NoRow}
    BY <1>1, SeenRow DEF IdentityTypeInv, IdentityTypeOK, LocalsKnown, InsertIsWhole
  <2>1. PICK written : written = IF Seen(s) = NoRow /\ "id" \notin cols THEN NoRow
                                 ELSE Merged(entity, Seen(s), cols)
    OBVIOUS
  <2>2. PICK pc \in {"wallet", "commit"} :
          sub' = [sub EXCEPT ![s].written = written, ![s].pc = pc, ![s].saved = TRUE]
    BY <1>3, <2>1 DEF SaveUpdate, Merged
  <2>3. UNCHANGED strays
    BY <1>3 DEF SaveUpdate
  <2>4. written \in PersonRow \cup {NoRow}
    BY <2>0, <2>1, MergedRow
  <2>5. PICK new : new = [sub[s] EXCEPT !.written = written, !.pc = pc, !.saved = TRUE]
    OBVIOUS
  <2>6. /\ new \in Submission /\ new.pc = pc /\ new.entity = sub[s].entity /\ new.written = written
        /\ new.person = sub[s].person /\ new.document = sub[s].document
        /\ new.face = sub[s].face /\ new.user = sub[s].user /\ new.cols = sub[s].cols
    <3> HIDE DEF PersonRow
    <3>1. sub[s] \in Submission
      BY <2>0
    <3>2. pc \in Active \cup Ended \cup {"idle"}
      BY DEF Active
    <3> HIDE DEF Active, Ended, cols, entity
    <3>3. QED
      BY <2>4, <2>5, <3>1, <3>2 DEF Submission
  <2>7. sub' = [sub EXCEPT ![s] = new]
    BY <2>2, <2>5
  <2>8. sub' \in [Submissions -> Submission] /\ sub'[s] = new
        /\ \A o \in Submissions \ {s} : sub'[o] = sub[o]
    BY <2>0, <2>6, <2>7
  <2>9. SameCall(s) /\ StaysTyped(s)
    BY <2>0, <2>6, <2>8 DEF SameCall, StaysTyped
  <2>10. Writes(s)
    BY <1>1, <1>3, <2>1, <2>3, <2>6, <2>8, <2>9 DEF Writes, stores
  <2>11. QED
    BY <2>9, <2>10
<1>4. QED
  BY <1>2, <1>3

(* The transaction commits.                                                *)
Commits(s) ==
    /\ sub[s].pc = "commit" /\ sub'[s].pc \in {"approved", "rejected"}
    /\ SameCall(s)
    /\ persons' = IF sub[s].written # NoRow THEN [persons EXCEPT ![sub[s].person] = sub[s].written]
                                            ELSE persons
    /\ approvedAs' = IF sub[s].entity.status = "APPROVED"
                     THEN [approvedAs EXCEPT ![sub[s].person] = sub[s].face] ELSE approvedAs
    /\ users' \in [Users -> Persons \cup {"none"}]
    /\ UNCHANGED <<faces, kycTokens, erasure, missed, erasing, contended, strays>>

(* Commit, with the update of the user before it, is such a step.          *)
LEMMA CommitCommits ==
    ASSUME IdentityTypeInv, NEW s \in Submissions, Commit(s)
    PROVE  Commits(s) /\ StaysTyped(s)
<1>1. sub \in [Submissions -> Submission] /\ users \in [Users -> Persons \cup {"none"}]
  BY DEF IdentityTypeInv, IdentityTypeOK
<1>2. /\ sub[s].pc = "commit" /\ sub[s].pc \in Active
      /\ sub[s].person \in Persons
  BY DEF Commit, Active, IdentityTypeInv, LocalsKnown
<1>3. PICK pc \in {"approved", "rejected"} : sub' = [sub EXCEPT ![s].pc = pc]
  BY DEF Commit
<1>4. sub' \in [Submissions -> Submission]
  BY <1>1, <1>3 DEF Submission, Ended
<1>5. sub'[s].pc = pc /\ SameCall(s) /\ sub'[s].cols = sub[s].cols
  BY <1>1, <1>3 DEF Submission, SameCall
<1>6. users' \in [Users -> Persons \cup {"none"}]
  BY <1>1, <1>2 DEF Commit
<1>7. pc \notin Active
  BY DEF Active
<1>8. Open(s) <=> sub[s].written # NoRow
  BY <1>2 DEF Open
<1>9. Commits(s)
  BY <1>2, <1>5, <1>6, <1>8 DEF Commits, Commit
<1>10. QED
  BY <1>4, <1>5, <1>7, <1>9 DEF StaysTyped, IdentityTypeInv, InsertIsWhole

(* A call of submitKyc begins on a new person or on one that has a row, or *)
(* ends at once.                                                           *)
Begins(s, p) ==
    /\ sub[s].pc = "idle" /\ p \in Persons
    /\ \A o \in Submissions \ {s} : sub'[o] = sub[o]
    /\ contended' = contended \cup ({p} \cap Busy)
    /\ \/ /\ sub'[s].pc = "failed"
       \/ /\ sub'[s].pc = "document" /\ sub'[s].person = p
          /\ sub'[s].document \in Documents /\ sub'[s].face \in Faces /\ sub'[s].user \in Users
          /\ \/ p \in Fresh /\ sub'[s].entity = NewRow /\ sub'[s].written = NewRow
             \/ persons[p] # NoRow /\ sub'[s].entity = persons[p] /\ sub'[s].written = NoRow
    /\ UNCHANGED <<stores, erasure, missed, erasing, approvedAs, strays>>

(* submitKyc up to its try is such a step.                                 *)
LEMMA SubmitBegins ==
    ASSUME IdentityTypeInv, NEW s \in Submissions, NEW p \in Persons, NEW d \in Documents,
           NEW f \in Faces, NEW u \in Users, SubmitKyc(s, p, d, f, u)
    PROVE  Begins(s, p) /\ StaysTyped(s)
<1>1. /\ sub \in [Submissions -> Submission] /\ persons[p] \in PersonRow \cup {NoRow}
      /\ sub[s].pc = "idle" /\ contended' = contended \cup ({p} \cap Busy)
      /\ UNCHANGED <<stores, erasure, missed, erasing, approvedAs, strays>>
  BY DEF IdentityTypeInv, IdentityTypeOK, SubmitKyc
<1>2. ASSUME NEW entity \in PersonRow, NEW written \in PersonRow \cup {NoRow},
             sub' = [sub EXCEPT ![s] = Begun(p, d, f, u, entity, written)]
      PROVE  /\ StaysTyped(s) /\ \A o \in Submissions \ {s} : sub'[o] = sub[o]
             /\ sub'[s].pc = "document" /\ sub'[s].person = p
             /\ sub'[s].document = d /\ sub'[s].face = f /\ sub'[s].user = u
             /\ sub'[s].entity = entity /\ sub'[s].written = written
  <2>1. PICK new : new = Begun(p, d, f, u, entity, written)
    OBVIOUS
  <2>2. new = [pc |-> "document", person |-> p, document |-> d, face |-> f, user |-> u,
               entity |-> entity, cols |-> {}, written |-> written, saved |-> FALSE]
    BY <2>1 DEF Begun, IdleSubmission
  <2>3. new \in Submission
    <3> HIDE DEF PersonRow, NoRow
    <3>1. QED
      BY <2>2 DEF Submission, Active
  <2>4. sub' \in [Submissions -> Submission] /\ sub'[s] = new
        /\ \A o \in Submissions \ {s} : sub'[o] = sub[o]
    BY <1>1, <1>2, <2>1, <2>3
  <2>5. QED
    BY <1>2, <2>2, <2>4 DEF StaysTyped
<1>3. CASE p \in Fresh /\ sub' = [sub EXCEPT ![s] = Begun(p, d, f, u, NewRow, NewRow)]
  <2>1. NewRow \in PersonRow
    BY RowFacts
  <2>2. QED
    BY <1>1, <1>2, <1>3, <2>1 DEF Begins
<1>4. CASE persons[p] # NoRow /\ sub' = [sub EXCEPT ![s] = Begun(p, d, f, u, persons[p], NoRow)]
  <2>1. persons[p] \in PersonRow
    BY <1>1, <1>4
  <2>2. QED
    BY <1>1, <1>2, <1>4, <2>1 DEF Begins
<1>5. CASE sub' = [sub EXCEPT ![s].pc = "failed"]
  <2>1. sub' \in [Submissions -> Submission]
    BY <1>1, <1>5 DEF Submission, Ended
  <2>2. /\ sub'[s].pc = "failed" /\ sub'[s].cols = sub[s].cols
        /\ \A o \in Submissions \ {s} : sub'[o] = sub[o]
    BY <1>1, <1>5 DEF Submission
  <2>3. "failed" \notin Active
    BY DEF Active
  <2>4. QED
    BY <1>1, <2>1, <2>2, <2>3 DEF Begins, StaysTyped, IdentityTypeInv, InsertIsWhole
<1>6. QED
  BY <1>3, <1>4, <1>5 DEF SubmitKyc

(* A step of a submission, whatever its kind.                              *)
SubmissionStep(s) ==
    \/ Quiet(s) \/ Enrols(s) \/ Writes(s) \/ Aborts(s) \/ Commits(s)
    \/ \E p \in Persons : Begins(s, p)

(* An erasure: its findOne, its call of CompreFace, its DELETE, its end.   *)
ErasureStep(e) ==
    \/ \E p \in Persons : DeleteUserData(e, p)
    \/ DeleteFaceFromCompreFace(e) \/ RemovePerson(e) \/ ErasureDies(e)

(* Every step is one of these.                                             *)
LEMMA IdentitySteps ==
    ASSUME IdentityTypeInv, IdentityNext
    PROVE  \/ \E s \in Submissions : SubmissionStep(s) /\ StaysTyped(s) /\ kycTokens' \subseteq Persons
           \/ \E e \in Erasures : ErasureStep(e)
<1>0. kycTokens \subseteq Persons
  BY DEF IdentityTypeInv, IdentityTypeOK
<1>1. ASSUME NEW s \in Submissions, NEW p \in Persons, NEW d \in Documents, NEW f \in Faces,
             NEW u \in Users, SubmitKyc(s, p, d, f, u)
      PROVE  SubmissionStep(s) /\ StaysTyped(s) /\ kycTokens' \subseteq Persons
  <2>1. Begins(s, p) /\ StaysTyped(s)
    BY <1>1, SubmitBegins
  <2>2. QED
    BY <1>0, <2>1 DEF SubmissionStep, Begins, stores
<1>2. ASSUME NEW s \in Submissions, QuietAction(s)
      PROVE  SubmissionStep(s) /\ StaysTyped(s) /\ kycTokens' \subseteq Persons
  BY <1>2, QuietSteps DEF SubmissionStep
<1>3. ASSUME NEW s \in Submissions, AddFace(s)
      PROVE  SubmissionStep(s) /\ StaysTyped(s) /\ kycTokens' \subseteq Persons
  BY <1>0, <1>3, AddFaceEnrols DEF SubmissionStep, Enrols
<1>4. ASSUME NEW s \in Submissions, SaveUpdate(s)
      PROVE  SubmissionStep(s) /\ StaysTyped(s) /\ kycTokens' \subseteq Persons
  BY <1>0, <1>4, SaveWritesOrAborts DEF SubmissionStep, Writes, Aborts
<1>5. ASSUME NEW s \in Submissions, Commit(s)
      PROVE  SubmissionStep(s) /\ StaysTyped(s) /\ kycTokens' \subseteq Persons
  BY <1>0, <1>5, CommitCommits DEF SubmissionStep, Commits
<1>6. ASSUME NEW s \in Submissions, Rollback(s)
      PROVE  SubmissionStep(s) /\ StaysTyped(s) /\ kycTokens' \subseteq Persons
  <2>1. Aborts(s) /\ StaysTyped(s)
    BY <1>6, FailsAborts DEF Rollback
  <2>2. QED
    BY <1>0, <2>1 DEF SubmissionStep, Aborts
<1>7. QED
  BY <1>1, <1>2, <1>3, <1>4, <1>5, <1>6 DEF IdentityNext, QuietAction, ErasureStep

-----------------------------------------------------------------------------
(* The types hold initially, ...                                           *)
LEMMA IdentityTypeInitially == IdentityInit => IdentityTypeInv
<1> SUFFICES ASSUME IdentityInit PROVE IdentityTypeInv
  OBVIOUS
<1>1. IdleSubmission \in Submission
  <2> HIDE DEF PersonRow
  <2>1. QED
    BY DEF IdleSubmission, Submission, NoRow
<1>2. /\ sub \in [Submissions -> Submission]
      /\ \A s \in Submissions : sub[s].pc = "idle" /\ sub[s].cols = {}
  BY <1>1 DEF IdentityInit, IdleSubmission
<1>3. /\ erasure \in [Erasures -> [pc : {"idle", "erase", "remove", "deleted", "failed"},
                                   person : Persons \cup {"none"}]]
      /\ \A e \in Erasures : erasure[e].pc = "idle"
  BY DEF IdentityInit
<1>4. /\ persons \in [Persons -> PersonRow \cup {NoRow}] /\ users \in [Users -> Persons \cup {"none"}]
      /\ faces \subseteq Persons \X Faces /\ kycTokens \subseteq Persons
      /\ approvedAs \in [Persons -> Faces \cup {"null"}]
  BY DEF IdentityInit
<1>5. "idle" \notin Active
  BY DEF Active
<1>6. QED
  BY <1>2, <1>3, <1>4, <1>5
     DEF IdentityTypeInv, IdentityTypeOK, LocalsKnown, InsertIsWhole, ErasureKnown

(* ... and every step keeps them.                                          *)
LEMMA IdentityTypePreserved ==
    IdentityTypeInv /\ [IdentityNext]_identityVars => IdentityTypeInv'
<1> SUFFICES ASSUME IdentityTypeInv, [IdentityNext]_identityVars PROVE IdentityTypeInv'
  OBVIOUS
<1> DEFINE Rows == PersonRow \cup {NoRow}
           Calls == [pc : {"idle", "erase", "remove", "deleted", "failed"},
                     person : Persons \cup {"none"}]
<1>0. /\ persons \in [Persons -> Rows] /\ users \in [Users -> Persons \cup {"none"}]
      /\ faces \subseteq Persons \X Faces /\ kycTokens \subseteq Persons
      /\ sub \in [Submissions -> Submission]
      /\ erasure \in [Erasures -> Calls]
      /\ approvedAs \in [Persons -> Faces \cup {"null"}]
      /\ LocalsKnown /\ InsertIsWhole /\ ErasureKnown
  BY DEF IdentityTypeInv, IdentityTypeOK
<1>1. CASE UNCHANGED identityVars
  BY <1>1 DEF identityVars, stores, history, IdentityTypeInv, IdentityTypeOK, LocalsKnown,
              InsertIsWhole, ErasureKnown
<1>2. ASSUME NEW s \in Submissions, SubmissionStep(s), StaysTyped(s), kycTokens' \subseteq Persons
      PROVE  IdentityTypeInv'
  <2>1. UNCHANGED erasure
    BY <1>2 DEF SubmissionStep, Quiet, Enrols, Writes, Aborts, Commits, Begins
  <2>2. /\ \A o \in Submissions \ {s} : sub'[o] = sub[o]
        /\ sub'[s].pc \in Active =>
              /\ sub'[s].person \in Persons /\ sub'[s].document \in Documents
              /\ sub'[s].face \in Faces /\ sub'[s].user \in Users
    BY <1>0, <1>2 DEF SubmissionStep, Quiet, Enrols, Writes, Aborts, Commits, Begins, SameCall,
                      LocalsKnown, Active
  <2>3. sub' \in [Submissions -> Submission] /\ LocalsKnown' /\ InsertIsWhole'
    BY <1>0, <1>2, <2>2 DEF StaysTyped, LocalsKnown, InsertIsWhole
  <2>4. CASE Commits(s)
    <3>1. /\ sub[s].person \in Persons /\ sub[s].face \in Faces
          /\ sub[s].written \in Rows
      BY <1>0, <2>4 DEF Commits, LocalsKnown, Active, Submission
    <3> HIDE DEF Rows
    <3>2. persons' \in [Persons -> Rows]
      BY <1>0, <2>4, <3>1 DEF Commits
    <3>3. approvedAs' \in [Persons -> Faces \cup {"null"}]
      BY <1>0, <2>4, <3>1 DEF Commits
    <3>4. users' \in [Users -> Persons \cup {"none"}] /\ UNCHANGED faces
      BY <2>4 DEF Commits
    <3>5. QED
      BY <1>0, <1>2, <2>1, <2>3, <3>2, <3>3, <3>4
         DEF IdentityTypeInv, IdentityTypeOK, LocalsKnown, ErasureKnown, Rows
  <2>5. CASE ~Commits(s)
    <3>1. UNCHANGED <<persons, users, approvedAs>>
      BY <1>2, <2>5 DEF SubmissionStep, Quiet, Enrols, Writes, Aborts, Begins, stores
    <3>2. faces' \subseteq Persons \X Faces
      BY <1>0, <1>2, <2>5
         DEF SubmissionStep, Quiet, Enrols, Writes, Aborts, Begins, stores, LocalsKnown, Active
    <3>3. QED
      BY <1>0, <1>2, <2>1, <2>3, <3>1, <3>2
         DEF IdentityTypeInv, IdentityTypeOK, LocalsKnown, ErasureKnown
  <2>6. QED
    BY <2>4, <2>5
<1>3. ASSUME NEW e \in Erasures, ErasureStep(e)
      PROVE  IdentityTypeInv'
  <2>1. UNCHANGED <<users, kycTokens, sub, approvedAs>>
    BY <1>3 DEF ErasureStep, DeleteUserData, DeleteFaceFromCompreFace, RemovePerson, ErasureDies,
                stores, history
  <2>2. faces' \subseteq Persons \X Faces
    BY <1>0, <1>3 DEF ErasureStep, DeleteUserData, DeleteFaceFromCompreFace, RemovePerson,
                      ErasureDies, stores
  <2>3. persons' \in [Persons -> Rows]
    BY <1>0, <1>3 DEF ErasureStep, DeleteUserData, DeleteFaceFromCompreFace, RemovePerson,
                      ErasureDies, stores
  <2>4. PICK call \in Calls : /\ erasure' = [erasure EXCEPT ![e] = call]
                              /\ call.pc \in {"erase", "remove", "deleted"} => call.person \in Persons
    <3>1. CASE \E p \in Persons : DeleteUserData(e, p)
      <4>1. PICK p \in Persons : DeleteUserData(e, p)
        BY <3>1
      <4>2. PICK call : call = [pc |-> IF persons[p] = NoRow THEN "failed"
                                       ELSE IF persons[p].face = "subject" THEN "erase" ELSE "remove",
                                person |-> p]
        OBVIOUS
      <4>3. erasure' = [erasure EXCEPT ![e] = call]
        BY <4>1, <4>2 DEF DeleteUserData
      <4>4. call \in Calls /\ call.person \in Persons
        BY <4>2
      <4>5. QED
        BY <4>3, <4>4
    <3>2. CASE ~(\E p \in Persons : DeleteUserData(e, p))
      <4>1. PICK pc \in {"remove", "deleted", "failed"} : erasure' = [erasure EXCEPT ![e].pc = pc]
        BY <1>3, <3>2 DEF ErasureStep, DeleteFaceFromCompreFace, RemovePerson, ErasureDies
      <4>2. erasure[e].pc \in {"erase", "remove"}
        BY <1>3, <3>2 DEF ErasureStep, DeleteFaceFromCompreFace, RemovePerson, ErasureDies
      <4>3. PICK call : call = [erasure[e] EXCEPT !.pc = pc]
        OBVIOUS
      <4>4. call \in Calls /\ call.person \in Persons
        BY <1>0, <4>2, <4>3 DEF ErasureKnown
      <4>5. erasure' = [erasure EXCEPT ![e] = call]
        BY <4>1, <4>3
      <4>6. QED
        BY <4>4, <4>5
    <3>3. QED
      BY <3>1, <3>2
  <2>5. erasure' \in [Erasures -> Calls] /\ ErasureKnown'
    <3> HIDE DEF Calls
    <3>1. QED
      BY <1>0, <2>4 DEF ErasureKnown
  <2>6. QED
    BY <1>0, <2>1, <2>2, <2>3, <2>5
       DEF IdentityTypeInv, IdentityTypeOK, LocalsKnown, InsertIsWhole
<1>4. QED
  BY <1>1, <1>2, <1>3, IdentitySteps

(* The columns and locals of the identity service keep the kinds of value  *)
(* they have, and only a submission that found or made its person is at    *)
(* work on it, for every number of submissions and erasures.               *)
THEOREM IdentityTypeCorrect == IdentitySpec => []IdentityTypeOK
<1>1. IdentityTypeInv => IdentityTypeOK
  BY DEF IdentityTypeInv
<1>2. QED
  BY <1>1, IdentityTypeInitially, IdentityTypePreserved, PTL DEF IdentitySpec

-----------------------------------------------------------------------------
(* A step that opens no transaction, writes nothing into one and at most   *)
(* clears columns of committed rows keeps the keys apart.                  *)
LEMMA KeysKept ==
    ASSUME IdentityTypeInv, DocumentInv,
           \A o \in Submissions : Open(o)' =>
               Open(o) /\ sub'[o].written = sub[o].written /\ sub'[o].person = sub[o].person,
           \A p \in Persons : persons'[p].hash \in {persons[p].hash, "null"}
    PROVE  DocumentInv'
<1>1. OneDocumentOnePerson'
  BY DEF DocumentInv, OneDocumentOnePerson
<1>2. KeysApart'
  BY DEF DocumentInv, KeysApart
<1>3. KeyIsOwn'
  BY DEF DocumentInv, KeyIsOwn, HashTaken
<1>4. QED
  BY <1>1, <1>2, <1>3 DEF DocumentInv

(* What the unique index is for: submissions of one document that all have *)
(* passed the query of layer 1 reach the index one after the other.        *)
LEMMA DocumentPreserved ==
    ASSUME IdentityTypeInv, DocumentInv, IdentityNext
    PROVE  DocumentInv'
<1>0. /\ persons \in [Persons -> PersonRow \cup {NoRow}] /\ sub \in [Submissions -> Submission]
      /\ LocalsKnown
  BY DEF IdentityTypeInv, IdentityTypeOK
<1>1. ASSUME NEW s \in Submissions, Quiet(s) \/ Enrols(s) \/ Aborts(s) PROVE DocumentInv'
  <2>1. UNCHANGED persons
    BY <1>1 DEF Quiet, Enrols, Aborts
  <2>2. \A o \in Submissions : Open(o)' =>
            Open(o) /\ sub'[o].written = sub[o].written /\ sub'[o].person = sub[o].person
    BY <1>1 DEF Quiet, Enrols, Aborts, SameCall, Open, Active
  <2>3. QED
    BY <2>1, <2>2, KeysKept
<1>2. ASSUME NEW s \in Submissions, Writes(s), StaysTyped(s) PROVE DocumentInv'
  <2>0. /\ UNCHANGED persons
        /\ \A o \in Submissions \ {s} : sub'[o] = sub[o]
        /\ sub'[s].person = sub[s].person
        /\ sub[s].pc \in Active /\ sub[s].person \in Persons /\ sub[s].entity \in PersonRow
        /\ Seen(s) \in PersonRow \cup {NoRow}
    BY <1>0, <1>2, SeenRow DEF Writes, SameCall, Active, LocalsKnown
  <2>1. CASE sub'[s].written = NoRow
    <3>1. \A o \in Submissions : Open(o)' =>
              Open(o) /\ sub'[o].written = sub[o].written /\ sub'[o].person = sub[o].person
      BY <2>0, <2>1 DEF Open
    <3>2. QED
      BY <2>0, <3>1, KeysKept
  <2>2. CASE sub'[s].written # NoRow
    <3> DEFINE h == sub'[s].written.hash
    <3>1. /\ sub'[s].written = Merged(sub[s].entity, Seen(s), sub[s].cols)
          /\ Seen(s) \in PersonRow \/ {"status", "hash", "face", "sbt"} \subseteq sub[s].cols
      BY <1>2, <2>0, <2>2 DEF Writes, IdentityTypeInv, InsertIsWhole
    <3>2. h = IF "hash" \in sub[s].cols THEN sub[s].entity.hash ELSE Seen(s).hash
      BY <2>0, <3>1, MergedRow
    <3>3. \A o \in Submissions \ {s} : Open(o) => sub[o].person # sub[s].person
      BY <1>2 DEF Writes, RowFree
    <3>4. \A o \in Submissions \ {s} : Open(o)' <=> Open(o)
      BY <2>0 DEF Open
    <3>5. CASE "hash" \in sub[s].cols
      <4>1. h # "null" => ~HashTaken(h, sub[s].person)
        BY <1>2, <3>2, <3>5 DEF Writes
      <4>2. h # "null" => \A o \in Submissions \ {s} : Open(o) => sub[o].written.hash # h
        BY <1>2, <3>2, <3>5 DEF Writes, KeyFree
      <4> HIDE DEF h
      <4>3. KeysApart' /\ KeyIsOwn' /\ OneDocumentOnePerson'
        BY <2>0, <3>3, <3>4, <4>1, <4>2
           DEF h, DocumentInv, KeysApart, KeyIsOwn, HashTaken, OneDocumentOnePerson
      <4>4. QED
        BY <4>3 DEF DocumentInv
    <3>6. CASE "hash" \notin sub[s].cols
      <4>1. h = Seen(s).hash
        BY <3>2, <3>6
      <4>2. CASE Open(s)
        <5>1. Seen(s) = sub[s].written
          BY <4>2 DEF Seen
        <5> HIDE DEF h
        <5>2. KeysApart' /\ KeyIsOwn' /\ OneDocumentOnePerson'
          BY <2>0, <3>3, <3>4, <4>1, <4>2, <5>1
             DEF h, DocumentInv, KeysApart, KeyIsOwn, HashTaken, OneDocumentOnePerson
        <5>3. QED
          BY <5>2 DEF DocumentInv
      <4>3. CASE ~Open(s)
        <5>1. h = persons[sub[s].person].hash
          BY <4>1, <4>3 DEF Seen
        <5>2. h # "null" => ~HashTaken(h, sub[s].person)
          BY <2>0, <5>1 DEF HashTaken, DocumentInv, OneDocumentOnePerson
        <5>3. h # "null" => \A o \in Submissions \ {s} : Open(o) => sub[o].written.hash # h
          BY <2>0, <3>3, <5>1 DEF HashTaken, DocumentInv, KeyIsOwn
        <5> HIDE DEF h
        <5>4. KeysApart' /\ KeyIsOwn' /\ OneDocumentOnePerson'
          BY <2>0, <3>3, <3>4, <5>2, <5>3
             DEF h, DocumentInv, KeysApart, KeyIsOwn, HashTaken, OneDocumentOnePerson
        <5>5. QED
          BY <5>4 DEF DocumentInv
      <4>4. QED
        BY <4>2, <4>3
    <3>7. QED
      BY <3>5, <3>6
  <2>3. QED
    BY <2>1, <2>2
<1>3. ASSUME NEW s \in Submissions, Commits(s) PROVE DocumentInv'
  <2>0. /\ \A o \in Submissions \ {s} : sub'[o] = sub[o]
        /\ sub[s].pc \in Active /\ sub'[s].pc \notin Active /\ sub[s].person \in Persons
    BY <1>0, <1>3 DEF Commits, SameCall, Active, LocalsKnown
  <2>1. \A o \in Submissions : Open(o)' =>
            o # s /\ Open(o) /\ sub'[o].written = sub[o].written /\ sub'[o].person = sub[o].person
    BY <2>0 DEF Open
  <2>2. CASE sub[s].written = NoRow
    BY <1>3, <2>1, <2>2, KeysKept DEF Commits
  <2>3. CASE sub[s].written # NoRow
    <3>1. Open(s)
      BY <2>0, <2>3 DEF Open
    <3>2. /\ persons'[sub[s].person] = sub[s].written
          /\ \A q \in Persons \ {sub[s].person} : persons'[q] = persons[q]
      BY <1>0, <1>3, <2>0, <2>3 DEF Commits
    <3>3. OneDocumentOnePerson'
      BY <2>0, <3>1, <3>2 DEF DocumentInv, OneDocumentOnePerson, KeyIsOwn, HashTaken
    <3>4. KeysApart'
      BY <2>1 DEF DocumentInv, KeysApart
    <3>5. KeyIsOwn'
      BY <2>0, <2>1, <3>1, <3>2 DEF DocumentInv, KeysApart, KeyIsOwn, HashTaken
    <3>6. QED
      BY <3>3, <3>4, <3>5 DEF DocumentInv
  <2>4. QED
    BY <2>2, <2>3
<1>4. ASSUME NEW s \in Submissions, NEW p \in Persons, Begins(s, p) PROVE DocumentInv'
  <2>0. UNCHANGED persons /\ \A o \in Submissions \ {s} : sub'[o] = sub[o]
    BY <1>4 DEF Begins, stores
  <2>1. CASE sub'[s].pc = "failed" \/ sub'[s].written = NoRow
    <3>1. \A o \in Submissions : Open(o)' =>
              Open(o) /\ sub'[o].written = sub[o].written /\ sub'[o].person = sub[o].person
      BY <2>0, <2>1 DEF Open, Active
    <3>2. QED
      BY <2>0, <3>1, KeysKept
  <2>2. CASE ~(sub'[s].pc = "failed" \/ sub'[s].written = NoRow)
    <3>1. /\ sub'[s].person = p /\ sub'[s].written.hash = "null"
          /\ \A o \in Submissions : sub[o].person # p
      BY <1>4, <2>2, RowFacts DEF Begins, Fresh
    <3>2. \A o \in Submissions \ {s} : Open(o)' <=> Open(o)
      BY <2>0 DEF Open
    <3>3. KeysApart'
      BY <2>0, <3>1, <3>2 DEF DocumentInv, KeysApart
    <3>4. KeyIsOwn' /\ OneDocumentOnePerson'
      BY <2>0, <3>1, <3>2 DEF DocumentInv, KeyIsOwn, HashTaken, OneDocumentOnePerson
    <3>5. QED
      BY <3>3, <3>4 DEF DocumentInv
  <2>3. QED
    BY <2>1, <2>2
<1>5. ASSUME NEW e \in Erasures, ErasureStep(e) PROVE DocumentInv'
  <2>1. UNCHANGED sub /\ \A p \in Persons : persons'[p] \in {persons[p], NoRow}
    BY <1>0, <1>5 DEF ErasureStep, DeleteUserData, DeleteFaceFromCompreFace, RemovePerson,
                      ErasureDies, stores
  <2>2. \A p \in Persons : persons'[p].hash \in {persons[p].hash, "null"}
    BY <2>1, RowFacts
  <2>3. \A o \in Submissions : Open(o)' =>
            Open(o) /\ sub'[o].written = sub[o].written /\ sub'[o].person = sub[o].person
    BY <2>1 DEF Open
  <2>4. QED
    BY <2>2, <2>3, KeysKept
<1>6. QED
  BY <1>1, <1>2, <1>3, <1>4, <1>5, IdentitySteps DEF SubmissionStep

(* For every number of submissions, also of one document by many accounts  *)
(* at the same time, and of erasures between them: no two persons hold the *)
(* same document.                                                          *)
THEOREM OneDocumentEach == IdentitySpec => []OneDocumentOnePerson
<1>1. IdentityInit => DocumentInv
  <2> SUFFICES ASSUME IdentityInit PROVE DocumentInv
    OBVIOUS
  <2>1. \A p \in Persons : persons[p].hash = "null"
    BY RowFacts DEF IdentityInit
  <2>2. \A s \in Submissions : ~Open(s)
    BY DEF IdentityInit, IdleSubmission, Open, Active
  <2>3. QED
    BY <2>1, <2>2 DEF DocumentInv, OneDocumentOnePerson, KeysApart, KeyIsOwn
<1>2. IdentityTypeInv /\ DocumentInv /\ [IdentityNext]_identityVars => DocumentInv'
  <2>1. DocumentInv /\ UNCHANGED identityVars => DocumentInv'
    BY DEF identityVars, stores, DocumentInv, OneDocumentOnePerson, KeysApart, KeyIsOwn,
           HashTaken, Open
  <2>2. QED
    BY <2>1, DocumentPreserved
<1>3. DocumentInv => OneDocumentOnePerson
  BY DEF DocumentInv
<1>4. QED
  BY <1>1, <1>2, <1>3, IdentityTypeInitially, IdentityTypePreserved, PTL DEF IdentitySpec

-----------------------------------------------------------------------------
(* Only a request to delete them takes faces from CompreFace.              *)
LEMMA FaceKeptStays ==
    ASSUME IdentityTypeInv, IdentityNext, NEW p, NEW f, FaceKept(p, f)
    PROVE  FaceKept(p, f)'
<1>1. ASSUME NEW s \in Submissions, SubmissionStep(s) PROVE faces \subseteq faces' /\ UNCHANGED erasing
  BY <1>1 DEF SubmissionStep, Quiet, Enrols, Writes, Aborts, Commits, Begins, stores
<1>2. ASSUME NEW e \in Erasures, ErasureStep(e) PROVE FaceKept(p, f)'
  BY <1>2 DEF ErasureStep, DeleteUserData, DeleteFaceFromCompreFace, RemovePerson, ErasureDies,
              stores, history, FaceKept
<1>3. QED
  BY <1>1, <1>2, IdentitySteps DEF FaceKept

(* An approval reaches a row, and a stale save brings it back there, only  *)
(* after CompreFace was told the face.                                     *)
LEMMA EnrolPreserved ==
    ASSUME IdentityTypeInv, EnrolInv, IdentityNext
    PROVE  EnrolInv'
<1>0. /\ persons \in [Persons -> PersonRow \cup {NoRow}] /\ sub \in [Submissions -> Submission]
      /\ LocalsKnown /\ approvedAs \in [Persons -> Faces \cup {"null"}]
  BY DEF IdentityTypeInv, IdentityTypeOK
<1>k. \A p \in Persons, f \in Faces \cup {"null"} : FaceKept(p, f) => FaceKept(p, f)'
  BY FaceKeptStays
<1>l. \A s \in Submissions : sub[s].pc \in Active =>
          sub[s].person \in Persons /\ sub[s].face \in Faces /\ sub[s].entity \in PersonRow
  BY <1>0 DEF LocalsKnown
<1>m. Late \subseteq Active
  BY DEF Late, Active
<1> HIDE DEF FaceKept
<1>1. ASSUME NEW s \in Submissions, Quiet(s) PROVE EnrolInv'
  <2>0. /\ \A o \in Submissions : sub'[o].person = sub[o].person /\ sub'[o].face = sub[o].face
        /\ \A o \in Submissions : sub'[o].written = sub[o].written
        /\ \A o \in Submissions : Approving(o)' <=> Approving(o)
        /\ UNCHANGED <<persons, approvedAs>>
    BY <1>1 DEF Quiet, SameCall, Approving
  <2>1. \A o \in Submissions : Open(o)' <=> Open(o)
    BY <1>1 DEF Quiet, SameCall, Open
  <2>2. \A p \in Persons : Approved(p)' => FaceKept(p, approvedAs[p])'
    BY <1>0, <1>k, <2>0 DEF EnrolInv, Approved
  <2>3. \A o \in Submissions : Approving(o)' => FaceKept(sub[o].person, sub[o].face)'
    BY <1>k, <1>l, <1>m, <2>0 DEF EnrolInv, Approving
  <2>4. \A o \in Submissions : Open(o) => sub[o].person \in Persons
    BY <1>l DEF Open
  <2>5. \A o \in Submissions : (Open(o) /\ sub[o].written.status = "APPROVED")' =>
            Approving(o)' \/ FaceKept(sub[o].person, approvedAs[sub[o].person])'
    BY <1>0, <1>k, <2>0, <2>1, <2>4 DEF EnrolInv
  <2>6. QED
    BY <2>2, <2>3, <2>5 DEF EnrolInv
<1>2. ASSUME NEW s \in Submissions,
             \A o \in Submissions \ {s} : sub'[o] = sub[o],
             UNCHANGED <<persons, approvedAs>>,
             Approving(s)' => FaceKept(sub[s].person, sub[s].face)',
             (Open(s) /\ sub[s].written.status = "APPROVED")' =>
                 Approving(s)' \/ FaceKept(sub[s].person, approvedAs[sub[s].person])'
      PROVE  EnrolInv'
  <2>2. \A p \in Persons : Approved(p)' => FaceKept(p, approvedAs[p])'
    BY <1>0, <1>k, <1>2 DEF EnrolInv, Approved
  <2>3. \A o \in Submissions : Approving(o)' => FaceKept(sub[o].person, sub[o].face)'
    BY <1>k, <1>l, <1>m, <1>2 DEF EnrolInv, Approving
  <2>4. \A o \in Submissions : Open(o) => sub[o].person \in Persons
    BY <1>l DEF Open
  <2>5. \A o \in Submissions : (Open(o) /\ sub[o].written.status = "APPROVED")' =>
            Approving(o)' \/ FaceKept(sub[o].person, approvedAs[sub[o].person])'
    <3>1. ASSUME NEW o \in Submissions \ {s}
          PROVE  /\ Open(o)' <=> Open(o)
                 /\ Approving(o)' <=> Approving(o)
                 /\ sub'[o] = sub[o]
      BY <1>2 DEF Open, Approving
    <3>2. QED
      BY <1>0, <1>k, <1>2, <2>4, <3>1 DEF EnrolInv
  <2>6. QED
    BY <2>2, <2>3, <2>5 DEF EnrolInv
<1>3. ASSUME NEW s \in Submissions, Enrols(s) PROVE EnrolInv'
  <2>1. /\ sub'[s].person = sub[s].person /\ sub'[s].face = sub[s].face
        /\ Approving(s)' /\ FaceKept(sub[s].person, sub[s].face)'
        /\ UNCHANGED <<persons, approvedAs>> /\ \A o \in Submissions \ {s} : sub'[o] = sub[o]
    BY <1>3 DEF Enrols, SameCall, Approving, Late, FaceKept
  <2>2. QED
    BY <1>2, <2>1
<1>4. ASSUME NEW s \in Submissions, Writes(s) PROVE EnrolInv'
  <2>0. /\ sub[s].pc \in Active /\ sub'[s].person = sub[s].person /\ sub'[s].face = sub[s].face
        /\ sub[s].person \in Persons /\ sub[s].face \in Faces /\ sub[s].entity \in PersonRow
        /\ Approving(s)' <=> Approving(s)
        /\ UNCHANGED <<persons, approvedAs>> /\ \A o \in Submissions \ {s} : sub'[o] = sub[o]
        /\ Seen(s) \in PersonRow \cup {NoRow}
    BY <1>0, <1>l, <1>4, SeenRow DEF Writes, SameCall, Approving, Late, Active
  <2>1. Approving(s)' => FaceKept(sub[s].person, sub[s].face)'
    BY <1>k, <2>0 DEF EnrolInv
  <2>2. ASSUME (Open(s) /\ sub[s].written.status = "APPROVED")', ~Approving(s)
        PROVE  FaceKept(sub[s].person, approvedAs[sub[s].person])'
    <3>1. /\ sub'[s].written = Merged(sub[s].entity, Seen(s), sub[s].cols)
          /\ Seen(s) \in PersonRow \/ {"status", "hash", "face", "sbt"} \subseteq sub[s].cols
      BY <1>4, <2>0, <2>2 DEF Writes, Open, IdentityTypeInv, InsertIsWhole
    <3>2. sub'[s].written.status = IF "status" \in sub[s].cols THEN sub[s].entity.status
                                                              ELSE Seen(s).status
      BY <2>0, <3>1, MergedRow
    <3>3. sub[s].entity.status # "APPROVED"
      BY <1>4, <2>2 DEF Writes, Approving, Late
    <3>4. Seen(s).status = "APPROVED"
      BY <2>2, <3>2, <3>3
    <3>5. FaceKept(sub[s].person, approvedAs[sub[s].person])
      BY <2>0, <2>2, <3>4 DEF Seen, EnrolInv, Approved
    <3>6. QED
      BY <1>0, <1>k, <2>0, <3>5
  <2>3. QED
    BY <1>2, <2>0, <2>1, <2>2
<1>5. ASSUME NEW s \in Submissions, Aborts(s) PROVE EnrolInv'
  <2>1. /\ UNCHANGED <<persons, approvedAs>> /\ \A o \in Submissions \ {s} : sub'[o] = sub[o]
        /\ ~Approving(s)' /\ ~Open(s)'
    BY <1>5 DEF Aborts, SameCall, Approving, Open, Late, Active
  <2>2. QED
    BY <1>2, <2>1
<1>6. ASSUME NEW s \in Submissions, NEW p \in Persons, Begins(s, p) PROVE EnrolInv'
  <2>1. /\ UNCHANGED <<persons, approvedAs>> /\ \A o \in Submissions \ {s} : sub'[o] = sub[o]
        /\ ~Approving(s)'
    BY <1>6 DEF Begins, stores, Approving, Late
  <2>2. ~(Open(s) /\ sub[s].written.status = "APPROVED")'
    BY <1>6, RowFacts DEF Begins, Open, Active
  <2>3. QED
    BY <1>2, <2>1, <2>2
<1>7. ASSUME NEW s \in Submissions, Commits(s) PROVE EnrolInv'
  <2> DEFINE p == sub[s].person
  <2>0. /\ sub[s].pc \in Active /\ p \in Persons /\ sub[s].face \in Faces
        /\ \A o \in Submissions \ {s} : sub'[o] = sub[o]
        /\ ~Open(s)' /\ ~Approving(s)'
    BY <1>l, <1>7 DEF Commits, SameCall, Active, Late, Open, Approving
  <2>1. ASSUME NEW q \in Persons, FaceKept(q, approvedAs[q])
        PROVE  FaceKept(q, approvedAs[q])'
    <3>1. FaceKept(q, approvedAs'[q])
      BY <1>0, <1>7, <2>0, <2>1 DEF Commits, EnrolInv, Approving, Late
    <3>2. approvedAs'[q] \in Faces \cup {"null"}
      BY <1>0, <1>7, <2>0 DEF Commits
    <3>3. QED
      BY <1>k, <3>1, <3>2
  <2>2. \A q \in Persons : Approved(q)' => FaceKept(q, approvedAs[q])'
    <3>1. SUFFICES ASSUME NEW q \in Persons, Approved(q)'
                   PROVE  FaceKept(q, approvedAs[q])'
      OBVIOUS
    <3>2. CASE q = p /\ sub[s].entity.status = "APPROVED"
      <4>1. approvedAs'[p] = sub[s].face
        BY <1>0, <1>7, <2>0, <3>2 DEF Commits
      <4>2. FaceKept(p, sub[s].face)
        BY <1>7, <3>2 DEF Commits, EnrolInv, Approving, Late
      <4>3. QED
        BY <1>k, <2>0, <3>2, <4>1, <4>2
    <3>3. CASE q = p /\ sub[s].entity.status # "APPROVED" /\ sub[s].written # NoRow
      <4>1. persons'[p] = sub[s].written /\ ~Approving(s)
        BY <1>0, <1>7, <2>0, <3>3 DEF Commits, Approving
      <4>2. Open(s) /\ sub[s].written.status = "APPROVED"
        BY <2>0, <3>1, <3>3, <4>1 DEF Open, Approved
      <4>3. FaceKept(p, approvedAs[p])
        BY <4>1, <4>2 DEF EnrolInv
      <4>4. QED
        BY <2>0, <2>1, <3>3, <4>3
    <3>4. CASE q # p \/ sub[s].written = NoRow
      <4>1. persons'[q] = persons[q]
        BY <1>0, <1>7, <2>0, <3>4 DEF Commits
      <4>2. FaceKept(q, approvedAs[q])
        BY <3>1, <4>1 DEF EnrolInv, Approved
      <4>3. QED
        BY <2>1, <4>2
    <3>5. QED
      BY <3>2, <3>3, <3>4
  <2>3. \A o \in Submissions : Approving(o)' => FaceKept(sub[o].person, sub[o].face)'
    BY <1>k, <1>l, <1>m, <2>0 DEF EnrolInv, Approving
  <2>4. \A o \in Submissions : (Open(o) /\ sub[o].written.status = "APPROVED")' =>
            Approving(o)' \/ FaceKept(sub[o].person, approvedAs[sub[o].person])'
    <3>1. SUFFICES ASSUME NEW o \in Submissions \ {s},
                          Open(o), sub[o].written.status = "APPROVED", ~Approving(o)
                   PROVE  FaceKept(sub[o].person, approvedAs[sub[o].person])'
      BY <2>0 DEF Open, Approving
    <3>2. FaceKept(sub[o].person, approvedAs[sub[o].person]) /\ sub[o].person \in Persons
      BY <1>l, <3>1 DEF EnrolInv, Open
    <3>3. PICK q \in Persons : q = sub[o].person
      BY <3>2
    <3>4. FaceKept(q, approvedAs[q])'
      BY <2>1, <3>2, <3>3
    <3>5. QED
      BY <2>0, <3>3, <3>4
  <2>5. QED
    BY <2>2, <2>3, <2>4 DEF EnrolInv
<1>8. ASSUME NEW e \in Erasures, ErasureStep(e) PROVE EnrolInv'
  <2>1. /\ UNCHANGED <<sub, approvedAs>>
        /\ \A p \in Persons : persons'[p] \in {persons[p], NoRow}
    BY <1>0, <1>8 DEF ErasureStep, DeleteUserData, DeleteFaceFromCompreFace, RemovePerson,
                      ErasureDies, stores, history
  <2>2. \A p \in Persons : Approved(p)' => FaceKept(p, approvedAs[p])'
    BY <1>0, <1>k, <2>1, RowFacts DEF EnrolInv, Approved
  <2>3. \A o \in Submissions : Approving(o)' => FaceKept(sub[o].person, sub[o].face)'
    BY <1>k, <1>l, <1>m, <2>1 DEF EnrolInv, Approving
  <2>4. \A o \in Submissions : (Open(o) /\ sub[o].written.status = "APPROVED")' =>
            Approving(o)' \/ FaceKept(sub[o].person, approvedAs[sub[o].person])'
    BY <1>0, <1>k, <1>l, <2>1 DEF EnrolInv, Approving, Open
  <2>5. QED
    BY <2>2, <2>3, <2>4 DEF EnrolInv
<1>9. QED
  BY <1>1, <1>3, <1>4, <1>5, <1>6, <1>7, <1>8, IdentitySteps DEF SubmissionStep

(* For every number of submissions, stale saves and rollbacks: an approved *)
(* person's face is registered, or its deletion was asked for.             *)
THEOREM ApprovedStayEnrolled == IdentitySpec => []ApprovedIsEnrolled
<1>1. IdentityInit => EnrolInv
  <2> SUFFICES ASSUME IdentityInit PROVE EnrolInv
    OBVIOUS
  <2>1. \A p \in Persons : ~Approved(p)
    BY RowFacts DEF IdentityInit, Approved
  <2>2. \A s \in Submissions : ~Open(s) /\ ~Approving(s)
    BY DEF IdentityInit, IdleSubmission, Open, Approving, Active, Late
  <2>3. QED
    BY <2>1, <2>2 DEF EnrolInv
<1>2. IdentityTypeInv /\ EnrolInv /\ [IdentityNext]_identityVars => EnrolInv'
  <2>1. EnrolInv /\ UNCHANGED identityVars => EnrolInv'
    BY DEF identityVars, stores, history, EnrolInv, Approved, Approving, FaceKept, Open
  <2>2. QED
    BY <2>1, EnrolPreserved
<1>3. EnrolInv => ApprovedIsEnrolled
  BY DEF EnrolInv, ApprovedIsEnrolled, FaceKept
<1>4. QED
  BY <1>1, <1>2, <1>3, IdentityTypeInitially, IdentityTypePreserved, PTL DEF IdentitySpec

-----------------------------------------------------------------------------
(* A search that finds nothing and the registration after it are two calls *)
(* of CompreFace: a search that misses what comes between them is known.   *)
LEMMA SearchPreserved ==
    ASSUME IdentityTypeInv, SearchInv, IdentityNext
    PROVE  SearchInv'
<1>0. LocalsKnown
  BY DEF IdentityTypeInv
<1>1. ASSUME faces' \subseteq faces, missed \subseteq missed',
             \A o \in Submissions : sub'[o].pc = "add" => sub[o].pc = "add" /\ sub'[o].face = sub[o].face
      PROVE  SearchInv'
  BY <1>1 DEF SearchInv, KnownFace
<1>2. ASSUME NEW s \in Submissions, Quiet(s) PROVE SearchInv'
  <2>1. CASE sub'[s].pc # "add"
    <3>1. /\ faces' \subseteq faces /\ missed \subseteq missed'
          /\ \A o \in Submissions : sub'[o].pc = "add" =>
                sub[o].pc = "add" /\ sub'[o].face = sub[o].face
      BY <1>2, <2>1 DEF Quiet, SameCall
    <3>2. QED
      BY <1>1, <3>1
  <2>2. CASE sub'[s].pc = "add"
    <3>1. /\ KnownFace(sub[s].face) => sub[s].face \in missed'
          /\ sub'[s].face = sub[s].face
          /\ \A o \in Submissions \ {s} : sub'[o] = sub[o]
          /\ \A o \in Submissions \ {s} :
                sub[o].pc = "add" /\ sub[o].face = sub[s].face => sub[s].face \in missed'
          /\ missed \subseteq missed' /\ UNCHANGED faces
      BY <1>2, <2>2 DEF Quiet, SameCall
    <3>2. \A p, q \in Persons, f \in Faces :
              p # q /\ <<p, f>> \in faces' /\ <<q, f>> \in faces' => f \in missed'
      BY <3>1 DEF SearchInv
    <3>3. \A o \in Submissions : sub'[o].pc = "add" /\ KnownFace(sub[o].face)' => sub'[o].face \in missed'
      BY <3>1 DEF SearchInv, KnownFace
    <3>4. \A t, o \in Submissions :
              t # o /\ sub'[t].pc = "add" /\ sub'[o].pc = "add" /\ sub'[t].face = sub'[o].face
                 => sub'[t].face \in missed'
      BY <3>1 DEF SearchInv
    <3>5. QED
      BY <3>2, <3>3, <3>4 DEF SearchInv
  <2>3. QED
    BY <2>1, <2>2
<1>3. ASSUME NEW s \in Submissions, Enrols(s) PROVE SearchInv'
  <2>1. /\ sub[s].pc = "add" /\ sub'[s].pc # "add"
        /\ sub[s].person \in Persons /\ sub[s].face \in Faces
        /\ \A o \in Submissions \ {s} : sub'[o] = sub[o]
        /\ faces' = faces \cup {<<sub[s].person, sub[s].face>>} /\ UNCHANGED missed
    BY <1>0, <1>3 DEF Enrols, SameCall, LocalsKnown, Active
  <2>2. \A p, q \in Persons, f \in Faces :
            p # q /\ <<p, f>> \in faces' /\ <<q, f>> \in faces' => f \in missed'
    BY <2>1 DEF SearchInv, KnownFace
  <2>3. \A o \in Submissions : sub'[o].pc = "add" /\ KnownFace(sub[o].face)' => sub'[o].face \in missed'
    BY <2>1 DEF SearchInv, KnownFace
  <2>4. \A t, o \in Submissions :
            t # o /\ sub'[t].pc = "add" /\ sub'[o].pc = "add" /\ sub'[t].face = sub'[o].face
               => sub'[t].face \in missed'
    BY <2>1 DEF SearchInv
  <2>5. QED
    BY <2>2, <2>3, <2>4 DEF SearchInv
<1>4. ASSUME NEW s \in Submissions,
             Writes(s) \/ Aborts(s) \/ Commits(s) \/ (\E p \in Persons : Begins(s, p))
      PROVE  SearchInv'
  <2>1. /\ sub'[s].pc # "add" /\ \A o \in Submissions \ {s} : sub'[o] = sub[o]
        /\ UNCHANGED <<faces, missed>>
    BY <1>4 DEF Writes, Aborts, Commits, Begins, SameCall, stores
  <2>2. QED
    BY <1>1, <2>1
<1>5. ASSUME NEW e \in Erasures, ErasureStep(e) PROVE SearchInv'
  <2>1. faces' \subseteq faces /\ UNCHANGED <<sub, missed>>
    BY <1>5 DEF ErasureStep, DeleteUserData, DeleteFaceFromCompreFace, RemovePerson, ErasureDies,
                stores, history
  <2>2. QED
    BY <1>1, <2>1
<1>6. QED
  BY <1>2, <1>3, <1>4, <1>5, IdentitySteps DEF SubmissionStep

(* For every number of accounts and submissions: when two persons are      *)
(* approved with one face, a search for it overlapped another search and   *)
(* its registration or was answered 400, or one of the two was asked to be *)
(* erased; layer 4 lets no other second account through.                   *)
THEOREM SharedFacesWereMissed == IdentitySpec => []OneAccountPerFaceUnlessMissed
<1>1. IdentityInit => SearchInv
  BY DEF IdentityInit, SearchInv, KnownFace, IdleSubmission
<1>2. IdentityTypeInv /\ SearchInv /\ [IdentityNext]_identityVars => SearchInv'
  <2>1. SearchInv /\ UNCHANGED identityVars => SearchInv'
    BY DEF identityVars, stores, history, SearchInv, KnownFace
  <2>2. QED
    BY <2>1, SearchPreserved
<1>3. IdentityTypeInv /\ SearchInv /\ ApprovedIsEnrolled => OneAccountPerFaceUnlessMissed
  <2>1. SUFFICES ASSUME IdentityTypeInv, SearchInv, ApprovedIsEnrolled,
                        NEW p \in Persons, NEW q \in Persons, p # q, Approved(p), Approved(q),
                        approvedAs[p] = approvedAs[q], p \notin erasing, q \notin erasing
                 PROVE  approvedAs[p] \in missed
    BY DEF OneAccountPerFaceUnlessMissed
  <2>2. <<p, approvedAs[p]>> \in faces /\ <<q, approvedAs[p]>> \in faces
    BY <2>1 DEF ApprovedIsEnrolled
  <2>3. approvedAs[p] \in Faces
    BY <2>1, <2>2 DEF IdentityTypeInv, IdentityTypeOK
  <2>4. QED
    BY <2>1, <2>2, <2>3 DEF SearchInv
<1>4. QED
  BY <1>1, <1>2, <1>3, ApprovedStayEnrolled, IdentityTypeInitially, IdentityTypePreserved, PTL
     DEF IdentitySpec

-----------------------------------------------------------------------------
(* Steps of a submission that has begun: nobody else's locals change.      *)
OngoingStep(s) == Quiet(s) \/ Enrols(s) \/ Writes(s) \/ Aborts(s) \/ Commits(s)

(* They leave the erasures alone and forget no history.                    *)
LEMMA OngoingFacts ==
    ASSUME IdentityTypeInv, NEW s \in Submissions, OngoingStep(s)
    PROVE  /\ sub[s].pc \in Active /\ sub'[s].pc # "idle"
           /\ sub[s].person \in Persons /\ sub[s].entity \in PersonRow /\ sub[s].face \in Faces
           /\ SameCall(s)
           /\ UNCHANGED <<erasure, contended, erasing>>
           /\ strays \subseteq strays'
<1>1. /\ sub[s].pc \in Active /\ sub'[s].pc # "idle" /\ SameCall(s)
      /\ UNCHANGED <<erasure, contended, erasing>> /\ strays \subseteq strays'
  BY DEF OngoingStep, Quiet, Enrols, Writes, Aborts, Commits, Active
<1>2. QED
  BY <1>1 DEF IdentityTypeInv, LocalsKnown

(* A step of an erasure that has begun.                                    *)
LaterErasureStep(e) == DeleteFaceFromCompreFace(e) \/ RemovePerson(e) \/ ErasureDies(e)

(* It changes its own position only, and takes faces but adds none.        *)
LEMMA LaterErasureFacts ==
    ASSUME IdentityTypeInv, NEW e \in Erasures, LaterErasureStep(e)
    PROVE  /\ erasure[e].pc \in Erasing /\ erasure[e].person \in Persons
           /\ erasure'[e].person = erasure[e].person
           /\ erasure'[e].pc \in {"remove", "deleted", "failed"}
           /\ erasure'[e].pc = "remove" => erasure[e].pc = "erase"
           /\ \A x \in Erasures \ {e} : erasure'[x] = erasure[x]
           /\ UNCHANGED <<sub, contended>> /\ strays \subseteq strays'
           /\ faces' \subseteq faces
<1>1. /\ erasure \in [Erasures -> [pc : {"idle", "erase", "remove", "deleted", "failed"},
                                   person : Persons \cup {"none"}]]
      /\ ErasureKnown
  BY DEF IdentityTypeInv, IdentityTypeOK
<1>2. /\ erasure[e].pc \in Erasing
      /\ \E pc \in {"remove", "deleted", "failed"} :
            /\ erasure' = [erasure EXCEPT ![e].pc = pc]
            /\ pc = "remove" => erasure[e].pc = "erase"
      /\ UNCHANGED <<sub, contended>> /\ strays \subseteq strays' /\ faces' \subseteq faces
  BY DEF LaterErasureStep, DeleteFaceFromCompreFace, RemovePerson, ErasureDies, Erasing, stores,
         history
<1>3. PICK pc \in {"remove", "deleted", "failed"} :
          erasure' = [erasure EXCEPT ![e].pc = pc] /\ (pc = "remove" => erasure[e].pc = "erase")
  BY <1>2
<1>4. /\ erasure'[e].pc = pc /\ erasure'[e].person = erasure[e].person
      /\ \A x \in Erasures \ {e} : erasure'[x] = erasure[x]
  BY <1>1, <1>3
<1>5. erasure[e].person \in Persons
  BY <1>1, <1>2 DEF ErasureKnown, Erasing
<1>6. QED
  BY <1>2, <1>3, <1>4, <1>5

(* findOne of an erasure.                                                  *)
LEMMA FindFacts ==
    ASSUME IdentityTypeInv, NEW e \in Erasures, NEW p \in Persons, DeleteUserData(e, p)
    PROVE  /\ erasure[e].pc = "idle" /\ erasure'[e].person = p
           /\ erasure'[e].pc \in {"failed", "erase", "remove"}
           /\ erasure'[e].pc # "failed" => persons[p] # NoRow
           /\ erasure'[e].pc = "remove" => persons[p].face # "subject"
           /\ \A x \in Erasures \ {e} : erasure'[x] = erasure[x]
           /\ contended' = contended \cup ({p} \cap Busy)
           /\ UNCHANGED <<persons, faces, sub, strays>>
<1>1. erasure \in [Erasures -> [pc : {"idle", "erase", "remove", "deleted", "failed"},
                                person : Persons \cup {"none"}]]
  BY DEF IdentityTypeInv, IdentityTypeOK
<1>2. PICK call : call = [pc |-> IF persons[p] = NoRow THEN "failed"
                                 ELSE IF persons[p].face = "subject" THEN "erase" ELSE "remove",
                          person |-> p]
  OBVIOUS
<1>3. /\ erasure' = [erasure EXCEPT ![e] = call] /\ erasure[e].pc = "idle"
      /\ contended' = contended \cup ({p} \cap Busy)
      /\ UNCHANGED <<persons, faces, sub, strays>>
  BY <1>2 DEF DeleteUserData, stores
<1>4. erasure'[e] = call /\ \A x \in Erasures \ {e} : erasure'[x] = erasure[x]
  BY <1>1, <1>3
<1>5. QED
  BY <1>2, <1>3, <1>4

(* Every step of the service, by the call that takes it.                   *)
LEMMA CallSteps ==
    ASSUME IdentityTypeInv, IdentityNext
    PROVE  \/ \E s \in Submissions : OngoingStep(s)
           \/ \E s \in Submissions, p \in Persons : Begins(s, p)
           \/ \E e \in Erasures, p \in Persons : DeleteUserData(e, p)
           \/ \E e \in Erasures : LaterErasureStep(e)
  BY IdentitySteps DEF SubmissionStep, ErasureStep, OngoingStep, LaterErasureStep

(* A call that begins marks its person as contended if another is at work. *)
LEMMA AlonePreserved ==
    ASSUME IdentityTypeInv, AloneInv, IdentityNext
    PROVE  AloneInv'
<1>1. ASSUME contended \subseteq contended',
             \A o \in Submissions : sub'[o].pc \in Active =>
                 sub[o].pc \in Active /\ sub'[o].person = sub[o].person,
             \A x \in Erasures : erasure'[x].pc \in Erasing =>
                 erasure[x].pc \in Erasing /\ erasure'[x].person = erasure[x].person
      PROVE  AloneInv'
  BY <1>1 DEF AloneInv
<1>2. ASSUME NEW s \in Submissions, OngoingStep(s) PROVE AloneInv'
  <2>1. sub[s].pc \in Active /\ SameCall(s) /\ UNCHANGED <<erasure, contended>>
    BY <1>2, OngoingFacts
  <2>2. QED
    BY <1>1, <2>1 DEF SameCall
<1>3. ASSUME NEW e \in Erasures, LaterErasureStep(e) PROVE AloneInv'
  <2>1. /\ erasure[e].pc \in Erasing /\ erasure'[e].person = erasure[e].person
        /\ \A x \in Erasures \ {e} : erasure'[x] = erasure[x]
        /\ UNCHANGED <<sub, contended>>
    BY <1>3, LaterErasureFacts
  <2>2. QED
    BY <1>1, <2>1
<1>4. ASSUME NEW s \in Submissions, NEW p \in Persons, Begins(s, p) PROVE AloneInv'
  <2>1. /\ \A o \in Submissions \ {s} : sub'[o] = sub[o]
        /\ sub'[s].pc \in Active => sub'[s].person = p
        /\ contended' = contended \cup ({p} \cap Busy) /\ UNCHANGED erasure
    BY <1>4 DEF Begins, Active
  <2>2. /\ \A o \in Submissions : sub[o].pc \in Active /\ sub[o].person = p => p \in contended'
        /\ \A x \in Erasures : erasure[x].pc \in Erasing /\ erasure[x].person = p => p \in contended'
    BY <2>1 DEF Busy, Erasing
  <2>3. QED
    BY <2>1, <2>2 DEF AloneInv
<1>5. ASSUME NEW e \in Erasures, NEW p \in Persons, DeleteUserData(e, p) PROVE AloneInv'
  <2>1. /\ erasure'[e].person = p /\ \A x \in Erasures \ {e} : erasure'[x] = erasure[x]
        /\ contended' = contended \cup ({p} \cap Busy) /\ UNCHANGED sub
    BY <1>5, FindFacts
  <2>2. /\ \A o \in Submissions : sub[o].pc \in Active /\ sub[o].person = p => p \in contended'
        /\ \A x \in Erasures : erasure[x].pc \in Erasing /\ erasure[x].person = p => p \in contended'
    BY <2>1 DEF Busy, Erasing
  <2>3. QED
    BY <2>1, <2>2 DEF AloneInv
<1>6. QED
  BY <1>2, <1>3, <1>4, <1>5, CallSteps

(* A person that has a row, or had one to erase, was submitted: its id is  *)
(* never given out again.                                                  *)
LEMMA SubmittedPreserved ==
    ASSUME IdentityTypeInv, SubmittedInv, IdentityNext
    PROVE  SubmittedInv'
<1>0. persons \in [Persons -> PersonRow \cup {NoRow}]
  BY DEF IdentityTypeInv, IdentityTypeOK
<1>1. ASSUME NEW s \in Submissions, OngoingStep(s) PROVE SubmittedInv'
  <2>1. /\ sub[s].pc \in Active /\ sub[s].pc # "idle" /\ sub'[s].pc # "idle"
        /\ SameCall(s) /\ UNCHANGED erasure
    BY <1>1, OngoingFacts DEF Active
  <2>2. \A p : EverSubmitted(p) => EverSubmitted(p)'
    BY <2>1 DEF EverSubmitted, SameCall
  <2>3. EverSubmitted(sub[s].person)
    BY <2>1 DEF EverSubmitted
  <2>4. \A p \in Persons : persons'[p] = persons[p] \/ p = sub[s].person
    BY <1>0, <1>1 DEF OngoingStep, Quiet, Enrols, Writes, Aborts, Commits
  <2> HIDE DEF EverSubmitted
  <2>5. \A p \in Persons : persons'[p] # NoRow => EverSubmitted(p)'
    BY <2>2, <2>3, <2>4 DEF SubmittedInv
  <2>6. \A e \in Erasures : erasure'[e].pc \in {"erase", "remove", "deleted"} =>
            EverSubmitted(erasure[e].person)'
    BY <2>1, <2>2 DEF SubmittedInv
  <2>7. QED
    BY <2>5, <2>6 DEF SubmittedInv
<1>2. ASSUME NEW s \in Submissions, NEW p \in Persons, Begins(s, p) PROVE SubmittedInv'
  <2>1. /\ sub[s].pc = "idle" /\ \A o \in Submissions \ {s} : sub'[o] = sub[o]
        /\ UNCHANGED <<persons, erasure>>
    BY <1>2 DEF Begins, stores
  <2>2. \A q : EverSubmitted(q) => EverSubmitted(q)'
    BY <2>1 DEF EverSubmitted
  <2> HIDE DEF EverSubmitted
  <2>3. QED
    BY <2>1, <2>2 DEF SubmittedInv
<1>3. ASSUME NEW e \in Erasures, NEW p \in Persons, DeleteUserData(e, p) PROVE SubmittedInv'
  <2>1. /\ erasure'[e].person = p /\ \A x \in Erasures \ {e} : erasure'[x] = erasure[x]
        /\ erasure'[e].pc \in {"erase", "remove", "deleted"} => persons[p] # NoRow
        /\ UNCHANGED <<persons, sub>>
    BY <1>3, FindFacts
  <2>2. \A q : EverSubmitted(q) => EverSubmitted(q)'
    BY <2>1 DEF EverSubmitted
  <2> HIDE DEF EverSubmitted
  <2>3. QED
    BY <2>1, <2>2 DEF SubmittedInv
<1>4. ASSUME NEW e \in Erasures, LaterErasureStep(e) PROVE SubmittedInv'
  <2>1. /\ erasure[e].pc \in {"erase", "remove", "deleted"} /\ erasure'[e].person = erasure[e].person
        /\ \A x \in Erasures \ {e} : erasure'[x] = erasure[x]
        /\ UNCHANGED sub
    BY <1>4, LaterErasureFacts DEF Erasing
  <2>2. \A q \in Persons : persons'[q] \in {persons[q], NoRow}
    BY <1>0, <1>4 DEF LaterErasureStep, DeleteFaceFromCompreFace, RemovePerson, ErasureDies, stores
  <2>3. \A q : EverSubmitted(q) => EverSubmitted(q)'
    BY <2>1 DEF EverSubmitted
  <2> HIDE DEF EverSubmitted
  <2>4. QED
    BY <2>1, <2>2, <2>3 DEF SubmittedInv
<1>5. QED
  BY <1>1, <1>2, <1>3, <1>4, CallSteps

IsCurrent(s) ==
    sub[s].pc \in Active /\ sub[s].person \notin contended =>
        /\ Seen(s) # NoRow
        /\ sub[s].pc = "update" => sub[s].cols = Differing(sub[s].entity, Seen(s))
        /\ sub[s].pc \in {"wallet", "mint", "commit"} => sub[s].written = sub[s].entity
        /\ persons[sub[s].person].face = "subject" => sub[s].entity.face = "subject"
        /\ sub[s].entity.face = "subject" => Approving(s) \/ persons[sub[s].person].face = "subject"

(* Alone on its person, a submission keeps seeing the row it loaded.       *)
LEMMA CurrentPreserved ==
    ASSUME IdentityTypeInv, AloneInv, CurrentInv, IdentityNext
    PROVE  CurrentInv'
<1>0. /\ persons \in [Persons -> PersonRow \cup {NoRow}] /\ sub \in [Submissions -> Submission]
      /\ LocalsKnown
  BY DEF IdentityTypeInv, IdentityTypeOK
<1>c. \A s \in Submissions : IsCurrent(s)
  BY DEF CurrentInv, IsCurrent
<1>d. SUFFICES \A s \in Submissions : IsCurrent(s)'
  BY DEF CurrentInv, IsCurrent
<1>1. ASSUME NEW o \in Submissions, sub'[o] = sub[o], contended \subseteq contended',
             sub[o].pc \in Active /\ sub[o].person \notin contended =>
                 persons'[sub[o].person] = persons[sub[o].person]
      PROVE  IsCurrent(o)'
  BY <1>c, <1>1 DEF IsCurrent, Seen, Open, Approving
<1>2. ASSUME NEW s \in Submissions, Quiet(s) PROVE \A o \in Submissions : IsCurrent(o)'
  <2>1. /\ SameCall(s) /\ UNCHANGED <<persons, contended>>
    BY <1>2 DEF Quiet
  <2>2. \A o \in Submissions \ {s} : IsCurrent(o)'
    BY <1>1, <2>1 DEF SameCall
  <2>3. Seen(s)' = Seen(s)
    BY <1>2 DEF Quiet, SameCall, Seen, Open
  <2>4. IsCurrent(s)'
    BY <1>c, <1>2, <2>3 DEF Quiet, SameCall, IsCurrent
  <2>5. QED
    BY <2>2, <2>4
<1>3. ASSUME NEW s \in Submissions, Enrols(s) PROVE \A o \in Submissions : IsCurrent(o)'
  <2>1. /\ SameCall(s) /\ UNCHANGED <<persons, contended>>
    BY <1>3 DEF Enrols
  <2>2. \A o \in Submissions \ {s} : IsCurrent(o)'
    BY <1>1, <2>1 DEF SameCall
  <2>3. Seen(s)' = Seen(s) /\ sub[s].pc \in Active
    BY <1>3 DEF Enrols, SameCall, Seen, Open, Active
  <2>4. IsCurrent(s)'
    BY <1>c, <1>3, <2>3 DEF Enrols, SameCall, IsCurrent, Approving, Late
  <2>5. QED
    BY <2>2, <2>4
<1>4. ASSUME NEW s \in Submissions, Writes(s) PROVE \A o \in Submissions : IsCurrent(o)'
  <2>1. /\ SameCall(s) /\ UNCHANGED <<persons, contended>> /\ sub[s].pc = "update"
        /\ sub'[s].pc \in {"wallet", "commit"} /\ sub'[s].entity = sub[s].entity
    BY <1>4 DEF Writes
  <2>2. \A o \in Submissions \ {s} : IsCurrent(o)'
    BY <1>1, <2>1 DEF SameCall
  <2>3. sub[s].pc \in Active /\ sub'[s].pc \in Active /\ sub[s].entity \in PersonRow
    BY <1>0, <2>1 DEF LocalsKnown, Active
  <2>4. ASSUME sub[s].person \notin contended
        PROVE  sub'[s].written = sub[s].entity
    <3>1. /\ Seen(s) # NoRow /\ sub[s].cols = Differing(sub[s].entity, Seen(s))
          /\ Seen(s) \in PersonRow
      BY <1>c, <2>1, <2>3, <2>4, SeenRow DEF IsCurrent
    <3>2. sub'[s].written = Merged(sub[s].entity, Seen(s), sub[s].cols)
      BY <1>4, <3>1 DEF Writes
    <3>3. QED
      BY <2>3, <3>1, <3>2, MergedRow
  <2>5. ASSUME sub[s].person \notin contended
        PROVE  Seen(s)' # NoRow
    BY <2>3, <2>4, <2>5, RowFacts DEF Seen, Open
  <2>6. IsCurrent(s)'
    BY <1>c, <2>1, <2>3, <2>4, <2>5 DEF SameCall, IsCurrent, Approving, Late
  <2>7. QED
    BY <2>2, <2>6
<1>5. ASSUME NEW s \in Submissions, Aborts(s) PROVE \A o \in Submissions : IsCurrent(o)'
  <2>1. /\ SameCall(s) /\ UNCHANGED <<persons, contended>> /\ sub'[s].pc \notin Active
    BY <1>5 DEF Aborts, Active
  <2>2. \A o \in Submissions \ {s} : IsCurrent(o)'
    BY <1>1, <2>1 DEF SameCall
  <2>3. QED
    BY <2>1, <2>2 DEF IsCurrent
<1>6. ASSUME NEW s \in Submissions, Commits(s) PROVE \A o \in Submissions : IsCurrent(o)'
  <2>1. /\ SameCall(s) /\ UNCHANGED contended /\ sub'[s].pc \notin Active /\ sub[s].pc \in Active
        /\ sub[s].person \in Persons
        /\ \A q \in Persons \ {sub[s].person} : persons'[q] = persons[q]
    BY <1>0, <1>6 DEF Commits, Active, LocalsKnown
  <2>2. ASSUME NEW o \in Submissions \ {s} PROVE IsCurrent(o)'
    <3>1. ASSUME sub[o].pc \in Active, sub[o].person \notin contended
          PROVE  persons'[sub[o].person] = persons[sub[o].person]
      <4>1. sub[o].person \in Persons /\ sub[o].person # sub[s].person
        BY <1>0, <2>1, <3>1 DEF AloneInv, LocalsKnown
      <4>2. QED
        BY <2>1, <4>1
    <3>2. QED
      BY <1>1, <2>1, <3>1 DEF SameCall
  <2>3. QED
    BY <2>1, <2>2 DEF IsCurrent
<1>7. ASSUME NEW s \in Submissions, NEW p \in Persons, Begins(s, p)
      PROVE  \A o \in Submissions : IsCurrent(o)'
  <2>1. /\ \A o \in Submissions \ {s} : sub'[o] = sub[o]
        /\ contended \subseteq contended' /\ UNCHANGED persons
    BY <1>7 DEF Begins, stores
  <2>2. \A o \in Submissions \ {s} : IsCurrent(o)'
    BY <1>1, <2>1
  <2>3. IsCurrent(s)'
    <3>1. CASE sub'[s].pc = "failed"
      BY <3>1 DEF IsCurrent, Active
    <3>2. CASE p \in Fresh /\ sub'[s].entity = NewRow /\ sub'[s].written = NewRow
               /\ sub'[s].pc = "document" /\ sub'[s].person = p
      <4>1. persons'[p].face = "null" /\ NewRow # NoRow
        BY <2>1, <3>2, RowFacts DEF Fresh
      <4>3. NewRow.face # "subject"
        BY DEF NewRow
      <4>2. QED
        BY <3>2, <4>1, <4>3 DEF IsCurrent, Seen, Open, Active
    <3>3. CASE persons[p] # NoRow /\ sub'[s].entity = persons[p] /\ sub'[s].written = NoRow
               /\ sub'[s].pc = "document" /\ sub'[s].person = p
      BY <2>1, <3>3 DEF IsCurrent, Seen, Open, Active
    <3>4. QED
      BY <1>7, <3>1, <3>2, <3>3 DEF Begins
  <2>4. QED
    BY <2>2, <2>3
<1>8. ASSUME NEW e \in Erasures, NEW p \in Persons, DeleteUserData(e, p)
      PROVE  \A o \in Submissions : IsCurrent(o)'
  <2>1. UNCHANGED <<sub, persons>> /\ contended \subseteq contended'
    BY <1>8, FindFacts
  <2>2. QED
    BY <1>1, <2>1
<1>9. ASSUME NEW e \in Erasures, LaterErasureStep(e) PROVE \A o \in Submissions : IsCurrent(o)'
  <2>1. /\ UNCHANGED <<sub, contended>> /\ erasure[e].pc \in Erasing /\ erasure[e].person \in Persons
    BY <1>9, LaterErasureFacts
  <2>2. \A q \in Persons \ {erasure[e].person} : persons'[q] = persons[q]
    BY <1>0, <1>9, <2>1
       DEF LaterErasureStep, DeleteFaceFromCompreFace, RemovePerson, ErasureDies, stores
  <2>3. ASSUME NEW o \in Submissions PROVE IsCurrent(o)'
    <3>1. ASSUME sub[o].pc \in Active, sub[o].person \notin contended
          PROVE  persons'[sub[o].person] = persons[sub[o].person]
      <4>1. sub[o].person \in Persons /\ sub[o].person # erasure[e].person
        BY <1>0, <2>1, <3>1 DEF AloneInv, LocalsKnown
      <4>2. QED
        BY <2>2, <4>1
    <3>2. QED
      BY <1>1, <2>1, <3>1
  <2>4. QED
    BY <2>3
<1>10. QED
  BY <1>2, <1>3, <1>4, <1>5, <1>6, <1>7, <1>8, <1>9, CallSteps DEF OngoingStep

(* What makes deleteUserData call CompreFace: a row tells of a face, or    *)
(* the submission that added it is still at work and will tell.            *)
Told(p) ==
    \/ persons[p].face = "subject"
    \/ \E s \in Submissions : /\ sub[s].pc \in Active /\ sub[s].person = p
                              /\ sub[s].entity.face = "subject"

HasFace(p) == \E f \in Faces : <<p, f>> \in faces

(* A face that CompreFace keeps is told of.                                *)
LEMMA FaceIsToldPreserved ==
    ASSUME IdentityTypeInv, AloneInv, CurrentInv, FaceIsTold, ErasedInv, IdentityNext
    PROVE  FaceIsTold'
<1>0. /\ persons \in [Persons -> PersonRow \cup {NoRow}] /\ sub \in [Submissions -> Submission]
  BY DEF IdentityTypeInv, IdentityTypeOK
<1>c. \A p \in Persons \ (contended \cup strays) : HasFace(p) => Told(p)
  BY DEF FaceIsTold, HasFace, Told
<1>d. SUFFICES ASSUME NEW p \in Persons, p \notin contended', p \notin strays', HasFace(p)'
               PROVE  Told(p)'
  BY DEF FaceIsTold, HasFace, Told
<1>1. ASSUME NEW s \in Submissions, Enrols(s) PROVE Told(p)'
  <2>1. CASE p = sub[s].person
    <3>1. /\ sub'[s].pc \in Active /\ sub'[s].person = p /\ sub'[s].entity.face = "subject"
      BY <1>1, <2>1 DEF Enrols, SameCall, Active
    <3>2. QED
      BY <3>1 DEF Told
  <2>2. CASE p # sub[s].person
    <3>1. HasFace(p) /\ p \notin contended /\ p \notin strays
      BY <1>1, <1>d, <2>2 DEF Enrols, HasFace
    <3>2. Told(p) /\ UNCHANGED persons /\ \A o \in Submissions \ {s} : sub'[o] = sub[o]
      BY <1>1, <1>c, <3>1 DEF Enrols, SameCall
    <3>3. QED
      BY <2>2, <3>2 DEF Told
  <2>3. QED
    BY <2>1, <2>2
<1>2. ASSUME NEW s \in Submissions, Quiet(s) \/ Writes(s) \/ Aborts(s) PROVE Told(p)'
  <2>1. /\ UNCHANGED <<persons, faces, contended>> /\ strays \subseteq strays'
        /\ \A o \in Submissions \ {s} : sub'[o] = sub[o]
        /\ sub'[s].person = sub[s].person
    BY <1>2 DEF Quiet, Writes, Aborts, SameCall
  <2>2. Told(p)
    BY <1>c, <1>d, <2>1 DEF HasFace
  <2>3. \/ sub'[s].pc \in Active /\ sub'[s].entity.face = sub[s].entity.face
        \/ Approving(s) /\ persons[sub[s].person].face # "subject" => sub[s].person \in strays'
    BY <1>2 DEF Quiet, Writes, Aborts, Active
  <2>5. sub[s].pc \in Active /\ sub[s].person = p /\ sub[s].entity.face = "subject" =>
            Approving(s) \/ persons[p].face = "subject"
    BY <1>d, <2>1 DEF CurrentInv
  <2>4. QED
    BY <1>d, <2>1, <2>2, <2>3, <2>5 DEF Told
<1>3. ASSUME NEW s \in Submissions, Commits(s) PROVE Told(p)'
  <2>1. /\ UNCHANGED <<faces, contended, strays>> /\ sub[s].pc = "commit" /\ sub[s].pc \in Active
        /\ \A o \in Submissions \ {s} : sub'[o] = sub[o]
        /\ sub[s].person \in Persons /\ sub[s].entity \in PersonRow
    BY <1>3, OngoingFacts DEF OngoingStep, Commits, SameCall
  <2>2. Told(p) /\ p \notin contended
    BY <1>c, <1>d, <2>1 DEF HasFace
  <2>3. CASE p = sub[s].person
    <3>1. /\ sub[s].written = sub[s].entity
          /\ persons[p].face = "subject" => sub[s].entity.face = "subject"
      BY <2>1, <2>2, <2>3 DEF CurrentInv
    <3>2. sub[s].entity.face = "subject"
      BY <2>1, <2>2, <2>3, <3>1 DEF Told, AloneInv
    <3>3. persons'[p] = sub[s].entity
      BY <1>0, <1>3, <2>1, <2>3, <3>1, RowFacts DEF Commits
    <3>4. QED
      BY <3>2, <3>3 DEF Told
  <2>4. CASE p # sub[s].person
    <3>1. persons'[p] = persons[p]
      BY <1>0, <1>3, <2>1, <2>4 DEF Commits
    <3>2. QED
      BY <2>1, <2>2, <2>4, <3>1 DEF Told
  <2>5. QED
    BY <2>3, <2>4
<1>4. ASSUME NEW s \in Submissions, NEW q \in Persons, Begins(s, q) PROVE Told(p)'
  <2>1. /\ UNCHANGED <<persons, faces, strays>> /\ contended \subseteq contended'
        /\ \A o \in Submissions \ {s} : sub'[o] = sub[o]
        /\ sub[s].pc \notin Active
    BY <1>4 DEF Begins, stores, Active
  <2>2. Told(p)
    BY <1>c, <1>d, <2>1 DEF HasFace
  <2>3. QED
    BY <2>1, <2>2 DEF Told
<1>5. ASSUME NEW e \in Erasures, NEW q \in Persons, DeleteUserData(e, q) PROVE Told(p)'
  <2>1. UNCHANGED <<persons, faces, sub, strays>> /\ contended \subseteq contended'
    BY <1>5, FindFacts
  <2>2. Told(p)
    BY <1>c, <1>d, <2>1 DEF HasFace
  <2>3. QED
    BY <2>1, <2>2 DEF Told
<1>6. ASSUME NEW e \in Erasures, LaterErasureStep(e) PROVE Told(p)'
  <2>1. /\ UNCHANGED <<sub, contended>> /\ strays \subseteq strays' /\ faces' \subseteq faces
        /\ erasure[e].person \in Persons
    BY <1>6, LaterErasureFacts
  <2>2. HasFace(p) /\ Told(p) /\ p \notin contended \cup strays
    BY <1>c, <1>d, <2>1 DEF HasFace
  <2>3. CASE RemovePerson(e) /\ p = erasure[e].person
    BY <2>2, <2>3 DEF RemovePerson, ErasedInv, HasFace
  <2>4. CASE ~(RemovePerson(e) /\ p = erasure[e].person)
    <3>1. persons'[p] = persons[p]
      BY <1>0, <1>6, <2>1, <2>4
         DEF LaterErasureStep, DeleteFaceFromCompreFace, RemovePerson, ErasureDies, stores
    <3>2. QED
      BY <2>1, <2>2, <3>1 DEF Told
  <2>5. QED
    BY <2>3, <2>4
<1>7. QED
  BY <1>1, <1>2, <1>3, <1>4, <1>5, <1>6, CallSteps DEF OngoingStep

Gone(p) == \A f \in Faces : <<p, f>> \notin faces

IsErased(e) ==
    erasure[e].person \notin contended \cup strays =>
        /\ erasure[e].pc \in {"remove", "deleted"} => Gone(erasure[e].person)
        /\ erasure[e].pc = "deleted" =>
              /\ persons[erasure[e].person] = NoRow
              /\ \A s \in Submissions : sub[s].pc \in Active => sub[s].person # erasure[e].person

(* Alone on its person, an erasure finds the row that tells of the face,   *)
(* and nobody can bring either back.                                       *)
LEMMA ErasedPreserved ==
    ASSUME IdentityTypeInv, AloneInv, SubmittedInv, FaceIsTold, ErasedInv, IdentityNext
    PROVE  ErasedInv'
<1>0. /\ persons \in [Persons -> PersonRow \cup {NoRow}] /\ ErasureKnown
  BY DEF IdentityTypeInv, IdentityTypeOK
<1>c. \A e \in Erasures : IsErased(e)
  BY DEF ErasedInv, IsErased, Gone
<1>d. SUFFICES \A e \in Erasures : IsErased(e)'
  BY DEF ErasedInv, IsErased, Gone
<1>1. ASSUME NEW s \in Submissions, OngoingStep(s), NEW e \in Erasures PROVE IsErased(e)'
  <2>1. /\ sub[s].pc \in Active /\ SameCall(s) /\ UNCHANGED <<erasure, contended>>
        /\ strays \subseteq strays' /\ sub[s].person \in Persons
    BY <1>1, OngoingFacts
  <2>2. CASE erasure[e].pc \in {"remove", "deleted"} /\ erasure[e].person \notin contended \cup strays
    <3>1. sub[s].person # erasure[e].person
      BY <1>c, <2>1, <2>2 DEF IsErased, AloneInv, Erasing
    <3>2. /\ erasure[e].person \in Persons
          /\ Gone(erasure[e].person)
          /\ erasure[e].pc = "deleted" => persons[erasure[e].person] = NoRow
      BY <1>0, <1>c, <2>2 DEF IsErased, ErasureKnown
    <3>3. faces' \subseteq faces \cup {<<sub[s].person, sub[s].face>>}
      BY <1>1 DEF OngoingStep, Quiet, Enrols, Writes, Aborts, Commits
    <3>4. Gone(erasure[e].person)'
      BY <2>1, <3>1, <3>2, <3>3 DEF Gone
    <3>5. persons'[erasure[e].person] = persons[erasure[e].person]
      BY <1>0, <1>1, <3>1, <3>2 DEF OngoingStep, Quiet, Enrols, Writes, Aborts, Commits
    <3>6. erasure[e].pc = "deleted" =>
              \A o \in Submissions : sub'[o].pc \in Active => sub'[o].person # erasure[e].person
      BY <1>c, <2>1, <2>2, <3>1 DEF IsErased, SameCall
    <3>7. QED
      BY <2>1, <3>2, <3>4, <3>5, <3>6 DEF IsErased
  <2>3. CASE ~(erasure[e].pc \in {"remove", "deleted"} /\ erasure[e].person \notin contended \cup strays)
    BY <2>1, <2>3 DEF IsErased
  <2>4. QED
    BY <2>2, <2>3
<1>2. ASSUME NEW s \in Submissions, NEW p \in Persons, Begins(s, p), NEW e \in Erasures
      PROVE  IsErased(e)'
  <2>1. /\ UNCHANGED <<persons, faces, erasure, strays>> /\ contended \subseteq contended'
        /\ \A o \in Submissions \ {s} : sub'[o] = sub[o]
        /\ sub'[s].pc \in Active => sub'[s].person = p /\ (p \in Fresh \/ persons[p] # NoRow)
    BY <1>2 DEF Begins, stores, Active
  <2>2. ASSUME erasure[e].pc = "deleted", persons[erasure[e].person] = NoRow, sub'[s].pc \in Active
        PROVE  sub'[s].person # erasure[e].person
    BY <2>1, <2>2 DEF SubmittedInv, EverSubmitted, Fresh
  <2>3. QED
    BY <1>c, <2>1, <2>2 DEF IsErased, Gone
<1>3. ASSUME NEW x \in Erasures, NEW p \in Persons, DeleteUserData(x, p), NEW e \in Erasures
      PROVE  IsErased(e)'
  <2>1. /\ erasure'[x].person = p /\ erasure'[x].pc \in {"failed", "erase", "remove"}
        /\ erasure'[x].pc = "remove" => persons[p].face # "subject"
        /\ \A y \in Erasures \ {x} : erasure'[y] = erasure[y]
        /\ contended' = contended \cup ({p} \cap Busy)
        /\ UNCHANGED <<persons, faces, sub, strays>>
    BY <1>3, FindFacts
  <2>2. CASE e = x
    <3>1. ASSUME erasure'[x].pc = "remove", p \notin contended', p \notin strays'
          PROVE  Gone(p)
      <4>1. p \notin Busy /\ p \notin contended \cup strays /\ persons[p].face # "subject"
        BY <2>1, <3>1
      <4>2. \A s \in Submissions : ~(sub[s].pc \in Active /\ sub[s].person = p)
        BY <4>1 DEF Busy
      <4>3. QED
        BY <4>1, <4>2 DEF FaceIsTold, Gone
    <3>2. QED
      BY <2>1, <2>2, <3>1 DEF IsErased, Gone
  <2>3. CASE e # x
    BY <1>c, <2>1, <2>3 DEF IsErased, Gone
  <2>4. QED
    BY <2>2, <2>3
<1>4. ASSUME NEW x \in Erasures, LaterErasureStep(x), NEW e \in Erasures PROVE IsErased(e)'
  <2>1. /\ erasure[x].pc \in Erasing /\ erasure[x].person \in Persons
        /\ erasure'[x].person = erasure[x].person
        /\ erasure'[x].pc \in {"remove", "deleted", "failed"}
        /\ erasure'[x].pc = "remove" => erasure[x].pc = "erase"
        /\ \A y \in Erasures \ {x} : erasure'[y] = erasure[y]
        /\ UNCHANGED <<sub, contended>> /\ strays \subseteq strays' /\ faces' \subseteq faces
    BY <1>4, LaterErasureFacts
  <2>2. CASE e # x
    <3>1. erasure[e].pc = "deleted" => erasure[e].person \in Persons
      BY <1>0 DEF ErasureKnown
    <3>2. \A q \in Persons : persons'[q] \in {persons[q], NoRow}
      BY <1>0, <1>4
         DEF LaterErasureStep, DeleteFaceFromCompreFace, RemovePerson, ErasureDies, stores
    <3>3. QED
      BY <1>c, <2>1, <2>2, <3>1, <3>2 DEF IsErased, Gone
  <2>3. CASE e = x
    <3>1. CASE DeleteFaceFromCompreFace(x)
      <4>1. erasure'[x].pc # "deleted"
        BY <1>0, <3>1, <2>1 DEF DeleteFaceFromCompreFace, IdentityTypeInv, IdentityTypeOK
      <4>2. Gone(erasure[x].person)' \/ erasure[x].person \in strays'
        BY <3>1 DEF DeleteFaceFromCompreFace, Gone
      <4>3. QED
        BY <2>1, <2>3, <4>1, <4>2 DEF IsErased, Gone
    <3>2. CASE RemovePerson(x)
      <4>1. /\ persons'[erasure[x].person] = NoRow /\ erasure[x].pc = "remove"
            /\ UNCHANGED <<faces, strays>>
        BY <1>0, <2>1, <3>2 DEF RemovePerson, history
      <4>2. ASSUME erasure[x].person \notin contended, NEW s \in Submissions, sub[s].pc \in Active
            PROVE  sub[s].person # erasure[x].person
        BY <2>1, <4>2 DEF AloneInv
      <4>3. QED
        BY <1>c, <2>1, <2>3, <4>1, <4>2 DEF IsErased, Gone
    <3>3. CASE ErasureDies(x)
      <4>1. erasure'[x].pc = "failed"
        BY <3>3, <2>1 DEF ErasureDies, IdentityTypeInv, IdentityTypeOK
      <4>2. QED
        BY <2>3, <4>1 DEF IsErased
    <3>4. QED
      BY <1>4, <3>1, <3>2, <3>3 DEF LaterErasureStep
  <2>4. QED
    BY <2>2, <2>3
<1>5. QED
  BY <1>1, <1>2, <1>3, <1>4, CallSteps

(* For every number of submissions and erasures: deleteUserData that says  *)
(* "deleted" leaves neither row nor face of a person on whom no other call *)
(* was at work, unless CompreFace refused or a submission, failing after   *)
(* it had registered a face itself, had left the person's row without it.  *)
THEOREM ErasuresLeaveNothing == IdentitySpec => []ErasureLeavesNothing
<1>1. IdentityInit => ErasureInv
  <2> SUFFICES ASSUME IdentityInit PROVE ErasureInv
    OBVIOUS
  <2>1. /\ \A s \in Submissions : sub[s].pc = "idle" /\ sub[s].pc \notin Active
        /\ \A e \in Erasures : erasure[e].pc = "idle"
        /\ \A p \in Persons : persons[p] = NoRow
        /\ faces = {}
    BY DEF IdentityInit, IdleSubmission, Active
  <2>2. AloneInv /\ CurrentInv
    BY <2>1 DEF AloneInv, CurrentInv, Erasing
  <2>3. SubmittedInv /\ FaceIsTold /\ ErasedInv
    BY <2>1 DEF SubmittedInv, FaceIsTold, ErasedInv
  <2>4. QED
    BY <2>2, <2>3 DEF ErasureInv
<1>2. IdentityTypeInv /\ ErasureInv /\ [IdentityNext]_identityVars => ErasureInv'
  <2>1. CASE UNCHANGED identityVars
    <3>1. ErasureInv => ErasureInv'
      BY <2>1 DEF identityVars, stores, history, ErasureInv, AloneInv, SubmittedInv, EverSubmitted,
                  CurrentInv, Seen, Open, Approving, FaceIsTold, ErasedInv
    <3>2. QED
      BY <3>1
  <2>2. CASE IdentityNext
    BY <2>2, AlonePreserved, SubmittedPreserved, CurrentPreserved, FaceIsToldPreserved,
       ErasedPreserved DEF ErasureInv
  <2>3. QED
    BY <2>1, <2>2
<1>3. ErasureInv => ErasureLeavesNothing
  BY DEF ErasureInv, ErasedInv, ErasureLeavesNothing, Erased
<1>4. QED
  BY <1>1, <1>2, <1>3, IdentityTypeInitially, IdentityTypePreserved, PTL DEF IdentitySpec
=============================================================================
