------------------------------ MODULE Documents ------------------------------
(***************************************************************************)
(* The document vault: DocumentsService over the database and the bucket.   *)
(*                                                                          *)
(* An upload has three awaits: a look-up, the object put into the bucket,   *)
(* a transaction with the rows.  It may fail at either of the last two, and *)
(* other requests run in between.  An object stands for its storage key, a  *)
(* version's row is found by its key, and file names, types and sizes are   *)
(* those of the version a document calls current.                           *)
(***************************************************************************)
EXTENDS Naturals, FiniteSets

CONSTANTS
  Companies,
  Folders,     \* bound: folders
  Documents,   \* bound: documents
  MaxUploads,  \* bound: uploads begun
  Slots,       \* bound: uploads in flight at a time
  None

ASSUME NoneAssumption == None \notin Companies \cup Folders \cup Documents
ASSUME MaxUploadsAssumption == MaxUploads \in Nat

VARIABLES
  folder,     \* folders
  document,   \* documents
  versions,   \* document_versions
  objects,    \* the keys in the bucket; StorageService.delete has no caller
  issued,     \* how many keys buildStorageKey has made
  call,       \* the uploads in flight
  links,      \* history: the links signed, and for which company
  overlapped  \* history: documents that got two new versions at a time

rows == <<folder, document, versions>>
vars == <<rows, objects, issued, call, links, overlapped>>

-----------------------------------------------------------------------------
Keys == 1..MaxUploads
NoRow == [company |-> None]
NoCall == [at |-> "idle"]
Idle(s) == call[s] = NoCall
VersionsOf(d) == {v \in versions : v.document = d}

Init ==
  /\ folder = [f \in Folders |-> NoRow]
  /\ document = [d \in Documents |-> NoRow]
  /\ versions = {} /\ objects = {} /\ issued = 0
  /\ call = [s \in Slots |-> NoCall]
  /\ links = {} /\ overlapped = {}

\* mutant: the row is found, whoever's it is
AnyRow(row, c) == row # NoRow

OfCompany(row, c) == row.company = c

(* Checked only if the client names one. *)
MayUse(f, c) == f # None => OfCompany(folder[f], c)

(* A folder never changes, so looking it up and using it is one step. *)
CreateFolder(c, f, parent) ==
  /\ folder[f] = NoRow
  /\ parent # None => folder[parent] # NoRow
  /\ MayUse(parent, c)
  /\ folder' = [folder EXCEPT ![f] = [company |-> c, parent |-> parent]]
  /\ UNCHANGED <<document, versions, objects, issued, call, links, overlapped>>

-----------------------------------------------------------------------------
(* buildStorageKey: a key nobody has. *)
Begin(s, k) ==
  /\ Idle(s) /\ issued < MaxUploads
  /\ issued' = issued + 1
  /\ call' = [call EXCEPT ![s] = k]
  /\ UNCHANGED <<rows, objects, links>>

(* The look-up of uploadDocument; of a file, and a folder or none *)
UploadDocument(s, c, f) ==
  /\ f # None => folder[f] # NoRow
  /\ MayUse(f, c)
  /\ Begin(s, [at |-> "put", key |-> issued + 1, company |-> c, folder |-> f,
               document |-> None, seen |-> 0])
  /\ UNCHANGED overlapped

(* ... and of uploadNewVersion: it also takes the count of versions along. *)
UploadNewVersion(s, c, d) ==
  /\ document[d] # NoRow /\ OfCompany(document[d], c)
  /\ Begin(s, [at |-> "put", key |-> issued + 1, company |-> c, folder |-> None,
               document |-> d, seen |-> Cardinality(VersionsOf(d))])
  /\ overlapped' = overlapped \cup {e \in {d} : \E t \in Slots : ~Idle(t) /\ call[t].document = e}

\* mutant: the upload is not awaited, so it may still fail
PutUnawaited(s) ==
  /\ ~Idle(s) /\ call[s].at = "put"
  /\ objects' \in {objects, objects \cup {call[s].key}}
  /\ call' = [call EXCEPT ![s].at = "write"]
  /\ UNCHANGED <<rows, issued, links, overlapped>>

(* StorageService.upload *)
Put(s) ==
  /\ ~Idle(s) /\ call[s].at = "put"
  /\ objects' = objects \cup {call[s].key}
  /\ call' = [call EXCEPT ![s].at = "write"]
  /\ UNCHANGED <<rows, issued, links, overlapped>>

Writing(s) == ~Idle(s) /\ call[s].at = "write"
Returns(s) == call' = [call EXCEPT ![s] = NoCall]

CreateDocument(s) ==
  /\ Writing(s) /\ call[s].document = None
  /\ \E d \in Documents :
       /\ document[d] = NoRow
       /\ document' = [document EXCEPT ![d] =
            [company |-> call[s].company, folder |-> call[s].folder,
             key |-> call[s].key, current |-> call[s].key]]
       /\ versions' = versions \cup {[document |-> d, key |-> call[s].key, number |-> 1]}
  /\ Returns(s)
  /\ UNCHANGED <<folder, objects, issued, links, overlapped>>

\* mutant: a document's versions counted from nought
FromNought(k) == k.seen
NextVersionNumber(k) == k.seen + 1

\* mutant: a new version takes the place of the one before
Latest(s) == versions \ {v \in VersionsOf(call[s].document) : v.number = call[s].seen}
Retained(s) == versions

(* The document's own key stays that of its first version. *)
CreateVersion(s) ==
  /\ Writing(s) /\ call[s].document # None
  /\ versions' = Retained(s) \cup {[document |-> call[s].document, key |-> call[s].key,
                                    number |-> NextVersionNumber(call[s])]}
  /\ document' = [document EXCEPT ![call[s].document].current = call[s].key]
  /\ Returns(s)
  /\ UNCHANGED <<folder, objects, issued, links, overlapped>>

GiveUp(s) == [call EXCEPT ![s] = NoCall]

(* The bucket or the database fails, or the server stops. *)
Fail(s) ==
  /\ ~Idle(s)
  /\ call' = GiveUp(s)
  /\ UNCHANGED <<rows, objects, issued, links, overlapped>>

(* getDownloadUrl; listDocuments, listFolders and listVersions only read. *)
GetDownloadUrl(c, d) ==
  /\ document[d] # NoRow /\ OfCompany(document[d], c)
  /\ links' = links \cup {[company |-> c, document |-> d, key |-> document[d].key]}
  /\ UNCHANGED <<rows, objects, issued, call, overlapped>>

Next ==
  \/ \E c \in Companies, f \in Folders, p \in Folders \cup {None} : CreateFolder(c, f, p)
  \/ \E s \in Slots :
       \/ \E c \in Companies, f \in Folders \cup {None} : UploadDocument(s, c, f)
       \/ \E c \in Companies, d \in Documents : UploadNewVersion(s, c, d)
       \/ Put(s) \/ CreateDocument(s) \/ CreateVersion(s) \/ Fail(s)
  \/ \E c \in Companies, d \in Documents : GetDownloadUrl(c, d)

Spec == Init /\ [][Next]_vars

-----------------------------------------------------------------------------
(* Properties *)

Folder == [company : Companies, parent : Folders \cup {None}] \cup {NoRow}
Document == [company : Companies, folder : Folders \cup {None}, key : Keys, current : Keys]
            \cup {NoRow}
Call == [at : {"put", "write"}, key : Keys, company : Companies, folder : Folders \cup {None},
         document : Documents \cup {None}, seen : Nat] \cup {NoCall}

TypeOK ==
  /\ folder \in [Folders -> Folder]
  /\ document \in [Documents -> Document]
  /\ versions \subseteq [document : Documents, key : Keys, number : Nat] /\ IsFiniteSet(versions)
  /\ objects \subseteq Keys
  /\ issued \in 0..MaxUploads
  /\ call \in [Slots -> Call]
  /\ links \subseteq [company : Companies, document : Documents, key : Keys]
  /\ overlapped \subseteq Documents

(* The bucket is written before the rows, and by another system: however
   uploads fail and overlap, every version in the database is in the bucket.
   Which of them a link is given for is another matter: getDownloadUrl signs
   the document's own key, the first version's. *)
VersionsAreStored == \A v \in versions : v.key \in objects

(* Every company has its own tree: whoever names whichever folder or document,
   nothing is filed under another company's folder, and no link leads to an
   upload that is not of a document of the company it was signed for. *)
CompaniesStayApart ==
  /\ \A f \in Folders : folder[f] # NoRow /\ folder[f].parent # None
       => folder[folder[f].parent].company = folder[f].company
  /\ \A d \in Documents : document[d] # NoRow /\ document[d].folder # None
       => folder[document[d].folder].company = document[d].company
  /\ \A l \in links : document[l.document].company = l.company
                      /\ \E v \in VersionsOf(l.document) : v.key = l.key

(* A new version's number is the count its upload read at the start, plus one.
   As long as no two uploads of new versions of a document overlap, failures
   notwithstanding, its versions are numbered 1, 2, ... in order and the last
   is the current one; when they do, two versions share a number. *)
NumberedUnlessOverlapped ==
  \A d \in Documents \ overlapped : document[d] # NoRow =>
    /\ {v.number : v \in VersionsOf(d)} = 1..Cardinality(VersionsOf(d))
    /\ \E v \in VersionsOf(d) : v.key = document[d].current
                                /\ v.number = Cardinality(VersionsOf(d))

(* The uploads of a document that are kept: listed, and in the bucket. *)
Kept == [d \in Documents |-> {k \in objects : \E v \in versions : v.document = d /\ v.key = k}]
TheArchive == INSTANCE Archive WITH kept <- Kept

(* No operation, failure or overlap ever loses an upload that was kept, and
   none hands it to another document: the vault implements module Archive. *)
NeverLost == TheArchive!Spec

(* What the proofs of VersionsAreStored, CompaniesStayApart and NeverLost rest on:
   a key belongs to one upload, in flight or done; what an upload in flight is
   about to write is in the bucket, and where it will be filed was looked up; a
   document's own key is that of one of its versions. *)
KeysAreOwn ==
  /\ \A v \in versions : v.key <= issued
  /\ \A v, w \in versions : v.key = w.key => v = w
  /\ \A s \in Slots : ~Idle(s) =>
       /\ call[s].key <= issued
       /\ \A v \in versions : v.key # call[s].key
       /\ \A t \in Slots : ~Idle(t) /\ call[t].key = call[s].key => t = s

WritesWhatIsStored == \A s \in Slots : Writing(s) => call[s].key \in objects

FiledWhereLookedUp ==
  \A s \in Slots : ~Idle(s) =>
    /\ call[s].folder # None => folder[call[s].folder].company = call[s].company
    /\ call[s].document # None => document[call[s].document] # NoRow

OwnKeyIsListed ==
  \A d \in Documents : document[d] # NoRow =>
    \E v \in versions : v.document = d /\ v.key = document[d].key

IInv ==
  /\ TypeOK /\ VersionsAreStored /\ CompaniesStayApart
  /\ KeysAreOwn /\ WritesWhatIsStored /\ FiledWhereLookedUp /\ OwnKeyIsListed

(* What the proof of NumberedUnlessOverlapped rests on besides: only a document
   with a row has versions, and the count an upload of a new version took along
   is still right, for no other is about that document. *)
VersionsHaveRows == \A v \in versions : document[v.document] # NoRow

CountsStand ==
  \A s \in Slots : ~Idle(s) /\ call[s].document \in Documents \ overlapped =>
    /\ call[s].seen = Cardinality(VersionsOf(call[s].document))
    /\ \A t \in Slots : ~Idle(t) /\ call[t].document = call[s].document => t = s

Numbering == NumberedUnlessOverlapped /\ VersionsHaveRows /\ CountsStand
=============================================================================
