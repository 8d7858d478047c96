---------------------------- MODULE ContentProofs ---------------------------
(* Proofs about the document vault and the tax assistant, for any number of  *)
(* companies, documents, uploads, conversations, turns and calls at a time.  *)
EXTENDS MCContent, FiniteSetTheorems, SequenceTheorems, TLAPS

(***************************************************************************)
(* The vault: what is listed is in the bucket, companies stay apart, and no *)
(* upload is ever lost.  The invariant is kept action by action; the        *)
(* refinement of module Archive then looks at what each of them does to     *)
(* Kept.                                                                    *)
(***************************************************************************)

LEMMA Initially == Init => IInv
<1>. SUFFICES ASSUME Init
              PROVE  IInv
  OBVIOUS
<1>1. TypeOK
  BY FS_EmptySet, MaxUploadsAssumption
  DEF Init, TypeOK, Folder, Document, Call, Keys
<1>2. VersionsAreStored /\ KeysAreOwn /\ WritesWhatIsStored /\ FiledWhereLookedUp
  BY DEF Init, VersionsAreStored, KeysAreOwn, WritesWhatIsStored, FiledWhereLookedUp,
         Writing, Idle, NoCall
<1>3. CompaniesStayApart /\ OwnKeyIsListed
  BY DEF Init, CompaniesStayApart, OwnKeyIsListed, NoRow
<1>. QED
  BY <1>1, <1>2, <1>3 DEF IInv

(* A call in flight has the fields of an upload. *)
LEMMA InFlight ==
  ASSUME TypeOK, NEW s \in Slots, ~Idle(s)
  PROVE  /\ call[s] \in [at : {"put", "write"}, key : Keys, company : Companies,
                         folder : Folders \cup {None}, document : Documents \cup {None}, seen : Nat]
         /\ call[s].key \in Keys /\ call[s].company \in Companies
         /\ call[s].folder \in Folders \cup {None} /\ call[s].document \in Documents \cup {None}
         /\ call[s].seen \in Nat /\ call[s].at \in {"put", "write"}
<1>1. call[s] \in Call /\ call[s] # NoCall
  BY DEF TypeOK, Idle
<1>2. call[s] \in [at : {"put", "write"}, key : Keys, company : Companies,
                   folder : Folders \cup {None}, document : Documents \cup {None}, seen : Nat]
  BY <1>1 DEF Call
<1>. QED
  BY <1>2

LEMMA CreateFolderKeeps ==
  ASSUME IInv, NEW c \in Companies, NEW f \in Folders, NEW p \in Folders \cup {None},
         CreateFolder(c, f, p)
  PROVE  IInv'
<1>1. TypeOK'
  BY DEF CreateFolder, IInv, TypeOK, Folder
<1>2. VersionsAreStored' /\ KeysAreOwn' /\ WritesWhatIsStored' /\ OwnKeyIsListed'
  BY DEF CreateFolder, IInv, VersionsAreStored, KeysAreOwn, WritesWhatIsStored, OwnKeyIsListed,
         Writing, Idle
<1>3. \A g \in Folders : folder[g] # NoRow => folder'[g] = folder[g]
  BY DEF CreateFolder, IInv, TypeOK
<1>4. \A g \in Folders, d \in Companies : folder[g].company = d => folder[g] # NoRow
  BY NoneAssumption DEF NoRow
<1>5. FiledWhereLookedUp'
  <2>. SUFFICES ASSUME NEW s \in Slots, ~Idle(s)
                PROVE  /\ call[s].folder # None => folder'[call[s].folder].company = call[s].company
                       /\ call[s].document # None => document[call[s].document] # NoRow
    BY DEF CreateFolder, FiledWhereLookedUp, Idle
  <2>. QED
    BY InFlight, <1>3, <1>4 DEF IInv, FiledWhereLookedUp
<1>6. CompaniesStayApart'
  <2>1. \A g \in Folders : folder'[g] # NoRow /\ folder'[g].parent # None
           => folder'[folder'[g].parent].company = folder'[g].company
    <3>. SUFFICES ASSUME NEW g \in Folders, folder'[g] # NoRow, folder'[g].parent # None
                  PROVE  folder'[folder'[g].parent].company = folder'[g].company
      OBVIOUS
    <3>1. CASE g = f
      <4>1. folder'[g] = [company |-> c, parent |-> p] /\ p \in Folders /\ folder[p].company = c
        BY <3>1 DEF CreateFolder, IInv, TypeOK, MayUse, OfCompany
      <4>. QED
        BY <4>1, <1>3, <1>4
    <3>2. CASE g # f
      <4>1. folder'[g] = folder[g] /\ folder[g].parent \in Folders /\ folder[g].company \in Companies
        BY <3>2 DEF CreateFolder, IInv, TypeOK, Folder
      <4>. QED
        BY <4>1, <1>3, <1>4 DEF IInv, CompaniesStayApart
    <3>. QED
      BY <3>1, <3>2
  <2>2. \A d \in Documents : document[d] # NoRow /\ document[d].folder # None
           => folder'[document[d].folder].company = document[d].company
    <3>. SUFFICES ASSUME NEW d \in Documents, document[d] # NoRow, document[d].folder # None
                  PROVE  folder'[document[d].folder].company = document[d].company
      OBVIOUS
    <3>1. document[d].folder \in Folders /\ document[d].company \in Companies
      BY DEF IInv, TypeOK, Document
    <3>. QED
      BY <3>1, <1>3, <1>4 DEF IInv, CompaniesStayApart
  <2>. QED
    BY <2>1, <2>2 DEF CreateFolder, IInv, CompaniesStayApart, VersionsOf
<1>. QED
  BY <1>1, <1>2, <1>5, <1>6 DEF IInv

(* An upload begins: its key is the next one, and what it names was looked up. *)
LEMMA BeginKeeps ==
  ASSUME IInv, NEW s \in Slots, NEW k \in Call, Begin(s, k), k # NoCall, k.at = "put",
         k.key = issued + 1,
         k.folder # None => folder[k.folder].company = k.company,
         k.document # None => document[k.document] # NoRow,
         overlapped' \subseteq Documents
  PROVE  IInv'
<1>1. issued \in Nat /\ issued < MaxUploads
  BY MaxUploadsAssumption DEF IInv, TypeOK, Begin
<1>2. call' = [call EXCEPT ![s] = k] /\ issued' = issued + 1 /\ Idle(s)
  BY DEF Begin
<1>3. TypeOK'
  <2>1. issued' \in 0..MaxUploads
    BY <1>1, <1>2, MaxUploadsAssumption
  <2>. QED
    BY <1>2, <2>1 DEF Begin, IInv, TypeOK, rows
<1>4. /\ call'[s] = k
      /\ \A t \in Slots : t # s => call'[t] = call[t]
  BY <1>2 DEF IInv, TypeOK
<1>5. VersionsAreStored' /\ CompaniesStayApart' /\ OwnKeyIsListed'
  BY DEF Begin, rows, IInv, VersionsAreStored, CompaniesStayApart, OwnKeyIsListed, VersionsOf
<1>6. WritesWhatIsStored' /\ FiledWhereLookedUp'
  BY <1>4 DEF Begin, rows, IInv, WritesWhatIsStored, FiledWhereLookedUp, Writing, Idle
<1>7. KeysAreOwn'
  <2>1. /\ \A v \in versions : v.key \in Nat /\ v.key <= issued
        /\ \A t \in Slots : ~Idle(t) => call[t].key \in Nat /\ call[t].key <= issued
    BY InFlight DEF IInv, TypeOK, KeysAreOwn, Keys
  <2>2. versions' = versions
    BY DEF Begin, rows
  <2>3. \A v \in versions : v.key <= issued' /\ \A w \in versions : v.key = w.key => v = w
    BY <1>1, <1>2, <2>1 DEF IInv, KeysAreOwn
  <2>4. ASSUME NEW t \in Slots, ~Idle(t)'
        PROVE  /\ call'[t].key <= issued'
               /\ \A v \in versions : v.key # call'[t].key
               /\ \A u \in Slots : ~Idle(u)' /\ call'[u].key = call'[t].key => u = t
    <3>1. \A u \in Slots : ~Idle(u)' /\ u # s => ~Idle(u) /\ call'[u] = call[u]
      BY <1>4 DEF Idle
    <3>2. CASE t = s
      BY <1>1, <1>2, <1>4, <2>1, <3>1, <3>2
    <3>3. CASE t # s
      <4>1. ~Idle(t) /\ call'[t] = call[t] /\ call[t].key \in Nat /\ call[t].key <= issued
        BY <1>4, <2>1, <3>1, <3>3, <2>4
      <4>2. \A v \in versions : v.key # call[t].key
        BY <4>1 DEF IInv, KeysAreOwn
      <4>3. call'[s].key # call[t].key
        BY <1>1, <1>4, <4>1
      <4>4. \A u \in Slots : u # s /\ ~Idle(u)' /\ call'[u].key = call[t].key => u = t
        BY <3>1, <4>1 DEF IInv, KeysAreOwn
      <4>. QED
        BY <1>1, <1>2, <4>1, <4>2, <4>3, <4>4
    <3>. QED
      BY <3>2, <3>3
  <2>. QED
    BY <2>2, <2>3, <2>4 DEF KeysAreOwn
<1>. QED
  BY <1>3, <1>5, <1>6, <1>7 DEF IInv

LEMMA UploadDocumentKeeps ==
  ASSUME IInv, NEW s \in Slots, NEW c \in Companies, NEW f \in Folders \cup {None},
         UploadDocument(s, c, f)
  PROVE  IInv'
<1> DEFINE k == [at |-> "put", key |-> issued + 1, company |-> c, folder |-> f,
                 document |-> None, seen |-> 0]
<1>1. Begin(s, k) /\ overlapped' = overlapped
  BY DEF UploadDocument
<1>2. issued + 1 \in Keys
  BY <1>1, MaxUploadsAssumption DEF Begin, IInv, TypeOK, Keys
<1>3. k \in Call /\ k # NoCall
  BY <1>2 DEF Call, NoCall
<1>4. k.folder # None => folder[k.folder].company = k.company
  BY DEF UploadDocument, MayUse, OfCompany
<1>5. overlapped' \subseteq Documents
  BY <1>1 DEF IInv, TypeOK
<1>6. k.at = "put" /\ k.key = issued + 1 /\ k.document = None
  OBVIOUS
<1>. HIDE DEF k
<1>. QED
  BY <1>1, <1>3, <1>4, <1>5, <1>6, BeginKeeps

LEMMA UploadNewVersionKeeps ==
  ASSUME IInv, NEW s \in Slots, NEW c \in Companies, NEW d \in Documents,
         UploadNewVersion(s, c, d)
  PROVE  IInv'
<1> DEFINE n == Cardinality(VersionsOf(d))
           k == [at |-> "put", key |-> issued + 1, company |-> c, folder |-> None,
                 document |-> d, seen |-> n]
<1>1. /\ Begin(s, k) /\ document[d] # NoRow
      /\ overlapped' = overlapped \cup {e \in {d} : \E t \in Slots : ~Idle(t) /\ call[t].document = e}
  BY DEF UploadNewVersion
<1>2. issued + 1 \in Keys
  BY <1>1, MaxUploadsAssumption DEF Begin, IInv, TypeOK, Keys
<1>3. n \in Nat
  <2>1. VersionsOf(d) \subseteq versions /\ IsFiniteSet(versions)
    BY DEF VersionsOf, IInv, TypeOK
  <2>. QED
    BY <2>1, FS_Subset, FS_CardinalityType
<1>4. overlapped' \subseteq Documents
  BY <1>1 DEF IInv, TypeOK
<1>. HIDE DEF n
<1>5. k \in Call /\ k # NoCall
  BY <1>2, <1>3 DEF Call, NoCall
<1>6. k.at = "put" /\ k.key = issued + 1 /\ k.folder = None /\ k.document = d
  OBVIOUS
<1>. HIDE DEF k
<1>. QED
  BY <1>1, <1>4, <1>5, <1>6, BeginKeeps

LEMMA PutKeeps ==
  ASSUME IInv, NEW s \in Slots, Put(s)
  PROVE  IInv'
<1>1. ~Idle(s) /\ call[s].at = "put"
  BY DEF Put
<1>2. /\ objects' = objects \cup {call[s].key}
      /\ call' = [call EXCEPT ![s].at = "write"]
      /\ UNCHANGED <<folder, document, versions, issued, links, overlapped>>
  BY DEF Put, rows
<1>3. [call[s] EXCEPT !.at = "write"] \in Call /\ call[s].key \in Keys
  BY <1>1, InFlight DEF IInv, Call
<1>4. TypeOK'
  BY <1>2, <1>3 DEF IInv, TypeOK
<1>5. \A t \in Slots :
        /\ ~Idle(t)' => ~Idle(t)
        /\ ~Idle(t) => /\ call'[t].key = call[t].key /\ call'[t].folder = call[t].folder
                       /\ call'[t].company = call[t].company
                       /\ call'[t].document = call[t].document
        /\ Writing(t)' => t = s \/ Writing(t)
  <2>. SUFFICES ASSUME NEW t \in Slots
                PROVE  /\ ~Idle(t)' => ~Idle(t)
                       /\ ~Idle(t) => /\ call'[t].key = call[t].key /\ call'[t].folder = call[t].folder
                                      /\ call'[t].company = call[t].company
                                      /\ call'[t].document = call[t].document
                       /\ Writing(t)' => t = s \/ Writing(t)
    OBVIOUS
  <2>1. CASE t = s
    <3>1. call'[s] = [call[s] EXCEPT !.at = "write"]
      BY <1>2 DEF IInv, TypeOK
    <3>. QED
      BY <1>1, <2>1, <3>1, InFlight DEF IInv
  <2>2. CASE t # s
    <3>1. call'[t] = call[t]
      BY <1>2, <2>2 DEF IInv, TypeOK
    <3>. QED
      BY <2>2, <3>1 DEF Idle, Writing
  <2>. QED
    BY <2>1, <2>2
<1>6. VersionsAreStored' /\ CompaniesStayApart' /\ OwnKeyIsListed'
  BY <1>2 DEF IInv, VersionsAreStored, CompaniesStayApart, OwnKeyIsListed, VersionsOf
<1>7. KeysAreOwn'
  BY <1>2, <1>5 DEF IInv, KeysAreOwn
<1>8. WritesWhatIsStored'
  <2>. SUFFICES ASSUME NEW t \in Slots, Writing(t)'
                PROVE  call'[t].key \in objects'
    BY DEF WritesWhatIsStored
  <2>1. ~Idle(t)
    BY <1>5 DEF Writing
  <2>. QED
    BY <1>2, <1>5, <2>1 DEF IInv, WritesWhatIsStored
<1>9. FiledWhereLookedUp'
  BY <1>2, <1>5 DEF IInv, FiledWhereLookedUp
<1>. QED
  BY <1>4, <1>6, <1>7, <1>8, <1>9 DEF IInv

(* A transaction: the rows it writes are of the call's own key. *)
LEMMA Returning ==
  ASSUME TypeOK, NEW s \in Slots, Returns(s)
  PROVE  /\ call' \in [Slots -> Call]
         /\ call'[s] = NoCall
         /\ \A t \in Slots : t # s => call'[t] = call[t]
         /\ \A t \in Slots : ~Idle(t)' => t # s /\ ~Idle(t)
BY DEF Returns, TypeOK, Call, Idle

LEMMA CreateDocumentKeeps ==
  ASSUME IInv, NEW s \in Slots, CreateDocument(s)
  PROVE  IInv'
<1>1. PICK d \in Documents :
        /\ document[d] = NoRow
        /\ document' = [document EXCEPT ![d] =
             [company |-> call[s].company, folder |-> call[s].folder,
              key |-> call[s].key, current |-> call[s].key]]
        /\ versions' = versions \cup {[document |-> d, key |-> call[s].key, number |-> 1]}
  BY DEF CreateDocument
<1>2. /\ ~Idle(s) /\ call[s].at = "write" /\ Writing(s)
      /\ UNCHANGED <<folder, objects, issued, links, overlapped>>
  BY DEF CreateDocument, Writing
<1>3. /\ call' \in [Slots -> Call]
      /\ \A t \in Slots : t # s => call'[t] = call[t]
      /\ \A t \in Slots : ~Idle(t)' => t # s /\ ~Idle(t)
  BY Returning DEF CreateDocument, IInv
<1>4. /\ call[s].key \in Keys /\ call[s].company \in Companies
      /\ call[s].folder \in Folders \cup {None}
  BY <1>2, InFlight DEF IInv
<1> DEFINE row == [company |-> call[s].company, folder |-> call[s].folder,
                   key |-> call[s].key, current |-> call[s].key]
           new == [document |-> d, key |-> call[s].key, number |-> 1]
<1>5. row \in Document /\ row # NoRow /\ new \in [document : Documents, key : Keys, number : Nat]
  BY <1>4, NoneAssumption DEF Document, NoRow
<1>6. TypeOK'
  <2>1. IsFiniteSet(versions')
    BY <1>1, FS_AddElement DEF IInv, TypeOK
  <2>. QED
    BY <1>1, <1>2, <1>3, <1>5, <2>1 DEF IInv, TypeOK
<1>7. VersionsAreStored'
  BY <1>1, <1>2 DEF IInv, VersionsAreStored, WritesWhatIsStored
<1>8. \A e \in Documents : document'[e] # NoRow => \/ e = d /\ document'[e] = row
                                                   \/ e # d /\ document'[e] = document[e]
  BY <1>1 DEF IInv, TypeOK
<1>9. \A e \in Documents : document[e] # NoRow => document'[e] = document[e]
  BY <1>1 DEF IInv, TypeOK
<1>10. CompaniesStayApart'
  <2>1. \A e \in Documents : document'[e] # NoRow /\ document'[e].folder # None
           => folder[document'[e].folder].company = document'[e].company
    BY <1>2, <1>8 DEF IInv, CompaniesStayApart, FiledWhereLookedUp
  <2>2. ASSUME NEW l \in links
        PROVE  /\ document'[l.document].company = l.company
               /\ \E v \in VersionsOf(l.document)' : v.key = l.key
    <3>1. l.document \in Documents /\ l.company \in Companies
      BY DEF IInv, TypeOK
    <3>2. document[l.document].company = l.company /\ \E v \in VersionsOf(l.document) : v.key = l.key
      BY DEF IInv, CompaniesStayApart
    <3>3. document[l.document] # NoRow
      BY <3>1, <3>2, NoneAssumption DEF NoRow
    <3>. QED
      BY <1>1, <1>9, <3>1, <3>2, <3>3 DEF VersionsOf
  <2>. QED
    BY <1>2, <2>1, <2>2 DEF IInv, CompaniesStayApart
<1>11. KeysAreOwn'
  <2>1. \A v \in versions : v.key <= issued /\ v.key # call[s].key
    BY <1>2 DEF IInv, KeysAreOwn
  <2>2. call[s].key <= issued
    BY <1>2 DEF IInv, KeysAreOwn
  <2>3. \A v \in versions' : v.key <= issued' /\ \A w \in versions' : v.key = w.key => v = w
    BY <1>1, <1>2, <2>1, <2>2 DEF IInv, KeysAreOwn
  <2>4. ASSUME NEW t \in Slots, ~Idle(t)'
        PROVE  /\ call'[t].key <= issued'
               /\ \A v \in versions' : v.key # call'[t].key
               /\ \A u \in Slots : ~Idle(u)' /\ call'[u].key = call'[t].key => u = t
    <3>1. t # s /\ ~Idle(t) /\ call'[t] = call[t]
      BY <1>3, <2>4
    <3>2. call[t].key # call[s].key
      BY <1>2, <3>1 DEF IInv, KeysAreOwn
    <3>. QED
      BY <1>1, <1>2, <1>3, <3>1, <3>2 DEF IInv, KeysAreOwn
  <2>. QED
    BY <2>3, <2>4 DEF KeysAreOwn
<1>12. WritesWhatIsStored'
  BY <1>2, <1>3 DEF IInv, WritesWhatIsStored, Writing
<1>13. FiledWhereLookedUp'
  <2>. SUFFICES ASSUME NEW t \in Slots, ~Idle(t)'
                PROVE  /\ call'[t].folder # None => folder'[call'[t].folder].company = call'[t].company
                       /\ call'[t].document # None => document'[call'[t].document] # NoRow
    BY DEF FiledWhereLookedUp
  <2>1. t # s /\ ~Idle(t) /\ call'[t] = call[t] /\ call[t].document \in Documents \cup {None}
    BY <1>3, InFlight DEF IInv
  <2>. QED
    BY <1>2, <1>9, <2>1 DEF IInv, FiledWhereLookedUp
<1>14. OwnKeyIsListed'
  <2>. SUFFICES ASSUME NEW e \in Documents, document'[e] # NoRow
                PROVE  \E v \in versions' : v.document = e /\ v.key = document'[e].key
    BY DEF OwnKeyIsListed
  <2>1. CASE e = d
    <3>1. document'[e].key = new.key /\ new.document = e /\ new \in versions'
      BY <1>1, <1>8, <2>1
    <3>. QED
      BY <3>1
  <2>2. CASE e # d
    BY <1>1, <1>8, <2>2 DEF IInv, OwnKeyIsListed
  <2>. QED
    BY <2>1, <2>2
<1>. QED
  BY <1>6, <1>7, <1>10, <1>11, <1>12, <1>13, <1>14 DEF IInv

LEMMA CreateVersionKeeps ==
  ASSUME IInv, NEW s \in Slots, CreateVersion(s)
  PROVE  IInv'
<1> DEFINE d == call[s].document
           new == [document |-> d, key |-> call[s].key, number |-> NextVersionNumber(call[s])]
<1>1. /\ versions' = versions \cup {new}
      /\ document' = [document EXCEPT ![d].current = call[s].key]
  BY DEF CreateVersion, Retained
<1>2. /\ ~Idle(s) /\ call[s].at = "write" /\ Writing(s) /\ d # None
      /\ UNCHANGED <<folder, objects, issued, links, overlapped>>
  BY DEF CreateVersion, Writing
<1>3. /\ call' \in [Slots -> Call]
      /\ \A t \in Slots : t # s => call'[t] = call[t]
      /\ \A t \in Slots : ~Idle(t)' => t # s /\ ~Idle(t)
  BY Returning DEF CreateVersion, IInv
<1>4. call[s].key \in Keys /\ d \in Documents /\ call[s].seen \in Nat
  BY <1>2, InFlight DEF IInv
<1>5. document[d] # NoRow /\ document[d] \in Document
  BY <1>2, <1>4 DEF IInv, FiledWhereLookedUp, TypeOK
<1>6. /\ document'[d] \in Document /\ document'[d] # NoRow
      /\ document'[d].company = document[d].company /\ document'[d].folder = document[d].folder
      /\ document'[d].key = document[d].key
  <2>1. document'[d] = [document[d] EXCEPT !.current = call[s].key]
    BY <1>1, <1>4 DEF IInv, TypeOK
  <2>2. document[d] \in [company : Companies, folder : Folders \cup {None}, key : Keys, current : Keys]
    BY <1>5 DEF Document
  <2>3. document'[d] \in [company : Companies, folder : Folders \cup {None}, key : Keys, current : Keys]
    BY <1>4, <2>1, <2>2
  <2>. QED
    BY <2>1, <2>2, <2>3, NoneAssumption DEF Document, NoRow
<1>7. \A e \in Documents : e # d => document'[e] = document[e]
  BY <1>1 DEF IInv, TypeOK
<1>8. new \in [document : Documents, key : Keys, number : Nat]
  BY <1>4 DEF NextVersionNumber
<1>9. new.key = call[s].key /\ new.document = d
  OBVIOUS
<1>. HIDE DEF new
<1>10. TypeOK'
  <2>1. IsFiniteSet(versions')
    BY <1>1, FS_AddElement DEF IInv, TypeOK
  <2>2. document' \in [Documents -> Document]
    BY <1>1, <1>6, <1>7 DEF IInv, TypeOK
  <2>. QED
    BY <1>1, <1>2, <1>3, <1>8, <2>1, <2>2 DEF IInv, TypeOK
<1>11. VersionsAreStored'
  BY <1>1, <1>2, <1>9 DEF IInv, VersionsAreStored, WritesWhatIsStored
<1>12. CompaniesStayApart'
  <2>1. \A e \in Documents : document'[e] # NoRow /\ document'[e].folder # None
           => folder[document'[e].folder].company = document'[e].company
    BY <1>5, <1>6, <1>7 DEF IInv, CompaniesStayApart
  <2>2. ASSUME NEW l \in links
        PROVE  /\ document'[l.document].company = l.company
               /\ \E v \in VersionsOf(l.document)' : v.key = l.key
    <3>1. l.document \in Documents
      BY DEF IInv, TypeOK
    <3>2. document[l.document].company = l.company /\ \E v \in VersionsOf(l.document) : v.key = l.key
      BY DEF IInv, CompaniesStayApart
    <3>. QED
      BY <1>1, <1>6, <1>7, <3>1, <3>2 DEF VersionsOf
  <2>. QED
    BY <1>2, <2>1, <2>2 DEF IInv, CompaniesStayApart
<1>13. KeysAreOwn'
  <2>1. \A v \in versions : v.key <= issued /\ v.key # call[s].key
    BY <1>2 DEF IInv, KeysAreOwn
  <2>2. call[s].key <= issued
    BY <1>2 DEF IInv, KeysAreOwn
  <2>3. \A v \in versions' : v.key <= issued' /\ \A w \in versions' : v.key = w.key => v = w
    BY <1>1, <1>2, <1>9, <2>1, <2>2 DEF IInv, KeysAreOwn
  <2>4. ASSUME NEW t \in Slots, ~Idle(t)'
        PROVE  /\ call'[t].key <= issued'
               /\ \A v \in versions' : v.key # call'[t].key
               /\ \A u \in Slots : ~Idle(u)' /\ call'[u].key = call'[t].key => u = t
    <3>1. t # s /\ ~Idle(t) /\ call'[t] = call[t]
      BY <1>3, <2>4
    <3>2. call[t].key # call[s].key
      BY <1>2, <3>1 DEF IInv, KeysAreOwn
    <3>. QED
      BY <1>1, <1>2, <1>3, <1>9, <3>1, <3>2 DEF IInv, KeysAreOwn
  <2>. QED
    BY <2>3, <2>4 DEF KeysAreOwn
<1>14. WritesWhatIsStored'
  <2>. SUFFICES ASSUME NEW t \in Slots, Writing(t)'
                PROVE  call'[t].key \in objects
    BY <1>2 DEF WritesWhatIsStored
  <2>1. call'[t] = call[t] /\ Writing(t)
    BY <1>3 DEF Writing
  <2>. QED
    BY <2>1 DEF IInv, WritesWhatIsStored
<1>15. FiledWhereLookedUp'
  <2>. SUFFICES ASSUME NEW t \in Slots, ~Idle(t)'
                PROVE  /\ call'[t].folder # None => folder'[call'[t].folder].company = call'[t].company
                       /\ call'[t].document # None => document'[call'[t].document] # NoRow
    BY DEF FiledWhereLookedUp
  <2>1. t # s /\ ~Idle(t) /\ call'[t] = call[t] /\ call[t].document \in Documents \cup {None}
    BY <1>3, InFlight DEF IInv
  <2>. QED
    BY <1>2, <1>6, <1>7, <2>1 DEF IInv, FiledWhereLookedUp
<1>16. OwnKeyIsListed'
  BY <1>1, <1>5, <1>6, <1>7 DEF IInv, OwnKeyIsListed
<1>. QED
  BY <1>10, <1>11, <1>12, <1>13, <1>14, <1>15, <1>16 DEF IInv

LEMMA FailKeeps ==
  ASSUME IInv, NEW s \in Slots, Fail(s)
  PROVE  IInv'
<1>1. Returns(s) /\ UNCHANGED <<folder, document, versions, objects, issued, links, overlapped>>
  BY DEF Fail, GiveUp, Returns, rows
<1>2. /\ call' \in [Slots -> Call]
      /\ \A t \in Slots : t # s => call'[t] = call[t]
      /\ \A t \in Slots : ~Idle(t)' => t # s /\ ~Idle(t)
  BY <1>1, Returning DEF IInv
<1>3. TypeOK' /\ VersionsAreStored' /\ CompaniesStayApart' /\ OwnKeyIsListed'
  BY <1>1, <1>2 DEF IInv, TypeOK, VersionsAreStored, CompaniesStayApart, OwnKeyIsListed, VersionsOf
<1>4. KeysAreOwn'
  BY <1>1, <1>2 DEF IInv, KeysAreOwn
<1>5. WritesWhatIsStored' /\ FiledWhereLookedUp'
  BY <1>1, <1>2 DEF IInv, WritesWhatIsStored, FiledWhereLookedUp, Writing
<1>. QED
  BY <1>3, <1>4, <1>5 DEF IInv

LEMMA GetDownloadUrlKeeps ==
  ASSUME IInv, NEW c \in Companies, NEW d \in Documents, GetDownloadUrl(c, d)
  PROVE  IInv'
<1> DEFINE l == [company |-> c, document |-> d, key |-> document[d].key]
<1>1. /\ document[d] # NoRow /\ document[d].company = c /\ links' = links \cup {l}
      /\ UNCHANGED <<folder, document, versions, objects, issued, call, overlapped>>
  BY DEF GetDownloadUrl, OfCompany, rows
<1>2. document[d].key \in Keys
  BY <1>1 DEF IInv, TypeOK, Document
<1>3. TypeOK'
  BY <1>1, <1>2 DEF IInv, TypeOK
<1>4. /\ VersionsAreStored' /\ OwnKeyIsListed' /\ KeysAreOwn' /\ WritesWhatIsStored'
      /\ FiledWhereLookedUp'
  BY <1>1 DEF IInv, VersionsAreStored, OwnKeyIsListed, KeysAreOwn, WritesWhatIsStored,
              FiledWhereLookedUp, Writing, Idle
<1>5. CompaniesStayApart'
  <2>1. document[d].company = c /\ \E v \in VersionsOf(d) : v.key = document[d].key
    BY <1>1 DEF IInv, OwnKeyIsListed, VersionsOf
  <2>2. \A m \in links' : document[m.document].company = m.company
                          /\ \E v \in VersionsOf(m.document) : v.key = m.key
    BY <1>1, <2>1 DEF IInv, CompaniesStayApart
  <2>. QED
    BY <1>1, <2>2 DEF IInv, CompaniesStayApart, VersionsOf
<1>. QED
  BY <1>3, <1>4, <1>5 DEF IInv

LEMMA StutteringKeeps == IInv /\ UNCHANGED vars => IInv'
<1>. SUFFICES ASSUME IInv, UNCHANGED vars
              PROVE  IInv'
  OBVIOUS
<1>1. TypeOK' /\ VersionsAreStored' /\ CompaniesStayApart' /\ OwnKeyIsListed'
  BY DEF vars, rows, IInv, TypeOK, VersionsAreStored, CompaniesStayApart, OwnKeyIsListed, VersionsOf
<1>2. KeysAreOwn' /\ WritesWhatIsStored' /\ FiledWhereLookedUp'
  BY DEF vars, rows, IInv, KeysAreOwn, WritesWhatIsStored, FiledWhereLookedUp, Writing, Idle
<1>. QED
  BY <1>1, <1>2 DEF IInv

LEMMA NextKeeps == IInv /\ [Next]_vars => IInv'
BY StutteringKeeps, CreateFolderKeeps, UploadDocumentKeeps, UploadNewVersionKeeps, PutKeeps,
   CreateDocumentKeeps, CreateVersionKeeps, FailKeeps, GetDownloadUrlKeeps
DEF Next

(* Whatever uploads fail or overlap, the bookkeeping of keys, rows and objects
   in Documents is right, in particular its types. *)
THEOREM VaultIsSound == Spec => []IInv
BY Initially, NextKeeps, PTL DEF Spec

(* Every version in the database is in the bucket: Documents, Put before the
   transaction. *)
THEOREM ListedIsStored == Spec => []VersionsAreStored
<1>1. IInv => VersionsAreStored
  BY DEF IInv
<1>. QED
  BY <1>1, VaultIsSound, PTL

(* No folder, document or link crosses from one company to another: the look-ups
   of createFolder, uploadDocument, uploadNewVersion and getDownloadUrl. *)
THEOREM TenantsStayApart == Spec => []CompaniesStayApart
<1>1. IInv => CompaniesStayApart
  BY DEF IInv
<1>. QED
  BY <1>1, VaultIsSound, PTL

-----------------------------------------------------------------------------
(* Numbering.  Only three steps concern it; the others leave the rows alone, and
   of the uploads of new versions at most end one. *)
LEMMA NumbersUntouched ==
  ASSUME IInv, Numbering, UNCHANGED <<document, versions, overlapped>>,
         \A s \in Slots : ~Idle(s)' /\ call'[s].document # None =>
           /\ ~Idle(s)
           /\ call'[s].document = call[s].document /\ call'[s].seen = call[s].seen
  PROVE  Numbering'
<1>1. NumberedUnlessOverlapped' /\ VersionsHaveRows'
  BY DEF Numbering, NumberedUnlessOverlapped, VersionsHaveRows, VersionsOf
<1>2. CountsStand'
  <2>. SUFFICES ASSUME NEW s \in Slots, ~Idle(s)', call'[s].document \in Documents \ overlapped
                PROVE  /\ call'[s].seen = Cardinality(VersionsOf(call'[s].document))
                       /\ \A t \in Slots : ~Idle(t)' /\ call'[t].document = call'[s].document => t = s
    BY DEF CountsStand, VersionsOf
  <2>1. \A t \in Slots : ~Idle(t)' /\ call'[t].document = call'[s].document
          => ~Idle(t) /\ call[t].document = call'[s].document /\ call[t].seen = call'[t].seen
    BY NoneAssumption
  <2>. QED
    BY <2>1 DEF Numbering, CountsStand
<1>. QED
  BY <1>1, <1>2 DEF Numbering

(* An upload of a new version begins: it counts, and is the document's only one. *)
LEMMA NewUploadCounts ==
  ASSUME IInv, Numbering, NEW s \in Slots, NEW c \in Companies, NEW d \in Documents,
         UploadNewVersion(s, c, d)
  PROVE  Numbering'
<1> DEFINE k == [at |-> "put", key |-> issued + 1, company |-> c, folder |-> None,
                 document |-> d, seen |-> Cardinality(VersionsOf(d))]
<1>1. /\ UNCHANGED <<document, versions>> /\ Idle(s) /\ call' = [call EXCEPT ![s] = k]
      /\ overlapped' = overlapped \cup {e \in {d} : \E t \in Slots : ~Idle(t) /\ call[t].document = e}
  BY DEF UploadNewVersion, Begin, rows
<1>2. call'[s] = k /\ \A t \in Slots : t # s => call'[t] = call[t]
  BY <1>1 DEF IInv, TypeOK
<1>3. k.document = d /\ k.seen = Cardinality(VersionsOf(d))
  OBVIOUS
<1>. HIDE DEF k
<1>4. NumberedUnlessOverlapped' /\ VersionsHaveRows'
  BY <1>1 DEF Numbering, NumberedUnlessOverlapped, VersionsHaveRows, VersionsOf
<1>5. \A t \in Slots : ~Idle(t)' /\ t # s => ~Idle(t) /\ call'[t] = call[t]
  BY <1>2 DEF Idle
<1>6. ASSUME NEW t \in Slots, ~Idle(t)', call'[t].document \in Documents \ overlapped'
      PROVE  /\ call'[t].seen = Cardinality(VersionsOf(call'[t].document))
             /\ \A u \in Slots : ~Idle(u)' /\ call'[u].document = call'[t].document => u = t
  <2>1. CASE t = s
    <3>1. \A u \in Slots : ~Idle(u) => call[u].document # d
      BY <1>1, <1>2, <1>3, <1>6, <2>1
    <3>. QED
      BY <1>2, <1>3, <1>5, <2>1, <3>1
  <2>2. CASE t # s
    <3>1. ~Idle(t) /\ call'[t] = call[t] /\ call[t].document \in Documents \ overlapped
      BY <1>1, <1>5, <1>6, <2>2
    <3>2. call[t].document # d
      BY <1>1, <1>6, <3>1
    <3>. QED
      BY <1>2, <1>3, <1>5, <3>1, <3>2 DEF Numbering, CountsStand
  <2>. QED
    BY <2>1, <2>2
<1>7. CountsStand'
  BY <1>1, <1>6 DEF CountsStand, VersionsOf
<1>. QED
  BY <1>4, <1>7 DEF Numbering

(* A version is written that none was before, of a key of its own. *)
LEMMA OneMoreCounts ==
  ASSUME IInv, NEW d \in Documents, NEW new, new.document = d, new \notin versions,
         versions' = versions \cup {new}
  PROVE  /\ VersionsOf(d)' = VersionsOf(d) \cup {new}
         /\ Cardinality(VersionsOf(d)) \in Nat
         /\ Cardinality(VersionsOf(d)') = Cardinality(VersionsOf(d)) + 1
         /\ \A e \in Documents : e # d => VersionsOf(e)' = VersionsOf(e)
<1>1. VersionsOf(d)' = VersionsOf(d) \cup {new} /\ new \notin VersionsOf(d)
  BY DEF VersionsOf
<1>2. IsFiniteSet(VersionsOf(d))
  BY FS_Subset DEF VersionsOf, IInv, TypeOK
<1>3. \A e \in Documents : e # d => VersionsOf(e)' = VersionsOf(e)
  BY DEF VersionsOf
<1>. QED
  BY <1>1, <1>2, <1>3, FS_AddElement, FS_CardinalityType

(* ... so the counts of the uploads about other documents still stand. *)
LEMMA OtherCountsStand ==
  ASSUME IInv, Numbering, NEW s \in Slots, ~Idle(s), Returns(s), NEW d \in Documents,
         overlapped' = overlapped,
         \A e \in Documents : e # d => VersionsOf(e)' = VersionsOf(e),
         d \notin overlapped => \A t \in Slots : ~Idle(t) /\ t # s => call[t].document # d
  PROVE  CountsStand'
<1>1. \A t \in Slots : ~Idle(t)' => t # s /\ ~Idle(t) /\ call'[t] = call[t]
  BY Returning DEF IInv
<1>. SUFFICES ASSUME NEW t \in Slots, ~Idle(t)', call'[t].document \in Documents \ overlapped
              PROVE  /\ call'[t].seen = Cardinality(VersionsOf(call[t].document)')
                     /\ \A u \in Slots : ~Idle(u)' /\ call'[u].document = call'[t].document => u = t
  BY <1>1 DEF CountsStand, VersionsOf
<1>2. /\ t # s /\ ~Idle(t) /\ call'[t] = call[t]
      /\ call[t].document \in Documents \ overlapped /\ call[t].document # d
  BY <1>1
<1>3. VersionsOf(call[t].document)' = VersionsOf(call[t].document)
  BY <1>2
<1>. QED
  BY <1>1, <1>2, <1>3 DEF Numbering, CountsStand

LEMMA FirstVersionIsOne ==
  ASSUME IInv, Numbering, NEW s \in Slots, CreateDocument(s)
  PROVE  Numbering'
<1>1. PICK d \in Documents :
        /\ document[d] = NoRow
        /\ document' = [document EXCEPT ![d] =
             [company |-> call[s].company, folder |-> call[s].folder,
              key |-> call[s].key, current |-> call[s].key]]
        /\ versions' = versions \cup {[document |-> d, key |-> call[s].key, number |-> 1]}
  BY DEF CreateDocument
<1>2. ~Idle(s) /\ call[s].document = None /\ Returns(s) /\ overlapped' = overlapped
  BY DEF CreateDocument, Writing
<1>3. PICK new \in {[document |-> d, key |-> call[s].key, number |-> 1]} :
        new.document = d /\ new.key = call[s].key /\ new.number = 1
  OBVIOUS
<1>4. versions' = versions \cup {new}
  BY <1>1, <1>3
<1>5. new \notin versions
  BY <1>2, <1>3 DEF IInv, KeysAreOwn
<1>6. VersionsOf(d) = {}
  BY <1>1 DEF Numbering, VersionsHaveRows, VersionsOf
<1>7. /\ VersionsOf(d)' = {new} /\ Cardinality(VersionsOf(d)') = 1
      /\ \A e \in Documents : e # d => VersionsOf(e)' = VersionsOf(e)
  <2>1. /\ VersionsOf(d)' = VersionsOf(d) \cup {new}
        /\ Cardinality(VersionsOf(d)') = Cardinality(VersionsOf(d)) + 1
        /\ \A e \in Documents : e # d => VersionsOf(e)' = VersionsOf(e)
    BY <1>3, <1>4, <1>5, OneMoreCounts
  <2>2. Cardinality(VersionsOf(d)) = 0
    BY <1>6, FS_EmptySet
  <2>. QED
    BY <1>6, <2>1, <2>2
<1>8. /\ document'[d].current = new.key /\ document'[d] # NoRow
      /\ \A e \in Documents : e # d => document'[e] = document[e]
  BY <1>1, <1>2, <1>3, InFlight, NoneAssumption DEF IInv, TypeOK, NoRow
<1>9. NumberedUnlessOverlapped'
  <2>. SUFFICES ASSUME NEW e \in Documents \ overlapped, document'[e] # NoRow
                PROVE  /\ {v.number : v \in VersionsOf(e)'} = 1..Cardinality(VersionsOf(e)')
                       /\ \E v \in VersionsOf(e)' : /\ v.key = document'[e].current
                                                    /\ v.number = Cardinality(VersionsOf(e)')
    BY <1>2 DEF NumberedUnlessOverlapped
  <2>1. CASE e = d
    BY <1>3, <1>7, <1>8, <2>1
  <2>2. CASE e # d
    BY <1>7, <1>8, <2>2 DEF Numbering, NumberedUnlessOverlapped
  <2>. QED
    BY <2>1, <2>2
<1>10. VersionsHaveRows'
  BY <1>3, <1>4, <1>8 DEF Numbering, VersionsHaveRows, IInv, TypeOK
<1>11. \A t \in Slots : ~Idle(t) /\ t # s => call[t].document # d
  BY <1>1, NoneAssumption DEF IInv, FiledWhereLookedUp
<1>12. CountsStand'
  BY <1>2, <1>7, <1>11, OtherCountsStand
<1>. QED
  BY <1>9, <1>10, <1>12 DEF Numbering

LEMMA NextVersionIsNext ==
  ASSUME IInv, Numbering, NEW s \in Slots, CreateVersion(s)
  PROVE  Numbering'
<1>1. PICK d \in {call[s].document} : TRUE
  OBVIOUS
<1>2. /\ ~Idle(s) /\ d # None /\ Returns(s) /\ overlapped' = overlapped
      /\ document' = [document EXCEPT ![d].current = call[s].key]
      /\ versions' = versions \cup {[document |-> d, key |-> call[s].key, number |-> call[s].seen + 1]}
  BY <1>1 DEF CreateVersion, Writing, Retained, NextVersionNumber
<1>3. d \in Documents /\ call[s].seen \in Nat /\ document[d] # NoRow
  BY <1>1, <1>2, InFlight DEF IInv, FiledWhereLookedUp
<1>4. PICK new \in {[document |-> d, key |-> call[s].key, number |-> call[s].seen + 1]} :
        new.document = d /\ new.key = call[s].key /\ new.number = call[s].seen + 1
  OBVIOUS
<1>5. versions' = versions \cup {new} /\ new \notin versions
  BY <1>2, <1>4 DEF IInv, KeysAreOwn
<1>6. /\ VersionsOf(d)' = VersionsOf(d) \cup {new} /\ Cardinality(VersionsOf(d)) \in Nat
      /\ Cardinality(VersionsOf(d)') = Cardinality(VersionsOf(d)) + 1
      /\ \A e \in Documents : e # d => VersionsOf(e)' = VersionsOf(e)
  BY <1>3, <1>4, <1>5, OneMoreCounts
<1>7. d \notin overlapped =>
        /\ call[s].seen = Cardinality(VersionsOf(d))
        /\ \A t \in Slots : ~Idle(t) /\ t # s => call[t].document # d
  BY <1>1, <1>2, <1>3 DEF Numbering, CountsStand
<1>8. /\ document'[d] = [document[d] EXCEPT !.current = call[s].key]
      /\ \A e \in Documents : e # d => document'[e] = document[e]
  BY <1>2, <1>3 DEF IInv, TypeOK
<1>9. document'[d].current = new.key /\ document'[d] # NoRow
  <2>1. document[d] \in [company : Companies, folder : Folders \cup {None}, key : Keys, current : Keys]
    BY <1>3 DEF IInv, TypeOK, Document
  <2>. QED
    BY <1>4, <1>8, <2>1, NoneAssumption DEF NoRow
<1>10. NumberedUnlessOverlapped'
  <2>. SUFFICES ASSUME NEW e \in Documents \ overlapped, document'[e] # NoRow
                PROVE  /\ {v.number : v \in VersionsOf(e)'} = 1..Cardinality(VersionsOf(e)')
                       /\ \E v \in VersionsOf(e)' : /\ v.key = document'[e].current
                                                    /\ v.number = Cardinality(VersionsOf(e)')
    BY <1>2 DEF NumberedUnlessOverlapped
  <2>1. CASE e = d
    <3>1. new.number = Cardinality(VersionsOf(d)')
      BY <1>4, <1>6, <1>7, <2>1
    <3>2. {v.number : v \in VersionsOf(d)} = 1..Cardinality(VersionsOf(d))
      BY <1>3, <2>1 DEF Numbering, NumberedUnlessOverlapped
    <3>3. {v.number : v \in VersionsOf(d)'} = {v.number : v \in VersionsOf(d)} \cup {new.number}
      BY <1>6
    <3>4. {v.number : v \in VersionsOf(d)'} = 1..Cardinality(VersionsOf(d)')
      BY <1>6, <3>1, <3>2, <3>3
    <3>. QED
      BY <1>6, <1>9, <2>1, <3>1, <3>4
  <2>2. CASE e # d
    BY <1>6, <1>8, <2>2 DEF Numbering, NumberedUnlessOverlapped
  <2>. QED
    BY <2>1, <2>2
<1>11. VersionsHaveRows'
  BY <1>3, <1>4, <1>5, <1>8, <1>9 DEF Numbering, VersionsHaveRows, IInv, TypeOK
<1>12. CountsStand'
  BY <1>2, <1>3, <1>6, <1>7, OtherCountsStand
<1>. QED
  BY <1>10, <1>11, <1>12 DEF Numbering

LEMMA StepKeepsNumbers == IInv /\ Numbering /\ [Next]_vars => Numbering'
<1>. SUFFICES ASSUME IInv, Numbering, [Next]_vars
              PROVE  Numbering'
  OBVIOUS
<1>1. ASSUME NEW s \in Slots, NEW c \in Companies, NEW d \in Documents, UploadNewVersion(s, c, d)
      PROVE  Numbering'
  BY <1>1, NewUploadCounts
<1>2. ASSUME NEW s \in Slots, CreateDocument(s) \/ CreateVersion(s) PROVE Numbering'
  BY <1>2, FirstVersionIsOne, NextVersionIsNext
<1>3. ASSUME NEW s \in Slots, NEW c \in Companies, NEW f \in Folders \cup {None},
             UploadDocument(s, c, f)
      PROVE  Numbering'
  <2>1. \A t \in Slots : ~Idle(t)' /\ call'[t].document # None => ~Idle(t) /\ call'[t] = call[t]
    BY <1>3 DEF UploadDocument, Begin, IInv, TypeOK, Idle
  <2>. QED
    BY <1>3, <2>1, NumbersUntouched DEF UploadDocument, Begin, rows
<1>4. ASSUME NEW s \in Slots, Put(s) PROVE Numbering'
  <2>1. \A t \in Slots : ~Idle(t)' =>
          ~Idle(t) /\ call'[t].document = call[t].document /\ call'[t].seen = call[t].seen
    <3>. SUFFICES ASSUME NEW t \in Slots, ~Idle(t)'
                  PROVE  ~Idle(t) /\ call'[t].document = call[t].document /\ call'[t].seen = call[t].seen
      OBVIOUS
    <3>1. CASE t = s
      <4>1. ~Idle(s) /\ call'[s] = [call[s] EXCEPT !.at = "write"]
        BY <1>4 DEF Put, IInv, TypeOK
      <4>. QED
        BY <3>1, <4>1, InFlight DEF IInv
    <3>2. CASE t # s
      BY <1>4, <3>2 DEF Put, IInv, TypeOK, Idle
    <3>. QED
      BY <3>1, <3>2
  <2>. QED
    BY <1>4, <2>1, NumbersUntouched DEF Put, rows
<1>5. ASSUME NEW s \in Slots, Fail(s) PROVE Numbering'
  <2>1. \A t \in Slots : ~Idle(t)' => ~Idle(t) /\ call'[t] = call[t]
    BY <1>5, Returning DEF Fail, GiveUp, Returns, IInv
  <2>. QED
    BY <1>5, <2>1, NumbersUntouched DEF Fail, rows
<1>6. ASSUME \/ \E c \in Companies, f \in Folders, p \in Folders \cup {None} : CreateFolder(c, f, p)
             \/ \E c \in Companies, d \in Documents : GetDownloadUrl(c, d)
             \/ UNCHANGED vars
      PROVE  Numbering'
  <2>1. UNCHANGED <<document, versions, overlapped, call>>
    BY <1>6 DEF CreateFolder, GetDownloadUrl, vars, rows
  <2>. QED
    BY <2>1, NumbersUntouched DEF Idle
<1>. QED
  BY <1>1, <1>2, <1>3, <1>4, <1>5, <1>6 DEF Next

(* uploadNewVersion: a document's versions are numbered 1, 2, ... and the last one
   is current, for any number of uploads and failures, as long as no two new
   versions of it are uploaded at a time. *)
THEOREM VersionsInOrder == Spec => []NumberedUnlessOverlapped
<1>1. Init => Numbering
  BY DEF Init, Numbering, NumberedUnlessOverlapped, VersionsHaveRows, CountsStand, NoRow, Idle
<1>2. Numbering => NumberedUnlessOverlapped
  BY DEF Numbering
<1>. QED
  BY <1>1, <1>2, VaultIsSound, StepKeepsNumbers, PTL DEF Spec

-----------------------------------------------------------------------------
(* What is listed is stored, so the rows alone say what is kept. *)
LEMMA KeptByRows ==
  ASSUME IInv
  PROVE  Kept = [d \in Documents |-> {v.key : v \in VersionsOf(d)}]
<1>1. \A v \in versions : v.key \in objects
  BY DEF IInv, VersionsAreStored
<1>2. ASSUME NEW d \in Documents
      PROVE  {k \in objects : \E v \in versions : v.document = d /\ v.key = k}
             = {v.key : v \in VersionsOf(d)}
  BY <1>1 DEF VersionsOf
<1>. QED
  BY <1>2 DEF Kept

(* One more version is one more upload of its document. *)
LEMMA OneMoreIsKept ==
  ASSUME IInv, IInv', NEW d \in Documents, NEW new, new.document = d, new.key \in Keys,
         versions' = versions \cup {new}, \A v \in versions : v.key # new.key
  PROVE  TheArchive!Next
<1>1. \A e \in Documents : new.key \notin Kept[e]
  BY KeptByRows DEF VersionsOf
<1>2. Kept = [e \in Documents |-> {v.key : v \in VersionsOf(e)}]
  BY KeptByRows
<1>3. Kept' = [e \in Documents |-> {v.key : v \in VersionsOf(e)}']
  <2>1. \A v \in versions' : v.key \in objects'
    BY DEF IInv, VersionsAreStored
  <2>2. ASSUME NEW e \in Documents
        PROVE  {k \in objects' : \E v \in versions' : v.document = e /\ v.key = k}
               = {v.key : v \in VersionsOf(e)}'
    BY <2>1 DEF VersionsOf
  <2>. QED
    BY <2>2 DEF Kept
<1>4. {v.key : v \in VersionsOf(d)}' = {v.key : v \in VersionsOf(d)} \cup {new.key}
  BY DEF VersionsOf
<1>5. \A e \in Documents : e # d => {v.key : v \in VersionsOf(e)}' = {v.key : v \in VersionsOf(e)}
  BY DEF VersionsOf
<1>6. Kept' = [Kept EXCEPT ![d] = @ \cup {new.key}]
  BY <1>2, <1>3, <1>4, <1>5
<1>. QED
  BY <1>1, <1>6 DEF TheArchive!Next, TheArchive!Keep

(* A step that leaves the version rows alone leaves what is kept alone. *)
LEMMA SameIsKept ==
  ASSUME IInv, IInv', versions' = versions
  PROVE  Kept' = Kept
<1>1. \A v \in versions : v.key \in objects /\ v.key \in objects'
  BY DEF IInv, VersionsAreStored
<1>. QED
  BY <1>1 DEF Kept

LEMMA StepImplements ==
  ASSUME IInv, IInv', [Next]_vars
  PROVE  [TheArchive!Next]_Kept
<1>1. ASSUME NEW s \in Slots, CreateDocument(s)
      PROVE  TheArchive!Next
  <2>1. PICK d \in Documents :
          versions' = versions \cup {[document |-> d, key |-> call[s].key, number |-> 1]}
    BY <1>1 DEF CreateDocument
  <2> DEFINE new == [document |-> d, key |-> call[s].key, number |-> 1]
  <2>2. ~Idle(s)
    BY <1>1 DEF CreateDocument, Writing
  <2>3. call[s].key \in Keys /\ \A v \in versions : v.key # call[s].key
    BY <2>2, InFlight DEF IInv, KeysAreOwn
  <2>4. new.document = d /\ new.key = call[s].key /\ versions' = versions \cup {new}
    BY <2>1
  <2>. HIDE DEF new
  <2>. QED
    BY <2>3, <2>4, OneMoreIsKept
<1>2. ASSUME NEW s \in Slots, CreateVersion(s)
      PROVE  TheArchive!Next
  <2>1. versions' = versions \cup {[document |-> call[s].document, key |-> call[s].key,
                                    number |-> NextVersionNumber(call[s])]}
    BY <1>2 DEF CreateVersion, Retained
  <2> DEFINE new == [document |-> call[s].document, key |-> call[s].key,
                     number |-> NextVersionNumber(call[s])]
  <2>2. ~Idle(s) /\ call[s].document # None
    BY <1>2 DEF CreateVersion, Writing
  <2>3. /\ call[s].key \in Keys /\ call[s].document \in Documents
        /\ \A v \in versions : v.key # call[s].key
    BY <2>2, InFlight DEF IInv, KeysAreOwn
  <2>4. /\ new.document = call[s].document /\ new.key = call[s].key
        /\ versions' = versions \cup {new}
    BY <2>1
  <2>. HIDE DEF new
  <2>. QED
    BY <2>3, <2>4, OneMoreIsKept
<1>3. ASSUME NEW s \in Slots, Put(s) \/ Fail(s)
      PROVE  versions' = versions
  BY <1>3 DEF Put, Fail, rows
<1>4. ASSUME NEW s \in Slots, NEW c \in Companies, NEW f \in Folders \cup {None},
             UploadDocument(s, c, f)
      PROVE  versions' = versions
  BY <1>4 DEF UploadDocument, Begin, rows
<1>5. ASSUME NEW s \in Slots, NEW c \in Companies, NEW d \in Documents, UploadNewVersion(s, c, d)
      PROVE  versions' = versions
  BY <1>5 DEF UploadNewVersion, Begin, rows
<1>6. ASSUME NEW c \in Companies, NEW d \in Documents, GetDownloadUrl(c, d)
      PROVE  versions' = versions
  BY <1>6 DEF GetDownloadUrl, rows
<1>7. ASSUME NEW c \in Companies, NEW f \in Folders, NEW p \in Folders \cup {None}, CreateFolder(c, f, p)
      PROVE  versions' = versions
  BY <1>7 DEF CreateFolder
<1>8. UNCHANGED vars => versions' = versions
  BY DEF vars, rows
<1>. QED
  BY <1>1, <1>2, <1>3, <1>4, <1>5, <1>6, <1>7, <1>8, SameIsKept DEF Next

(* The vault implements the archive: along every behaviour, nothing ever happens
   to the uploads kept but that one document gets one more of its own. *)
THEOREM VaultIsAnArchive == Spec => NeverLost
<1>1. Init => TheArchive!Init
  BY DEF Init, TheArchive!Init, Kept
<1>2. IInv /\ IInv' /\ [Next]_vars => [TheArchive!Next]_Kept
  BY StepImplements
<1>. QED
  BY <1>1, <1>2, VaultIsSound, PTL DEF Spec, NeverLost, TheArchive!Spec

(***************************************************************************)
(* The assistant: what a turn in flight has said, what the logs hold, and   *)
(* what a conversation without a failure or an overlap looks like, are kept *)
(* action by action.                                                        *)
(***************************************************************************)

(* A turn in flight, and the message it says next. *)
LEMMA IdleIsNoTurn == Assistant!NoCall \notin Assistant!Calls
  /\ \A k \in Assistant!Calls : k # Assistant!NoCall
<1> DEFINE M == Seq(Assistant!Messages)
<1>1. Assistant!Calls =
                  [at : {"save question", "retrieve", "call model", "save answer", "touch"},
                   conversation : Conversations, of : Companies, turn : Assistant!Turns,
                   question : Questions,
                   prior : M, sources : Assistant!SourceLists, flag : Assistant!Flags \cup {None}]
  BY DEF Assistant!Calls
<1> HIDE DEF M
<1>2. \A k \in Assistant!Calls : k.at # "idle"
  BY <1>1
<1>3. Assistant!NoCall.at = "idle"
  BY DEF Assistant!NoCall
<1>. QED
  BY <1>2, <1>3

LEMMA CallIs ==
  ASSUME Assistant!Typed, NEW s \in Slots, ~Assistant!Idle(s)
  PROVE  /\ turn[s] \in Assistant!Calls
         /\ turn[s].at \in {"save question", "retrieve", "call model", "save answer", "touch"}
         /\ turn[s].conversation \in Conversations /\ turn[s].of \in Companies
         /\ turn[s].turn \in Assistant!Turns /\ turn[s].question \in Questions
         /\ turn[s].prior \in Seq(Assistant!Messages) /\ turn[s].sources \in Assistant!SourceLists
         /\ turn[s].flag \in Assistant!Flags \cup {None}
<1>1. turn[s] \in Assistant!Calls
  BY DEF Assistant!Typed, Assistant!Idle
<1> DEFINE M == Seq(Assistant!Messages)
<1>2. Assistant!Calls =
                  [at : {"save question", "retrieve", "call model", "save answer", "touch"},
                   conversation : Conversations, of : Companies, turn : Assistant!Turns,
                   question : Questions,
                   prior : M, sources : Assistant!SourceLists, flag : Assistant!Flags \cup {None}]
  BY DEF Assistant!Calls
<1> HIDE DEF M
<1>3. /\ turn[s].at \in {"save question", "retrieve", "call model", "save answer", "touch"}
      /\ turn[s].conversation \in Conversations /\ turn[s].of \in Companies
      /\ turn[s].turn \in Assistant!Turns /\ turn[s].question \in Questions
      /\ turn[s].prior \in M /\ turn[s].sources \in Assistant!SourceLists
      /\ turn[s].flag \in Assistant!Flags \cup {None}
  BY <1>1, <1>2
<1>. QED
  BY <1>1, <1>3 DEF M

IsMessage(m, k, sender) ==
  m \in Assistant!Messages /\ m.sender = sender /\ m.turn = k.turn /\ m.of = k.of /\ m.flag = k.flag
    /\ m.question = k.question /\ m.sources = k.sources

LEMMA MessageIs ==
  ASSUME Assistant!Typed, NEW s \in Slots, ~Assistant!Idle(s), NEW sender \in {"user", "assistant"}
  PROVE  IsMessage(Assistant!Message(s, sender), turn[s], sender)
<1>1. /\ turn[s].of \in Companies /\ turn[s].turn \in Assistant!Turns
           /\ turn[s].question \in Questions
      /\ turn[s].sources \in Assistant!SourceLists /\ turn[s].flag \in Assistant!Flags \cup {None}
  BY CallIs
<1> DEFINE m == [sender |-> sender, turn |-> turn[s].turn, of |-> turn[s].of,
                 question |-> turn[s].question, sources |-> turn[s].sources,
                 flag |-> turn[s].flag]
<1>2. IsMessage(m, turn[s], sender)
  BY <1>1 DEF IsMessage, Assistant!Messages
<1>. QED
  BY <1>2 DEF Assistant!Message

(* A turn that moves on keeps what it is about. *)
Moved(x, k, at, sources, flag) ==
  /\ x \in Assistant!Calls /\ x.at = at /\ x.flag = flag /\ x.turn = k.turn /\ x.of = k.of
  /\ x.conversation = k.conversation /\ x.prior = k.prior
  /\ x.question = k.question /\ x.sources = sources

LEMMA MovedIs ==
  ASSUME NEW k \in Assistant!Calls, NEW sources \in Assistant!SourceLists,
         NEW flag \in Assistant!Flags \cup {None},
         NEW at \in {"save question", "retrieve", "call model", "save answer", "touch"}
  PROVE  Moved([k EXCEPT !.sources = sources, !.at = at, !.flag = flag], k, at, sources, flag)
<1> DEFINE M == Seq(Assistant!Messages)
           F == Assistant!Flags \cup {None}
           S == Assistant!SourceLists
<1>1. Assistant!Calls =
                  [at : {"save question", "retrieve", "call model", "save answer", "touch"},
                   conversation : Conversations, of : Companies, turn : Assistant!Turns,
                   question : Questions,
                   prior : M, sources : S, flag : F]
  BY DEF Assistant!Calls
<1>2. flag \in F /\ sources \in S
  OBVIOUS
<1> HIDE DEF M, F, S
<1> DEFINE y == [k EXCEPT !.sources = sources]
           z == [y EXCEPT !.at = at]
           x == [z EXCEPT !.flag = flag]
<1>3. /\ y \in Assistant!Calls /\ y.flag = k.flag /\ y.turn = k.turn /\ y.of = k.of
      /\ y.conversation = k.conversation /\ y.prior = k.prior
      /\ y.question = k.question /\ y.sources = sources
  BY <1>1, <1>2
<1> HIDE DEF y
<1>4. /\ z \in Assistant!Calls /\ z.at = at /\ z.turn = k.turn /\ z.of = k.of
      /\ z.conversation = k.conversation /\ z.prior = k.prior
      /\ z.question = k.question /\ z.sources = sources
  BY <1>1, <1>3
<1> HIDE DEF z
<1>5. /\ x \in Assistant!Calls /\ x.at = at /\ x.flag = flag /\ x.turn = k.turn /\ x.of = k.of
      /\ x.conversation = k.conversation /\ x.prior = k.prior
      /\ x.question = k.question /\ x.sources = sources
  BY <1>1, <1>2, <1>4
<1> HIDE DEF x
<1>6. Moved(x, k, at, sources, flag)
  BY <1>5 DEF Moved
<1>. QED
  BY <1>6 DEF x, y, z

LEMMA FlaggedIs ==
  ASSUME NEW k \in Assistant!Calls, NEW flag \in Assistant!Flags \cup {None},
         NEW at \in {"save question", "retrieve", "call model", "save answer", "touch"}
  PROVE  Moved([k EXCEPT !.at = at, !.flag = flag], k, at, k.sources, flag)
<1> DEFINE M == Seq(Assistant!Messages)
           F == Assistant!Flags \cup {None}
           S == Assistant!SourceLists
<1>1. Assistant!Calls =
                  [at : {"save question", "retrieve", "call model", "save answer", "touch"},
                   conversation : Conversations, of : Companies, turn : Assistant!Turns,
                   question : Questions,
                   prior : M, sources : S, flag : F]
  BY DEF Assistant!Calls
<1>2. flag \in F
  OBVIOUS
<1> HIDE DEF M, F, S
<1> DEFINE z == [k EXCEPT !.at = at]
           x == [z EXCEPT !.flag = flag]
<1>3. /\ z \in Assistant!Calls /\ z.at = at /\ z.turn = k.turn /\ z.of = k.of
      /\ z.conversation = k.conversation /\ z.prior = k.prior
      /\ z.question = k.question /\ z.sources = k.sources
  BY <1>1
<1> HIDE DEF z
<1>4. /\ x \in Assistant!Calls /\ x.at = at /\ x.flag = flag /\ x.turn = k.turn /\ x.of = k.of
      /\ x.conversation = k.conversation /\ x.prior = k.prior
      /\ x.question = k.question /\ x.sources = k.sources
  BY <1>1, <1>2, <1>3
<1> HIDE DEF x
<1>5. Moved(x, k, at, k.sources, flag)
  BY <1>4 DEF Moved
<1>. QED
  BY <1>5 DEF x, z

LEMMA StageIs ==
  ASSUME NEW k \in Assistant!Calls,
         NEW at \in {"save question", "retrieve", "call model", "save answer", "touch"}
  PROVE  Moved([k EXCEPT !.at = at], k, at, k.sources, k.flag)
<1> DEFINE M == Seq(Assistant!Messages)
           F == Assistant!Flags \cup {None}
<1>1. Assistant!Calls =
                  [at : {"save question", "retrieve", "call model", "save answer", "touch"},
                   conversation : Conversations, of : Companies, turn : Assistant!Turns,
                   question : Questions,
                   prior : M, sources : Assistant!SourceLists, flag : F]
  BY DEF Assistant!Calls
<1> HIDE DEF M, F
<1> DEFINE x == [k EXCEPT !.at = at]
<1>2. /\ x \in Assistant!Calls /\ x.at = at /\ x.flag = k.flag /\ x.turn = k.turn /\ x.of = k.of
      /\ x.conversation = k.conversation /\ x.prior = k.prior
      /\ x.question = k.question /\ x.sources = k.sources
  BY <1>1
<1>. QED
  BY <1>2 DEF Moved

(* What a step that sets one slot does to the turns in flight. *)
SetTo(s, k) ==
  /\ turn' \in [Slots -> Assistant!Calls \cup {Assistant!NoCall}] /\ turn'[s] = k
  /\ \A t \in Slots : t # s => turn'[t] = turn[t]

LEMMA GoesIs ==
  ASSUME Assistant!Typed, NEW s \in Slots, NEW k \in Assistant!Calls \cup {Assistant!NoCall},
         Assistant!Goes(s, k)
  PROVE  SetTo(s, k)
<1> DEFINE C == Assistant!Calls \cup {Assistant!NoCall}
<1>1. turn \in [Slots -> C] /\ k \in C /\ turn' = [turn EXCEPT ![s] = k]
  BY DEF Assistant!Typed, Assistant!Goes
<1> HIDE DEF C
<1>2. turn' \in [Slots -> C] /\ turn'[s] = k /\ \A t \in Slots : t # s => turn'[t] = turn[t]
  BY <1>1
<1>. QED
  BY <1>2 DEF SetTo, C

(* What a message said does to the logs. *)
Adds(c, m) ==
  /\ log' \in [Conversations -> Seq(Assistant!Messages)]
  /\ \A d \in Conversations : d # c => log'[d] = log[d]
  /\ Len(log'[c]) = Len(log[c]) + 1 /\ Len(log[c]) \in Nat
  /\ DOMAIN log[c] = 1..Len(log[c]) /\ DOMAIN log'[c] = 1..(Len(log[c]) + 1)
  /\ \A i \in DOMAIN log[c] : log'[c][i] = log[c][i]
  /\ log'[c][Len(log[c]) + 1] = m

LEMMA AddsIs ==
  ASSUME Assistant!Typed, NEW c \in Conversations, NEW m \in Assistant!Messages,
         log' = [log EXCEPT ![c] = Append(log[c], m)]
  PROVE  Adds(c, m)
<1> DEFINE M == Assistant!Messages
           e == Append(log[c], m)
           n == Len(log[c])
<1>1. log \in [Conversations -> Seq(M)] /\ m \in M
  BY DEF Assistant!Typed
<1> HIDE DEF M
<1>2. /\ e \in Seq(M) /\ Len(e) = n + 1 /\ n \in Nat /\ DOMAIN log[c] = 1..n
      /\ DOMAIN e = 1..(n + 1)
      /\ \A i \in 1..n : e[i] = log[c][i]
      /\ e[n + 1] = m
  BY <1>1
<1> HIDE DEF e
<1>3. log' = [log EXCEPT ![c] = e]
  BY DEF e
<1>4. /\ log' \in [Conversations -> Seq(M)] /\ log'[c] = e
      /\ \A d \in Conversations : d # c => log'[d] = log[d]
  BY <1>1, <1>2, <1>3
<1>. QED
  BY <1>2, <1>4 DEF Adds, M

LEMMA SaidNext ==
  ASSUME NEW c \in Conversations, NEW m, Adds(c, m)
  PROVE  \A d \in Conversations : \A t, x :
           Assistant!Said(d, t, x)' <=> Assistant!Said(d, t, x)
             \/ (d = c /\ m.turn = t /\ m.sender = x)
<1>. SUFFICES ASSUME NEW d \in Conversations, NEW t, NEW x
              PROVE  Assistant!Said(d, t, x)' <=> Assistant!Said(d, t, x)
                       \/ (d = c /\ m.turn = t /\ m.sender = x)
  OBVIOUS
<1>1. CASE d # c
  BY <1>1 DEF Adds, Assistant!Said
<1>2. CASE d = c
  <2> DEFINE n == Len(log[c])
  <2>1. /\ n \in Nat /\ DOMAIN log[c] = 1..n /\ DOMAIN log'[c] = 1..(n + 1)
        /\ \A i \in 1..n : log'[c][i] = log[c][i]
        /\ log'[c][n + 1] = m
    BY DEF Adds
  <2> HIDE DEF n
  <2>2. \A i \in 1..(n + 1) : i \in 1..n \/ i = n + 1
    BY <2>1
  <2>3. n + 1 \in 1..(n + 1) /\ 1..n \subseteq 1..(n + 1)
    BY <2>1
  <2>. QED
    BY <1>2, <2>1, <2>2, <2>3 DEF Assistant!Said
<1>. QED
  BY <1>1, <1>2

(* Another turn's dealings are no concern of this one. *)
LEMMA OtherTurn ==
  ASSUME Assistant!Typed, NEW s \in Slots, ~Assistant!Idle(s), Assistant!InTurn(s),
         turn'[s] = turn[s],
         asked' \in Nat, asked \in Nat, asked <= asked', turn[s].turn \notin failed',
         owner'[turn[s].conversation] = owner[turn[s].conversation],
         \A c \in Conversations, x \in {"user", "assistant"},
         n \in Assistant!Turns : n = turn[s].turn =>
           (Assistant!Said(c, n, x)' <=> Assistant!Said(c, n, x))
  PROVE  Assistant!InTurn(s)'
<1>. PICK k : k = turn[s]
  OBVIOUS
<1>1. /\ k.conversation \in Conversations /\ k.at # "idle" /\ k.turn \in Assistant!Turns
      /\ k.turn \in 1..asked /\ k.of = owner[k.conversation]
      /\ k.flag \in IF k.at \in {"save answer", "touch"} THEN Assistant!Flags ELSE {None}
      /\ k.at = "save question" => \A c \in Conversations : ~Assistant!Said(c, k.turn, "user")
      /\ k.at # "save question" => Assistant!Said(k.conversation, k.turn, "user")
      /\ k.at # "touch" => \A c \in Conversations : ~Assistant!Said(c, k.turn, "assistant")
      /\ k.at = "touch" => Assistant!Said(k.conversation, k.turn, "assistant")
  BY CallIs DEF Assistant!InTurn
<1>n. PICK n : n = k.turn
  OBVIOUS
<1>2. n \in 1..asked'
  <2>1. n \in 1..asked
    BY <1>1, <1>n
  <2>2. \A b \in Nat : asked <= b => n \in 1..b
    BY <2>1
  <2>. QED
    BY <2>2
<1>s. \A c \in Conversations :
        /\ Assistant!Said(c, n, "user")' <=> Assistant!Said(c, n, "user")
        /\ Assistant!Said(c, n, "assistant")' <=> Assistant!Said(c, n, "assistant")
  BY <1>1, <1>n
<1>3. /\ k.at = "save question" => \A c \in Conversations : ~Assistant!Said(c, n, "user")'
      /\ k.at # "save question" => Assistant!Said(k.conversation, n, "user")'
      /\ k.at # "touch" => \A c \in Conversations : ~Assistant!Said(c, n, "assistant")'
      /\ k.at = "touch" => Assistant!Said(k.conversation, n, "assistant")'
  BY <1>1, <1>n, <1>s
<1>. QED
  BY <1>1, <1>2, <1>3, <1>n DEF Assistant!InTurn

(* The turns in flight after one of them moved, or ended. *)
LEMMA TurnsKept ==
  ASSUME Assistant!IInv, NEW s \in Slots, NEW k \in Assistant!Calls \cup {Assistant!NoCall},
         SetTo(s, k),
         asked' \in Nat, asked <= asked',
         k # Assistant!NoCall => Assistant!InTurn(s)',
         k # Assistant!NoCall => \A t \in Slots : t # s /\ ~Assistant!Idle(t)
           => turn[t].turn # k.turn,
         \A t \in Slots : t # s /\ ~Assistant!Idle(t) =>
           /\ turn[t].turn \notin failed'
           /\ owner'[turn[t].conversation] = owner[turn[t].conversation]
           /\ \A c \in Conversations, x \in {"user", "assistant"},
              n \in Assistant!Turns : n = turn[t].turn =>
                (Assistant!Said(c, n, x)' <=> Assistant!Said(c, n, x))
  PROVE  Assistant!InOrder'
<1>1. asked \in Nat /\ Assistant!Typed
  BY DEF Assistant!IInv, Assistant!Typed
<1>2. \A t \in Slots : t # s => (Assistant!Idle(t)' <=> Assistant!Idle(t)) /\ turn'[t] = turn[t]
  BY DEF SetTo, Assistant!Idle
<1>3. Assistant!Idle(s)' <=> k = Assistant!NoCall
  BY DEF SetTo, Assistant!Idle
<1>4. ASSUME NEW t \in Slots, ~Assistant!Idle(t)' PROVE Assistant!InTurn(t)'
  <2>1. CASE t = s
    BY <1>3, <1>4, <2>1
  <2>2. CASE t # s
    <3>1. ~Assistant!Idle(t) /\ Assistant!InTurn(t) /\ turn'[t] = turn[t]
      BY <1>2, <1>4, <2>2 DEF Assistant!IInv, Assistant!InOrder
    <3>. QED
      BY <1>1, <2>2, <3>1, OtherTurn
  <2>. QED
    BY <2>1, <2>2
<1>5. ASSUME NEW t \in Slots, NEW u \in Slots, ~Assistant!Idle(t)', ~Assistant!Idle(u)',
             turn'[t].turn = turn'[u].turn
      PROVE  t = u
  <2>1. CASE t # s /\ u # s
    BY <1>2, <1>5, <2>1 DEF Assistant!IInv, Assistant!InOrder
  <2>2. CASE t = s /\ u # s
    BY <1>2, <1>3, <1>5, <2>2 DEF SetTo
  <2>3. CASE t # s /\ u = s
    BY <1>2, <1>3, <1>5, <2>3 DEF SetTo
  <2>. QED
    BY <2>1, <2>2, <2>3
<1>. QED
  BY <1>4, <1>5 DEF Assistant!InOrder

(* What the logs hold when nothing, or one message, is added to them. *)
LEMMA LogsSame ==
  ASSUME Assistant!IInv, log' = log, asked' \in Nat, asked <= asked',
         \A c \in Conversations : log[c] # <<>> => owner'[c] = owner[c],
         \A c \in Conversations : \A i \in Assistant!Answers(c) : log[c][i].turn \notin failed',
         \A c \in Conversations : touched'[c] # 0 => Assistant!Said(c, touched'[c], "assistant")
  PROVE  Assistant!LogsOK'
<1>1. asked \in Nat /\ log \in [Conversations -> Seq(Assistant!Messages)]
  BY DEF Assistant!IInv, Assistant!Typed
<1>2. \A n : n \in 1..asked => n \in 1..asked'
  BY <1>1
<1>3. \A c \in Conversations : DOMAIN log[c] # {} => log[c] # <<>>
  <2> DEFINE M == Assistant!Messages
  <2>1. log \in [Conversations -> Seq(M)]
    BY <1>1
  <2> HIDE DEF M
  <2>. QED
    BY <2>1
<1>4. ASSUME NEW c \in Conversations, NEW i \in DOMAIN log[c]
      PROVE  Assistant!MessageOK(c, i)'
  <2>1. Assistant!MessageOK(c, i) /\ owner'[c] = owner[c]
    BY <1>3, <1>4 DEF Assistant!IInv, Assistant!LogsOK
  <2>2. log[c][i].sender = "assistant" => log[c][i].turn \notin failed'
    BY DEF Assistant!Answers
  <2>3. Assistant!Answers(c)' = Assistant!Answers(c)
    BY DEF Assistant!Answers
  <2>. QED
    BY <1>2, <2>1, <2>2, <2>3 DEF Assistant!MessageOK
<1>5. \A c \in Conversations : touched'[c] # 0 =>
        \E i \in DOMAIN log'[c] : log'[c][i].turn = touched'[c] /\ log'[c][i].sender = "assistant"
  BY DEF Assistant!Said
<1>. QED
  BY <1>4, <1>5 DEF Assistant!LogsOK, Assistant!Said

LEMMA LogAdded ==
  ASSUME Assistant!IInv, NEW c \in Conversations, NEW m \in Assistant!Messages, Adds(c, m),
         UNCHANGED <<owner, touched, asked, failed>>,
         m.turn \in 1..asked, m.of = owner[c],
         m.flag \in IF m.sender = "user" THEN {None} ELSE Assistant!Flags,
         m.sender = "assistant" => /\ m.turn \notin failed /\ Assistant!Said(c, m.turn, "user")
                                   /\ ~Assistant!Said(c, m.turn, "assistant")
  PROVE  Assistant!LogsOK'
<1> DEFINE n == Len(log[c])
<1>1. /\ n \in Nat /\ DOMAIN log[c] = 1..n /\ DOMAIN log'[c] = 1..(n + 1)
      /\ \A i \in 1..n : log'[c][i] = log[c][i]
      /\ log'[c][n + 1] = m
      /\ \A d \in Conversations : d # c => log'[d] = log[d]
  BY DEF Adds
<1>2. PICK l : l = n
  OBVIOUS
<1> HIDE DEF n
<1>3. /\ l \in Nat /\ DOMAIN log[c] = 1..l /\ DOMAIN log'[c] = 1..(l + 1)
      /\ \A i \in 1..l : log'[c][i] = log[c][i]
      /\ log'[c][l + 1] = m
  BY <1>1, <1>2
<1>4. \A i : i \in 1..(l + 1) <=> i \in 1..l \/ i = l + 1
  BY <1>3
<1>5. /\ \A i \in 1..l : \A j : j \in 1..(i - 1) => j \in 1..l
      /\ \A j \in 1..l : j # l + 1
      /\ 1..((l + 1) - 1) = 1..l
  BY <1>3
<1>6. \A j : j \in Assistant!Answers(c)' <=> j \in Assistant!Answers(c)
        \/ (j = l + 1 /\ m.sender = "assistant")
  BY <1>3, <1>4, <1>5 DEF Assistant!Answers
<1>7. \A j \in Assistant!Answers(c) : j \in 1..l /\ log[c][j].sender = "assistant"
  BY <1>3 DEF Assistant!Answers
<1>8. ASSUME NEW d \in Conversations, d # c, NEW i \in DOMAIN log'[d]
      PROVE  Assistant!MessageOK(d, i)'
  <2>1. log'[d] = log[d]
    BY <1>1, <1>8
  <2>2. Assistant!MessageOK(d, i) /\ Assistant!Answers(d)' = Assistant!Answers(d)
    BY <1>8, <2>1 DEF Assistant!IInv, Assistant!LogsOK, Assistant!Answers
  <2>. QED
    BY <2>1, <2>2 DEF Assistant!MessageOK
<1>9. ASSUME NEW i \in 1..l
      PROVE  Assistant!MessageOK(c, i)'
  <2>1. Assistant!MessageOK(c, i) /\ log'[c][i] = log[c][i]
    BY <1>3 DEF Assistant!IInv, Assistant!LogsOK
  <2>2. \A j \in 1..(i - 1) : log'[c][j] = log[c][j]
    BY <1>3, <1>5
  <2>3. log[c][i].sender = "assistant" =>
          /\ log[c][i].turn \notin failed
          /\ \E j \in 1..(i - 1) : log'[c][j].sender = "user" /\ log'[c][j].turn = log[c][i].turn
    BY <2>1, <2>2 DEF Assistant!MessageOK
  <2>4. ASSUME log[c][i].sender = "assistant", NEW j \in Assistant!Answers(c)',
               log'[c][j].turn = log[c][i].turn
        PROVE  j = i
    <3>1. CASE j \in Assistant!Answers(c)
      <4>1. log'[c][j] = log[c][j]
        BY <1>3, <1>7, <3>1
      <4>. QED
        BY <2>1, <2>4, <3>1, <4>1 DEF Assistant!MessageOK
    <3>2. CASE j = l + 1 /\ m.sender = "assistant"
      <4>1. m.turn = log[c][i].turn /\ i \in DOMAIN log[c]
        BY <1>3, <2>4, <3>2
      <4>2. Assistant!Said(c, log[c][i].turn, "assistant")
        BY <2>4, <4>1 DEF Assistant!Said
      <4>. QED
        BY <3>2, <4>1, <4>2
    <3>. QED
      BY <1>6, <2>4, <3>1, <3>2
  <2>. QED
    BY <2>1, <2>3, <2>4 DEF Assistant!MessageOK
<1>10. Assistant!MessageOK(c, l + 1)'
  <2>1. m.sender = "assistant" =>
          \E j \in 1..((l + 1) - 1) : log'[c][j].sender = "user" /\ log'[c][j].turn = m.turn
    BY <1>3, <1>5 DEF Assistant!Said
  <2>2. ASSUME m.sender = "assistant", NEW j \in Assistant!Answers(c)', log'[c][j].turn = m.turn
        PROVE  j = l + 1
    <3>1. SUFFICES ASSUME j \in Assistant!Answers(c) PROVE FALSE
      BY <1>6, <2>2
    <3>2. j \in DOMAIN log[c] /\ log'[c][j] = log[c][j] /\ log[c][j].sender = "assistant"
      BY <1>3, <1>7, <3>1
    <3>3. Assistant!Said(c, m.turn, "assistant")
      BY <2>2, <3>2 DEF Assistant!Said
    <3>. QED
      BY <2>2, <3>3
  <2>3. PICK p : p = l + 1
    OBVIOUS
  <2>4. Assistant!MessageOK(c, p)'
    BY <1>3, <2>1, <2>2, <2>3 DEF Assistant!MessageOK
  <2>. QED
    BY <2>3, <2>4
<1>11. \A d \in Conversations : \A i \in DOMAIN log'[d] : Assistant!MessageOK(d, i)'
  <2>. SUFFICES ASSUME NEW d \in Conversations,
                       NEW i \in DOMAIN log'[d] PROVE Assistant!MessageOK(d, i)'
    OBVIOUS
  <2>. QED
    BY <1>3, <1>4, <1>8, <1>9, <1>10
<1>12. \A d \in Conversations : touched[d] # 0 => Assistant!Said(d, touched[d], "assistant")
  BY DEF Assistant!IInv, Assistant!LogsOK
<1>13. \A d \in Conversations : touched[d] # 0 =>
         \E i \in DOMAIN log'[d] : log'[d][i].turn = touched[d] /\ log'[d][i].sender = "assistant"
  <2>. SUFFICES ASSUME NEW d \in Conversations, touched[d] # 0
                PROVE  \E i \in DOMAIN log'[d] :
                         log'[d][i].turn = touched[d] /\ log'[d][i].sender = "assistant"
    OBVIOUS
  <2>1. PICK i \in DOMAIN log[d] : log[d][i].turn = touched[d] /\ log[d][i].sender = "assistant"
    BY <1>12 DEF Assistant!Said
  <2>. QED
    BY <1>1, <1>3, <1>4, <2>1
<1>. QED
  BY <1>11, <1>13 DEF Assistant!LogsOK, Assistant!Said

(* Whose turn is next. *)
LEMMA Parity ==
  /\ \A n \in Nat : Assistant!IsEven(n) => ~Assistant!IsEven(n + 1)
  /\ \A n \in Nat : ~Assistant!IsEven(n) => Assistant!IsEven(n + 1)
  /\ Assistant!IsEven(0)
BY DEF Assistant!IsEven

(* A conversation that a step does not touch, and one whose only turn takes it. *)
LEMMA AlternatesElse ==
  ASSUME Assistant!Typed, NEW c \in Conversations, Assistant!Alternates(c), log'[c] = log[c],
         NEW s \in Slots, NEW k \in Assistant!Calls \cup {Assistant!NoCall}, SetTo(s, k),
         ~Assistant!On(s, c), k = Assistant!NoCall \/ k.conversation # c
  PROVE  Assistant!Alternates(c)'
<1>1. \A t \in Slots : Assistant!On(t, c)' <=> Assistant!On(t, c)
  BY DEF SetTo, Assistant!On, Assistant!Idle
<1>2. \A t \in Slots : Assistant!On(t, c) => turn'[t] = turn[t]
  BY DEF SetTo
<1>. QED
  BY <1>1, <1>2, ZenonT(60) DEF Assistant!Alternates

LEMMA OneTurn ==
  ASSUME Assistant!Typed, NEW c \in Conversations, NEW s \in Slots,
         \A t \in Slots : Assistant!On(t, c) => t = s,
         NEW k \in Assistant!Calls \cup {Assistant!NoCall}, SetTo(s, k),
         k # Assistant!NoCall => k.conversation = c
  PROVE  \A t \in Slots : Assistant!On(t, c)' <=> t = s /\ k # Assistant!NoCall
BY DEF SetTo, Assistant!On, Assistant!Idle

-----------------------------------------------------------------------------
(* Every action keeps the invariant. *)

LEMMA Starts == Assistant!Init => Assistant!IInv
<1>. SUFFICES ASSUME Assistant!Init PROVE Assistant!IInv
  OBVIOUS
<1> DEFINE M == Assistant!Messages
<1>1. log \in [Conversations -> Seq(M)] /\ \A c \in Conversations : log[c] = <<>>
  BY DEF Assistant!Init
<1> HIDE DEF M
<1>2. \A c \in Conversations : DOMAIN log[c] = {} /\ Len(log[c]) = 0
  BY <1>1
<1>3. \A s \in Slots : Assistant!Idle(s)
  BY DEF Assistant!Init, Assistant!Idle
<1>4. Assistant!Typed
  BY <1>1, WindowAssumption, NoneAssumption DEF Assistant!Init, Assistant!Typed, M
<1>5. Assistant!InOrder
  BY <1>3 DEF Assistant!InOrder
<1>6. Assistant!LogsOK
  BY <1>2 DEF Assistant!Init, Assistant!LogsOK
<1>7. Assistant!Unbroken
  BY <1>2, <1>3, Parity DEF Assistant!Init, Assistant!Unbroken, Assistant!Alternates, Assistant!On
<1>. QED
  BY <1>4, <1>5, <1>6, <1>7 DEF Assistant!IInv

LEMMA AlternatesSame ==
  ASSUME log' = log, turn' = turn, NEW c \in Conversations, Assistant!Alternates(c)
  PROVE  Assistant!Alternates(c)'
<1>1. \A s \in Slots : Assistant!On(s, c)' <=> Assistant!On(s, c)
  BY DEF Assistant!On, Assistant!Idle
<1>. QED
  BY <1>1 DEF Assistant!Alternates

LEMMA StutteringIsFine == Assistant!IInv /\ UNCHANGED Assistant!vars => Assistant!IInv'
<1>. SUFFICES ASSUME Assistant!IInv, UNCHANGED Assistant!vars PROVE Assistant!IInv'
  OBVIOUS
<1>1. /\ owner' = owner /\ log' = log /\ touched' = touched /\ turn' = turn
      /\ asked' = asked /\ failed' = failed /\ unbroken' = unbroken
  BY DEF Assistant!vars, Assistant!account
<1>2. Assistant!Typed'
  BY <1>1 DEF Assistant!IInv, Assistant!Typed
<1>3. Assistant!InOrder'
  BY <1>1, ZenonT(60) DEF Assistant!IInv, Assistant!InOrder, Assistant!InTurn, Assistant!Idle,
     Assistant!Said
<1>4. Assistant!LogsOK'
  BY <1>1 DEF Assistant!IInv, Assistant!LogsOK, Assistant!MessageOK, Assistant!Answers,
     Assistant!Said
<1>5. Assistant!Unbroken'
  BY <1>1, AlternatesSame DEF Assistant!IInv, Assistant!Typed, Assistant!Unbroken
<1>. QED
  BY <1>2, <1>3, <1>4, <1>5 DEF Assistant!IInv

(* Nobody has said anything yet in a conversation that is not begun. *)
LEMMA NewIsEmpty ==
  ASSUME Assistant!IInv, NEW c \in Conversations, owner[c] = None
  PROVE  log[c] = <<>> /\ \A s \in Slots : ~Assistant!Idle(s) => turn[s].conversation # c
<1> DEFINE M == Assistant!Messages
<1>1. log[c] \in Seq(M) /\ None \notin Companies
  BY WindowAssumption, NoneAssumption DEF Assistant!IInv, Assistant!Typed
<1>2. \A m \in M : m.of \in Companies
  BY DEF Assistant!Messages
<1> HIDE DEF M
<1>3. \A i \in DOMAIN log[c] : log[c][i].of = None
  BY DEF Assistant!IInv, Assistant!LogsOK, Assistant!MessageOK
<1>4. \A i \in DOMAIN log[c] : log[c][i] \in M
  BY <1>1
<1>5. DOMAIN log[c] = {}
  BY <1>1, <1>2, <1>3, <1>4
<1>6. log[c] = <<>>
  <2>1. Len(log[c]) \in Nat /\ DOMAIN log[c] = 1..Len(log[c])
    BY <1>1
  <2>2. Len(log[c]) = 0
    <3>1. PICK n : n = Len(log[c])
      OBVIOUS
    <3>2. n \in Nat /\ 1 \notin 1..n
      BY <1>5, <2>1, <3>1
    <3>. QED
      BY <3>1, <3>2
  <2>. QED
    BY <1>1, <2>2
<1>7. ASSUME NEW s \in Slots, ~Assistant!Idle(s) PROVE turn[s].conversation # c
  <2>1. turn[s].of \in Companies /\ turn[s].of = owner[turn[s].conversation]
    BY <1>7, CallIs DEF Assistant!IInv, Assistant!InOrder, Assistant!InTurn
  <2>. QED
    BY <1>1, <2>1
<1>. QED
  BY <1>6, <1>7

LEMMA StartConversationKeeps ==
  ASSUME Assistant!IInv, NEW of \in Companies, NEW c \in Conversations,
         Assistant!StartConversation(of, c)
  PROVE  Assistant!IInv'
<1>1. /\ owner[c] = None /\ owner' = [owner EXCEPT ![c] = of] /\ log' = log
      /\ touched' = touched /\ turn' = turn
      /\ asked' = asked /\ failed' = failed /\ unbroken' = unbroken
  BY DEF Assistant!StartConversation, Assistant!account
<1>2. Assistant!Typed'
  BY <1>1 DEF Assistant!IInv, Assistant!Typed
<1>3. \A d \in Conversations : d # c => owner'[d] = owner[d]
  BY <1>1 DEF Assistant!IInv, Assistant!Typed
<1>4. log[c] = <<>> /\ \A s \in Slots : ~Assistant!Idle(s) => turn[s].conversation # c
  BY <1>1, NewIsEmpty
<1>5. Assistant!InOrder'
  <2>1. ASSUME NEW s \in Slots, ~Assistant!Idle(s) PROVE Assistant!InTurn(s)'
    <3>1. /\ Assistant!Typed /\ Assistant!InTurn(s) /\ turn[s].conversation \in Conversations
          /\ turn[s].turn \notin failed
      BY <2>1, CallIs DEF Assistant!IInv, Assistant!InOrder, Assistant!InTurn
    <3>2. owner'[turn[s].conversation] = owner[turn[s].conversation]
      BY <1>3, <1>4, <2>1, <3>1
    <3>3. \A d \in Conversations, x \in {"user", "assistant"},
          n \in Assistant!Turns : n = turn[s].turn =>
            (Assistant!Said(d, n, x)' <=> Assistant!Said(d, n, x))
      BY <1>1 DEF Assistant!Said
    <3>. QED
      BY <1>1, <3>1, <3>2 DEF Assistant!InTurn, Assistant!Said
  <2>2. \A s \in Slots : Assistant!Idle(s)' <=> Assistant!Idle(s)
    BY <1>1 DEF Assistant!Idle
  <2>. QED
    BY <1>1, <2>1, <2>2 DEF Assistant!IInv, Assistant!InOrder
<1>6. Assistant!LogsOK'
  <2>1. asked \in Nat /\ asked <= asked
    BY DEF Assistant!IInv, Assistant!Typed
  <2>2. \A d \in Conversations : log[d] # <<>> => owner'[d] = owner[d]
    BY <1>3, <1>4
  <2>3. \A d \in Conversations : \A i \in Assistant!Answers(d) : log[d][i].turn \notin failed
    BY DEF Assistant!IInv, Assistant!LogsOK, Assistant!MessageOK, Assistant!Answers
  <2>4. \A d \in Conversations : touched'[d] # 0 => Assistant!Said(d, touched'[d], "assistant")
    BY <1>1 DEF Assistant!IInv, Assistant!LogsOK
  <2>. QED
    BY <1>1, <2>1, <2>2, <2>3, <2>4, LogsSame
<1>7. Assistant!Unbroken'
  BY <1>1, AlternatesSame DEF Assistant!IInv, Assistant!Typed, Assistant!Unbroken
<1>. QED
  BY <1>2, <1>5, <1>6, <1>7 DEF Assistant!IInv

(* Every turn in flight has its number, below the next. *)
LEMMA TurnsBelow ==
  ASSUME Assistant!IInv
  PROVE  /\ \A t \in Slots : ~Assistant!Idle(t)
           => turn[t].turn \in 1..asked /\ turn[t].turn \notin failed
         /\ \A c \in Conversations : \A i \in DOMAIN log[c] : log[c][i].turn \in 1..asked
         /\ asked \in Nat
<1>1. \A t \in Slots : ~Assistant!Idle(t) => turn[t].turn \in 1..asked /\ turn[t].turn \notin failed
  BY DEF Assistant!IInv, Assistant!InOrder, Assistant!InTurn
<1>2. \A c \in Conversations : \A i \in DOMAIN log[c] : log[c][i].turn \in 1..asked
  BY DEF Assistant!IInv, Assistant!LogsOK, Assistant!MessageOK
<1>3. asked \in Nat
  BY DEF Assistant!IInv, Assistant!Typed
<1>. QED
  BY <1>1, <1>2, <1>3

LEMMA SentIsCall ==
  ASSUME Assistant!IInv, NEW s \in Slots, NEW of \in Companies, NEW c \in Conversations,
         NEW q \in Questions, Assistant!SendMessage(s, of, c, q)
  PROVE  [at |-> "save question", conversation |-> c, of |-> of, turn |-> asked + 1,
          question |-> q, prior |-> log[c], sources |-> <<>>, flag |-> None] \in Assistant!Calls
<1> DEFINE M == Seq(Assistant!Messages)
           F == Assistant!Flags \cup {None}
           S == Assistant!SourceLists
<1>1. Assistant!Calls =
                  [at : {"save question", "retrieve", "call model", "save answer", "touch"},
                   conversation : Conversations, of : Companies, turn : Assistant!Turns,
                   question : Questions,
                   prior : M, sources : S, flag : F]
  BY DEF Assistant!Calls
<1>2. None \in F /\ <<>> \in S /\ log[c] \in M
  BY DEF Assistant!IInv, Assistant!Typed, Assistant!SourceLists
<1>3. asked + 1 \in Assistant!Turns
  <2>1. asked \in Nat /\ MaxTurns \in Nat
    BY WindowAssumption, NoneAssumption DEF Assistant!IInv, Assistant!Typed
  <2>2. asked < MaxTurns
    BY DEF Assistant!SendMessage
  <2>. QED
    BY <2>1, <2>2 DEF Assistant!Turns
<1> HIDE DEF M, F, S
<1>. QED
  BY <1>1, <1>2, <1>3

LEMMA SendMessageKeeps ==
  ASSUME Assistant!IInv, NEW s \in Slots, NEW of \in Companies, NEW c \in Conversations,
         NEW q \in Questions, Assistant!SendMessage(s, of, c, q)
  PROVE  Assistant!IInv'
<1> DEFINE k == [at |-> "save question", conversation |-> c, of |-> of, turn |-> asked + 1,
                 question |-> q, prior |-> log[c], sources |-> <<>>, flag |-> None]
<1>1. /\ Assistant!Idle(s) /\ asked < MaxTurns /\ owner[c] = of /\ asked' = asked + 1
           /\ Assistant!Goes(s, k)
      /\ unbroken' = unbroken \ {d \in {c} :
                                 \E t \in Slots : ~Assistant!Idle(t) /\ turn[t].conversation = d}
      /\ owner' = owner /\ log' = log /\ touched' = touched /\ failed' = failed
  BY DEF Assistant!SendMessage, Assistant!Mine
<1>2. Assistant!Typed /\ asked \in Nat /\ MaxTurns \in Nat /\ asked + 1 \in Assistant!Turns
        /\ asked' \in 0..MaxTurns
  <2>1. Assistant!Typed /\ asked \in Nat /\ MaxTurns \in Nat
    BY WindowAssumption, NoneAssumption DEF Assistant!IInv, Assistant!Typed
  <2>2. asked < MaxTurns /\ asked' = asked + 1
    BY <1>1
  <2>. QED
    BY <2>1, <2>2 DEF Assistant!Turns
<1>3. k \in Assistant!Calls
  BY SentIsCall
<1>4. /\ k.at = "save question" /\ k.conversation = c /\ k.of = of /\ k.turn = asked + 1
      /\ k.prior = log[c] /\ k.flag = None /\ k # Assistant!NoCall
  BY <1>3, IdleIsNoTurn
<1> HIDE DEF k
<1>5. SetTo(s, k)
  BY <1>1, <1>2, <1>3, GoesIs
<1>6. Assistant!Typed'
  <2>1. touched \in [Conversations -> 0..asked] /\ failed \subseteq 1..asked
        /\ unbroken \subseteq Conversations
    BY <1>2 DEF Assistant!Typed
  <2>2. 0..asked \subseteq 0..asked' /\ 1..asked \subseteq 1..asked'
    BY <1>1, <1>2
  <2>3. touched \in [Conversations -> 0..asked'] /\ failed \subseteq 1..asked'
    BY <2>1, <2>2
  <2>. QED
    BY <1>1, <1>2, <1>5, <2>1, <2>3 DEF Assistant!Typed, SetTo
<1>7. \A d \in Conversations : \A x : ~Assistant!Said(d, asked + 1, x)
  BY TurnsBelow DEF Assistant!Said
<1>8. Assistant!InTurn(s)'
  <2>1. turn'[s] = k /\ k.turn \in 1..asked' /\ k.turn \notin failed'
    <3>1. turn'[s] = k
      BY <1>5 DEF SetTo
    <3>2. failed \subseteq 1..asked
      BY <1>2 DEF Assistant!Typed
    <3>3. asked' = asked + 1 /\ failed' = failed /\ asked \in Nat /\ k.turn = asked + 1
      BY <1>1, <1>2, <1>4
    <3>. QED
      BY <3>1, <3>2, <3>3
  <2>2. \A d \in Conversations : \A x :
          ~(\E i \in DOMAIN log[d] : log[d][i].turn = asked + 1 /\ log[d][i].sender = x)
    BY <1>7 DEF Assistant!Said
  <2>. QED
    BY <1>1, <1>4, <2>1, <2>2, ZenonT(60) DEF Assistant!InTurn, Assistant!Said
<1>9. Assistant!InOrder'
  <2>1. \A t \in Slots : t # s /\ ~Assistant!Idle(t) => turn[t].turn # k.turn
    <3>1. \A n \in 1..asked : n # asked + 1
      BY <1>2
    <3>. QED
      BY <1>4, <3>1, TurnsBelow
  <2>2. \A d \in Conversations, x \in {"user", "assistant"}, n \in Assistant!Turns :
          Assistant!Said(d, n, x)' <=> Assistant!Said(d, n, x)
    BY <1>1 DEF Assistant!Said
  <2>3. \A t \in Slots : t # s /\ ~Assistant!Idle(t) =>
           /\ turn[t].turn \notin failed'
           /\ owner'[turn[t].conversation] = owner[turn[t].conversation]
           /\ \A d \in Conversations, x \in {"user", "assistant"},
              n \in Assistant!Turns : n = turn[t].turn =>
                (Assistant!Said(d, n, x)' <=> Assistant!Said(d, n, x))
    BY <1>1, <2>2, TurnsBelow
  <2>4. asked' \in Nat /\ asked <= asked'
    BY <1>1, <1>2
  <2>. QED
    BY <1>3, <1>5, <1>8, <2>1, <2>3, <2>4, TurnsKept
<1>10. Assistant!LogsOK'
  <2>1. asked' \in Nat /\ asked <= asked'
    BY <1>1, <1>2
  <2>2. \A d \in Conversations : \A i \in Assistant!Answers(d) : log[d][i].turn \notin failed'
    BY <1>1 DEF Assistant!IInv, Assistant!LogsOK, Assistant!MessageOK, Assistant!Answers
  <2>3. \A d \in Conversations : touched'[d] # 0 => Assistant!Said(d, touched'[d], "assistant")
    BY <1>1 DEF Assistant!IInv, Assistant!LogsOK
  <2>. QED
    BY <1>1, <2>1, <2>2, <2>3, LogsSame
<1>11. Assistant!Unbroken'
  <2>. SUFFICES ASSUME NEW d \in Conversations, d \in unbroken' PROVE Assistant!Alternates(d)'
    BY <1>6 DEF Assistant!Unbroken, Assistant!Typed
  <2>1. Assistant!Alternates(d) /\ ~Assistant!On(s, d)
    BY <1>1 DEF Assistant!IInv, Assistant!Unbroken, Assistant!On
  <2>2. CASE d # c
    BY <1>1, <1>2, <1>3, <1>4, <1>5, <2>1, <2>2, AlternatesElse
  <2>3. CASE d = c
    <3>1. \A t \in Slots : ~Assistant!On(t, c)
      BY <1>1, <2>3 DEF Assistant!On
    <3>2. \A t \in Slots : Assistant!On(t, c)' <=> t = s
      BY <1>2, <1>3, <1>4, <1>5, <3>1, OneTurn
    <3>3. Assistant!IsEven(Len(log[c]))
            /\ \A i \in DOMAIN log[c] : log[c][i].sender = Assistant!BySide(i)
      BY <2>1, <2>3, <3>1 DEF Assistant!Alternates
    <3>4. turn'[s] = k
      BY <1>5 DEF SetTo
    <3>. QED
      BY <1>1, <1>4, <2>3, <3>2, <3>3, <3>4 DEF Assistant!Alternates
  <2>. QED
    BY <2>2, <2>3
<1>. QED
  BY <1>6, <1>9, <1>10, <1>11 DEF Assistant!IInv

LEMMA StaysBelow == Assistant!IInv /\ asked' = asked => asked' \in Nat /\ asked <= asked'
BY DEF Assistant!IInv, Assistant!Typed

(* A turn that moves on and says nothing. *)
LEMMA Quietly ==
  ASSUME Assistant!IInv, NEW s \in Slots, ~Assistant!Idle(s), NEW x \in Assistant!Calls,
         SetTo(s, x),
         UNCHANGED <<owner, log, touched, Assistant!account>>,
         x.turn = turn[s].turn, x.of = turn[s].of, x.conversation = turn[s].conversation,
         x.prior = turn[s].prior, turn[s].at \in {"retrieve", "call model"},
         x.at \in {"call model", "save answer"},
         x.flag \in IF x.at = "save answer" THEN Assistant!Flags ELSE {None}
  PROVE  Assistant!IInv'
<1>1. /\ owner' = owner /\ log' = log /\ touched' = touched
      /\ asked' = asked /\ failed' = failed /\ unbroken' = unbroken
  BY DEF Assistant!account
<1>2. Assistant!Typed /\ x # Assistant!NoCall /\ turn'[s] = x
  BY IdleIsNoTurn DEF Assistant!IInv, SetTo
<1>3. PICK k : k = turn[s]
  OBVIOUS
<1>4. /\ k.conversation \in Conversations /\ k.turn \in Assistant!Turns /\ Assistant!InTurn(s)
      /\ k.turn \in 1..asked /\ k.turn \notin failed /\ k.of = owner[k.conversation]
      /\ Assistant!Said(k.conversation, k.turn, "user")
      /\ \A c \in Conversations : ~Assistant!Said(c, k.turn, "assistant")
  BY <1>2, <1>3, CallIs DEF Assistant!IInv, Assistant!InOrder, Assistant!InTurn
<1>5. \A d, n, y : Assistant!Said(d, n, y)' <=> Assistant!Said(d, n, y)
  BY <1>1 DEF Assistant!Said
<1>6. Assistant!Typed'
  BY <1>1, <1>2 DEF Assistant!Typed, SetTo
<1>7. Assistant!InTurn(s)'
  <2>1. PICK n, c : n = k.turn /\ c = k.conversation
    OBVIOUS
  <2>2. Assistant!Said(c, n, "user")'
          /\ \A d \in Conversations : ~Assistant!Said(d, n, "assistant")'
    BY <1>4, <1>5, <2>1
  <2>. QED
    BY <1>1, <1>2, <1>3, <1>4, <2>1, <2>2 DEF Assistant!InTurn
<1>8. Assistant!InOrder'
  <2>1. \A t \in Slots : t # s /\ ~Assistant!Idle(t) => turn[t].turn # x.turn
    BY DEF Assistant!IInv, Assistant!InOrder
  <2>2. \A t \in Slots : t # s /\ ~Assistant!Idle(t) =>
           /\ turn[t].turn \notin failed'
           /\ owner'[turn[t].conversation] = owner[turn[t].conversation]
           /\ \A d \in Conversations, y \in {"user", "assistant"},
              n \in Assistant!Turns : n = turn[t].turn =>
                (Assistant!Said(d, n, y)' <=> Assistant!Said(d, n, y))
    BY <1>1, <1>5, TurnsBelow
  <2>3. asked' \in Nat /\ asked <= asked'
    BY <1>1, StaysBelow
  <2>. QED
    BY <1>2, <1>7, <2>1, <2>2, <2>3, TurnsKept
<1>9. Assistant!LogsOK'
  <2>1. asked' \in Nat /\ asked <= asked'
    BY <1>1, StaysBelow
  <2>2. \A d \in Conversations : \A i \in Assistant!Answers(d) : log[d][i].turn \notin failed'
    BY <1>1 DEF Assistant!IInv, Assistant!LogsOK, Assistant!MessageOK, Assistant!Answers
  <2>3. \A d \in Conversations : touched'[d] # 0 => Assistant!Said(d, touched'[d], "assistant")
    BY <1>1 DEF Assistant!IInv, Assistant!LogsOK
  <2>. QED
    BY <1>1, <2>1, <2>2, <2>3, LogsSame
<1>10. Assistant!Unbroken'
  <2>. SUFFICES ASSUME NEW d \in Conversations, d \in unbroken' PROVE Assistant!Alternates(d)'
    BY <1>6 DEF Assistant!Unbroken, Assistant!Typed
  <2>1. Assistant!Alternates(d)
    BY <1>1 DEF Assistant!IInv, Assistant!Unbroken
  <2>2. CASE d # k.conversation
    <3>1. ~Assistant!On(s, d) /\ x.conversation # d
      BY <1>3, <2>2 DEF Assistant!On
    <3>. QED
      BY <1>1, <1>2, <2>1, <3>1, AlternatesElse
  <2>3. CASE d = k.conversation
    <3>1. Assistant!On(s, d) /\ \A t \in Slots : Assistant!On(t, d) => t = s
      BY <1>3, <2>1, <2>3 DEF Assistant!On, Assistant!Alternates
    <3>2. \A t \in Slots : Assistant!On(t, d)' <=> t = s
      BY <1>2, <1>3, <2>3, <3>1, OneTurn
    <3>3. /\ \A i \in DOMAIN log[d] : log[d][i].sender = Assistant!BySide(i)
          /\ Assistant!IsEven(Len(k.prior)) /\ Len(log[d]) = Len(k.prior) + 1
          /\ \A i \in DOMAIN k.prior : log[d][i] = k.prior[i]
      BY <1>3, <2>1, <3>1 DEF Assistant!Alternates
    <3>. QED
      BY <1>1, <1>2, <1>3, <3>2, <3>3 DEF Assistant!Alternates
  <2>. QED
    BY <2>2, <2>3
<1>. QED
  BY <1>6, <1>8, <1>9, <1>10 DEF Assistant!IInv

LEMMA RetrieveSourcesKeeps ==
  ASSUME Assistant!IInv, NEW s \in Slots, Assistant!RetrieveSources(s)
  PROVE  Assistant!IInv'
<1>1. ~Assistant!Idle(s) /\ turn[s].at = "retrieve" /\ Assistant!Typed /\ Assistant!InTurn(s)
  BY DEF Assistant!RetrieveSources, Assistant!At, Assistant!IInv, Assistant!InOrder
<1>2. PICK k \in Assistant!Calls : k = turn[s]
  BY <1>1, CallIs
<1>3. PICK found \in Assistant!SourceLists : found = Assistant!Retrieve(k.question)
  BY <1>1, <1>2, CallIs DEF Assistant!SourceLists
<1>4. PICK at \in {"call model", "save answer"}, flag \in Assistant!Flags \cup {None} :
        /\ at = IF Assistant!HasGround(found) THEN "call model" ELSE "save answer"
        /\ flag = IF Assistant!HasGround(found) THEN None ELSE "missing_info"
  BY DEF Assistant!Flags
<1> DEFINE x == [k EXCEPT !.sources = found, !.at = at, !.flag = flag]
<1>5. Assistant!Goes(s, x) /\ UNCHANGED <<owner, log, touched, Assistant!account>>
  BY <1>2, <1>3, <1>4 DEF Assistant!RetrieveSources
<1>6. Moved(x, k, at, found, flag)
  BY MovedIs
<1> HIDE DEF x
<1>7. x \in Assistant!Calls /\ SetTo(s, x)
  BY <1>1, <1>5, <1>6, GoesIs DEF Moved
<1>8. flag \in IF at = "save answer" THEN Assistant!Flags ELSE {None}
  BY <1>4 DEF Assistant!Flags
<1>. QED
  BY <1>1, <1>2, <1>5, <1>6, <1>7, <1>8, Quietly DEF Moved

LEMMA ModelAnswersKeeps ==
  ASSUME Assistant!IInv, NEW s \in Slots, Assistant!ModelAnswers(s)
  PROVE  Assistant!IInv'
<1>1. ~Assistant!Idle(s) /\ turn[s].at = "call model" /\ Assistant!Typed
  BY DEF Assistant!ModelAnswers, Assistant!At, Assistant!IInv
<1>2. PICK k \in Assistant!Calls : k = turn[s] /\ k.sources \in Assistant!SourceLists
  BY <1>1, CallIs
<1>3. PICK flag \in Assistant!Flags :
             /\ Assistant!Goes(s, [k EXCEPT !.at = "save answer", !.flag = flag])
                                      /\ UNCHANGED <<owner, log, touched, Assistant!account>>
  BY <1>2 DEF Assistant!ModelAnswers, Assistant!Flags
<1> DEFINE x == [k EXCEPT !.at = "save answer", !.flag = flag]
<1>4. Assistant!Goes(s, x) /\ UNCHANGED <<owner, log, touched, Assistant!account>>
  BY <1>3
<1>5. Moved(x, k, "save answer", k.sources, flag)
  BY FlaggedIs
<1> HIDE DEF x
<1>6. x \in Assistant!Calls /\ SetTo(s, x)
  BY <1>1, <1>4, <1>5, GoesIs DEF Moved
<1>. QED
  BY <1>1, <1>2, <1>4, <1>5, <1>6, Quietly DEF Moved

(* What a message said by the turn of slot s means to the turns in flight. *)
LEMMA OthersHear ==
  ASSUME Assistant!IInv, NEW s \in Slots, ~Assistant!Idle(s), NEW c \in Conversations, NEW m,
         Adds(c, m),
         m.turn = turn[s].turn, UNCHANGED <<owner, failed>>
  PROVE  \A t \in Slots : t # s /\ ~Assistant!Idle(t) =>
           /\ turn[t].turn \notin failed'
           /\ owner'[turn[t].conversation] = owner[turn[t].conversation]
           /\ \A d \in Conversations, x \in {"user", "assistant"},
              n \in Assistant!Turns : n = turn[t].turn =>
                (Assistant!Said(d, n, x)' <=> Assistant!Said(d, n, x))
<1>1. \A t \in Slots : t # s /\ ~Assistant!Idle(t)
        => turn[t].turn # m.turn /\ turn[t].turn \notin failed
  BY TurnsBelow DEF Assistant!IInv, Assistant!InOrder
<1>2. \A d \in Conversations : \A n,
      x : n # m.turn => (Assistant!Said(d, n, x)' <=> Assistant!Said(d, n, x))
  BY SaidNext
<1>. QED
  BY <1>1, <1>2

LEMMA SaveQuestionKeeps ==
  ASSUME Assistant!IInv, NEW s \in Slots, Assistant!SaveQuestion(s)
  PROVE  Assistant!IInv'
<1>1. /\ ~Assistant!Idle(s) /\ turn[s].at = "save question" /\ Assistant!Typed
           /\ Assistant!InTurn(s)
      /\ Assistant!AddMessage(s, "user") /\ Assistant!GoesTo(s, "retrieve")
      /\ owner' = owner /\ touched' = touched
      /\ asked' = asked /\ failed' = failed /\ unbroken' = unbroken
  BY DEF Assistant!SaveQuestion, Assistant!At, Assistant!IInv, Assistant!InOrder, Assistant!account
<1>2. PICK k \in Assistant!Calls : k = turn[s]
  BY <1>1, CallIs
<1>3. PICK c \in Conversations : c = k.conversation
  BY <1>1, <1>2, CallIs
<1>4. PICK n \in Assistant!Turns : n = k.turn
  BY <1>1, <1>2, CallIs
<1>5. /\ n \in 1..asked /\ n \notin failed /\ k.of = owner[c] /\ k.flag = None
      /\ \A d \in Conversations : ~Assistant!Said(d, n, "user")
           /\ ~Assistant!Said(d, n, "assistant")
  BY <1>1, <1>2, <1>3, <1>4 DEF Assistant!InTurn
<1>6. PICK m \in Assistant!Messages : m = Assistant!Message(s, "user") /\ IsMessage(m, k, "user")
  BY <1>1, <1>2, MessageIs DEF IsMessage
<1>7. Adds(c, m)
  BY <1>1, <1>2, <1>3, <1>6, AddsIs DEF Assistant!AddMessage
<1>8. PICK x \in Assistant!Calls : Assistant!Goes(s, x)
             /\ Moved(x, k, "retrieve", k.sources, k.flag)
  <2> DEFINE z == [k EXCEPT !.at = "retrieve"]
  <2>1. Assistant!Goes(s, z)
    BY <1>1, <1>2 DEF Assistant!GoesTo
  <2>2. Moved(z, k, "retrieve", k.sources, k.flag)
    BY StageIs
  <2> HIDE DEF z
  <2>. QED
    BY <2>1, <2>2 DEF Moved
<1>9. SetTo(s, x) /\ x # Assistant!NoCall /\ turn'[s] = x
  BY <1>1, <1>8, GoesIs, IdleIsNoTurn DEF SetTo
<1>10. /\ x.at = "retrieve" /\ x.flag = None /\ x.turn = n /\ x.of = owner[c]
       /\ x.conversation = c /\ x.prior = k.prior
  BY <1>3, <1>4, <1>5, <1>8 DEF Moved
<1>11. Assistant!Typed'
  BY <1>1, <1>7, <1>9 DEF Assistant!Typed, SetTo, Adds
<1>12. m.turn = n /\ m.sender = "user" /\ m.of = owner[c] /\ m.flag = None
  BY <1>4, <1>5, <1>6 DEF IsMessage
<1>13. Assistant!InTurn(s)'
  <2>1. Assistant!Said(c, n, "user")'
          /\ \A d \in Conversations : ~Assistant!Said(d, n, "assistant")'
    BY <1>5, <1>7, <1>12, SaidNext
  <2>. QED
    BY <1>1, <1>5, <1>9, <1>10, <2>1 DEF Assistant!InTurn
<1>14. Assistant!InOrder'
  <2>1. \A t \in Slots : t # s /\ ~Assistant!Idle(t) => turn[t].turn # x.turn
    BY <1>1, <1>2, <1>4, <1>10 DEF Assistant!IInv, Assistant!InOrder
  <2>2. asked' \in Nat /\ asked <= asked'
    BY <1>1, StaysBelow
  <2>3. m.turn = turn[s].turn
    BY <1>2, <1>4, <1>12
  <2>. QED
    BY <1>1, <1>7, <1>9, <1>13, <2>1, <2>2, <2>3, OthersHear, TurnsKept
<1>15. Assistant!LogsOK'
  BY <1>1, <1>5, <1>7, <1>12, LogAdded
<1>16. Assistant!Unbroken'
  <2>. SUFFICES ASSUME NEW d \in Conversations, d \in unbroken' PROVE Assistant!Alternates(d)'
    BY <1>11 DEF Assistant!Unbroken, Assistant!Typed
  <2>1. Assistant!Alternates(d)
    BY <1>1 DEF Assistant!IInv, Assistant!Unbroken
  <2>2. CASE d # c
    <3>1. ~Assistant!On(s, d) /\ x.conversation # d /\ log'[d] = log[d]
      BY <1>2, <1>3, <1>7, <1>10, <2>2 DEF Assistant!On, Adds
    <3>. QED
      BY <1>1, <1>9, <2>1, <3>1, AlternatesElse
  <2>3. CASE d = c
    <3>1. Assistant!On(s, d) /\ \A t \in Slots : Assistant!On(t, d) => t = s
      BY <1>1, <1>2, <1>3, <2>1, <2>3 DEF Assistant!On, Assistant!Alternates
    <3>2. \A t \in Slots : Assistant!On(t, d)' <=> t = s
      BY <1>1, <1>9, <1>10, <2>3, <3>1, OneTurn
    <3>3. /\ \A i \in DOMAIN log[d] : log[d][i].sender = Assistant!BySide(i)
          /\ k.prior = log[d] /\ Assistant!IsEven(Len(log[d]))
      BY <1>1, <1>2, <2>1, <3>1 DEF Assistant!Alternates
    <3>4. PICK l \in Nat : l = Len(log[d])
      BY <1>7, <2>3 DEF Adds
    <3>5. /\ DOMAIN log[d] = 1..l /\ DOMAIN log'[d] = 1..(l + 1) /\ Len(log'[d]) = l + 1
          /\ \A i \in 1..l : log'[d][i] = log[d][i]
          /\ log'[d][l + 1].sender = "user"
      BY <1>7, <1>12, <2>3, <3>4 DEF Adds
    <3>6. Assistant!BySide(l + 1) = "user" /\ \A i : i \in 1..(l + 1) <=> i \in 1..l \/ i = l + 1
      <4>1. ~Assistant!IsEven(l + 1)
        BY <3>3, <3>4, Parity
      <4>2. \A i : i \in 1..(l + 1) <=> i \in 1..l \/ i = l + 1
        BY <3>4
      <4>. QED
        BY <4>1, <4>2 DEF Assistant!BySide
    <3>7. \A i \in DOMAIN log'[d] : log'[d][i].sender = Assistant!BySide(i)
      BY <3>3, <3>5, <3>6
    <3>. QED
      BY <1>9, <1>10, <3>2, <3>3, <3>4, <3>5, <3>7 DEF Assistant!Alternates
  <2>. QED
    BY <2>2, <2>3
<1>. QED
  BY <1>11, <1>14, <1>15, <1>16 DEF Assistant!IInv

LEMMA SaveAnswerKeeps ==
  ASSUME Assistant!IInv, NEW s \in Slots, Assistant!SaveAnswer(s)
  PROVE  Assistant!IInv'
<1>1. /\ ~Assistant!Idle(s) /\ turn[s].at = "save answer" /\ Assistant!Typed /\ Assistant!InTurn(s)
      /\ Assistant!AddMessage(s, "assistant") /\ Assistant!GoesTo(s, "touch")
      /\ owner' = owner /\ touched' = touched
      /\ asked' = asked /\ failed' = failed /\ unbroken' = unbroken
  BY DEF Assistant!SaveAnswer, Assistant!At, Assistant!IInv, Assistant!InOrder, Assistant!account
<1>2. PICK k \in Assistant!Calls : k = turn[s]
  BY <1>1, CallIs
<1>3. PICK c \in Conversations : c = k.conversation
  BY <1>1, <1>2, CallIs
<1>4. PICK n \in Assistant!Turns : n = k.turn
  BY <1>1, <1>2, CallIs
<1>5. /\ n \in 1..asked /\ n \notin failed /\ k.of = owner[c] /\ k.flag \in Assistant!Flags
      /\ Assistant!Said(c, n, "user") /\ \A d \in Conversations : ~Assistant!Said(d, n, "assistant")
  BY <1>1, <1>2, <1>3, <1>4 DEF Assistant!InTurn
<1>6. PICK m \in Assistant!Messages : m = Assistant!Message(s, "assistant")
             /\ IsMessage(m, k, "assistant")
  BY <1>1, <1>2, MessageIs DEF IsMessage
<1>7. Adds(c, m)
  BY <1>1, <1>2, <1>3, <1>6, AddsIs DEF Assistant!AddMessage
<1>8. PICK x \in Assistant!Calls : Assistant!Goes(s, x) /\ Moved(x, k, "touch", k.sources, k.flag)
  <2> DEFINE z == [k EXCEPT !.at = "touch"]
  <2>1. Assistant!Goes(s, z)
    BY <1>1, <1>2 DEF Assistant!GoesTo
  <2>2. Moved(z, k, "touch", k.sources, k.flag)
    BY StageIs
  <2> HIDE DEF z
  <2>. QED
    BY <2>1, <2>2 DEF Moved
<1>9. SetTo(s, x) /\ x # Assistant!NoCall /\ turn'[s] = x
  BY <1>1, <1>8, GoesIs, IdleIsNoTurn DEF SetTo
<1>10. /\ x.at = "touch" /\ x.flag \in Assistant!Flags /\ x.turn = n /\ x.of = owner[c]
       /\ x.conversation = c
  BY <1>3, <1>4, <1>5, <1>8 DEF Moved
<1>11. Assistant!Typed'
  BY <1>1, <1>7, <1>9 DEF Assistant!Typed, SetTo, Adds
<1>12. m.turn = n /\ m.sender = "assistant" /\ m.of = owner[c] /\ m.flag \in Assistant!Flags
  BY <1>4, <1>5, <1>6 DEF IsMessage
<1>13. Assistant!InTurn(s)'
  <2>1. Assistant!Said(c, n, "user")' /\ Assistant!Said(c, n, "assistant")'
    BY <1>5, <1>7, <1>12, SaidNext
  <2>. QED
    BY <1>1, <1>5, <1>9, <1>10, <2>1 DEF Assistant!InTurn
<1>14. Assistant!InOrder'
  <2>1. \A t \in Slots : t # s /\ ~Assistant!Idle(t) => turn[t].turn # x.turn
    BY <1>1, <1>2, <1>4, <1>10 DEF Assistant!IInv, Assistant!InOrder
  <2>2. asked' \in Nat /\ asked <= asked'
    BY <1>1, StaysBelow
  <2>3. m.turn = turn[s].turn
    BY <1>2, <1>4, <1>12
  <2>. QED
    BY <1>1, <1>7, <1>9, <1>13, <2>1, <2>2, <2>3, OthersHear, TurnsKept
<1>15. Assistant!LogsOK'
  BY <1>1, <1>5, <1>7, <1>12, LogAdded
<1>16. Assistant!Unbroken'
  <2>. SUFFICES ASSUME NEW d \in Conversations, d \in unbroken' PROVE Assistant!Alternates(d)'
    BY <1>11 DEF Assistant!Unbroken, Assistant!Typed
  <2>1. Assistant!Alternates(d)
    BY <1>1 DEF Assistant!IInv, Assistant!Unbroken
  <2>2. CASE d # c
    <3>1. ~Assistant!On(s, d) /\ x.conversation # d /\ log'[d] = log[d]
      BY <1>2, <1>3, <1>7, <1>10, <2>2 DEF Assistant!On, Adds
    <3>. QED
      BY <1>1, <1>9, <2>1, <3>1, AlternatesElse
  <2>3. CASE d = c
    <3>1. Assistant!On(s, d) /\ \A t \in Slots : Assistant!On(t, d) => t = s
      BY <1>1, <1>2, <1>3, <2>1, <2>3 DEF Assistant!On, Assistant!Alternates
    <3>2. \A t \in Slots : Assistant!On(t, d)' <=> t = s
      BY <1>1, <1>9, <1>10, <2>3, <3>1, OneTurn
    <3>3. /\ \A i \in DOMAIN log[d] : log[d][i].sender = Assistant!BySide(i)
          /\ Assistant!IsEven(Len(k.prior)) /\ Len(log[d]) = Len(k.prior) + 1
      BY <1>1, <1>2, <2>1, <3>1 DEF Assistant!Alternates
    <3>4. PICK p \in Nat : p = Len(k.prior)
      <4> DEFINE M == Assistant!Messages
      <4>1. k.prior \in Seq(M)
        BY <1>1, <1>2, CallIs
      <4> HIDE DEF M
      <4>. QED
        BY <4>1
    <3>5. PICK l \in Nat : l = Len(log[d])
      BY <1>7, <2>3 DEF Adds
    <3>6. /\ DOMAIN log[d] = 1..l /\ DOMAIN log'[d] = 1..(l + 1) /\ Len(log'[d]) = l + 1
          /\ \A i \in 1..l : log'[d][i] = log[d][i]
          /\ log'[d][l + 1].sender = "assistant"
      BY <1>7, <1>12, <2>3, <3>5 DEF Adds
    <3>7. ~Assistant!IsEven(l)
      BY <3>3, <3>4, <3>5, Parity
    <3>8. Assistant!IsEven(l + 1)
      BY <3>7, Parity
    <3>9. \A i : i \in 1..(l + 1) <=> i \in 1..l \/ i = l + 1
      BY <3>5
    <3>10. \A i \in DOMAIN log'[d] : log'[d][i].sender = Assistant!BySide(i)
      BY <3>3, <3>5, <3>6, <3>8, <3>9 DEF Assistant!BySide
    <3>11. Assistant!IsEven(Len(log[d]))'
      BY <3>6, <3>8 DEF Assistant!IsEven
    <3>. QED
      BY <1>9, <1>10, <3>2, <3>10, <3>11 DEF Assistant!Alternates
  <2>. QED
    BY <2>2, <2>3
<1>. QED
  BY <1>11, <1>14, <1>15, <1>16 DEF Assistant!IInv

(* A turn that is over, answered or not. *)
LEMMA Over ==
  ASSUME Assistant!IInv, NEW s \in Slots, ~Assistant!Idle(s),
         turn' = [turn EXCEPT ![s] = Assistant!NoCall],
         UNCHANGED <<owner, log, asked>>,
         \/ touched' = touched
         \/ /\ turn[s].at = "touch"
            /\ touched' = [touched EXCEPT ![turn[s].conversation] = turn[s].turn],
         turn[s].at = "touch" => failed' = failed /\ unbroken' = unbroken,
         turn[s].at # "touch" => /\ failed' = failed \cup {turn[s].turn}
                                 /\ unbroken' = unbroken \ {turn[s].conversation}
  PROVE  Assistant!IInv'
<1>1. owner' = owner /\ log' = log /\ asked' = asked /\ Assistant!Typed /\ Assistant!InTurn(s)
  BY DEF Assistant!IInv, Assistant!InOrder
<1>2. PICK k \in Assistant!Calls : k = turn[s]
  BY <1>1, CallIs
<1>3. PICK c \in Conversations : c = k.conversation
  BY <1>1, <1>2, CallIs
<1>4. PICK n \in Assistant!Turns : n = k.turn
  BY <1>1, <1>2, CallIs
<1>5. /\ n \in 1..asked /\ n \notin failed /\ (k.at = "touch" => Assistant!Said(c, n, "assistant"))
      /\ k.at # "touch" => \A d \in Conversations : ~Assistant!Said(d, n, "assistant")
  BY <1>1, <1>2, <1>3, <1>4 DEF Assistant!InTurn
<1>6. SetTo(s, Assistant!NoCall)
  <2>1. Assistant!Goes(s, Assistant!NoCall)
          /\ Assistant!NoCall \in Assistant!Calls \cup {Assistant!NoCall}
    BY DEF Assistant!Goes
  <2>. QED
    BY <1>1, <2>1, GoesIs
<1>7. /\ touched' = touched \/ (k.at = "touch" /\ touched' = [touched EXCEPT ![c] = n])
      /\ k.at = "touch" => failed' = failed /\ unbroken' = unbroken
      /\ k.at # "touch" => failed' = failed \cup {n} /\ unbroken' = unbroken \ {c}
  BY <1>2, <1>3, <1>4
<1>8. Assistant!Typed'
  <2>1. /\ touched \in [Conversations -> 0..asked] /\ failed \subseteq 1..asked
        /\ unbroken \subseteq Conversations /\ asked \in Nat
    BY <1>1 DEF Assistant!Typed
  <2>2. n \in 0..asked
    BY <1>5, <2>1
  <2>3. touched' \in [Conversations -> 0..asked]
    BY <1>7, <2>1, <2>2
  <2>4. failed' \subseteq 1..asked /\ unbroken' \subseteq Conversations
    BY <1>5, <1>7, <2>1
  <2>. QED
    BY <1>1, <1>6, <2>3, <2>4 DEF Assistant!Typed, SetTo
<1>9. \A d, i, y : Assistant!Said(d, i, y)' <=> Assistant!Said(d, i, y)
  BY <1>1 DEF Assistant!Said
<1>10. Assistant!InOrder'
  <2>1. \A t \in Slots : t # s /\ ~Assistant!Idle(t)
          => turn[t].turn # n /\ turn[t].turn \notin failed
    BY <1>2, <1>4, TurnsBelow DEF Assistant!IInv, Assistant!InOrder
  <2>2. \A t \in Slots : t # s /\ ~Assistant!Idle(t) => turn[t].turn \notin failed'
    BY <1>7, <2>1
  <2>3. \A t \in Slots : t # s /\ ~Assistant!Idle(t) =>
           /\ turn[t].turn \notin failed'
           /\ owner'[turn[t].conversation] = owner[turn[t].conversation]
           /\ \A d \in Conversations, y \in {"user", "assistant"},
              i \in Assistant!Turns : i = turn[t].turn =>
                (Assistant!Said(d, i, y)' <=> Assistant!Said(d, i, y))
    BY <1>1, <1>9, <2>2
  <2>4. asked' \in Nat /\ asked <= asked'
    BY <1>1, StaysBelow
  <2>5. Assistant!NoCall \in Assistant!Calls \cup {Assistant!NoCall}
    OBVIOUS
  <2>. QED
    BY <1>6, <2>3, <2>4, <2>5, TurnsKept
<1>11. Assistant!LogsOK'
  <2>1. asked' \in Nat /\ asked <= asked'
    BY <1>1, StaysBelow
  <2>2. \A d \in Conversations : \A i \in Assistant!Answers(d) : log[d][i].turn \notin failed
    BY DEF Assistant!IInv, Assistant!LogsOK, Assistant!MessageOK, Assistant!Answers
  <2>3. k.at # "touch"
          => \A d \in Conversations : \A i \in Assistant!Answers(d) : log[d][i].turn # n
    BY <1>5 DEF Assistant!Said, Assistant!Answers
  <2>4. \A d \in Conversations : \A i \in Assistant!Answers(d) : log[d][i].turn \notin failed'
    BY <1>7, <2>2, <2>3
  <2>5. \A d \in Conversations : touched[d] # 0 => Assistant!Said(d, touched[d], "assistant")
    BY DEF Assistant!IInv, Assistant!LogsOK
  <2>6. touched \in [Conversations -> 0..asked]
    BY <1>1 DEF Assistant!Typed
  <2>7. \A d \in Conversations : touched'[d] # 0 => Assistant!Said(d, touched'[d], "assistant")
    BY <1>5, <1>7, <2>5, <2>6
  <2>. QED
    BY <1>1, <2>1, <2>4, <2>7, LogsSame
<1>12. Assistant!Unbroken'
  <2>. SUFFICES ASSUME NEW d \in Conversations, d \in unbroken' PROVE Assistant!Alternates(d)'
    BY <1>8 DEF Assistant!Unbroken, Assistant!Typed
  <2>1. Assistant!Alternates(d)
    BY <1>7 DEF Assistant!IInv, Assistant!Unbroken
  <2>2. CASE d # c
    <3>1. ~Assistant!On(s, d) /\ Assistant!NoCall \in Assistant!Calls \cup {Assistant!NoCall}
      BY <1>2, <1>3, <2>2 DEF Assistant!On
    <3>. QED
      BY <1>1, <1>6, <2>1, <3>1, AlternatesElse
  <2>3. CASE d = c
    <3>1. Assistant!On(s, d) /\ \A t \in Slots : Assistant!On(t, d) => t = s
      BY <1>2, <1>3, <2>1, <2>3 DEF Assistant!On, Assistant!Alternates
    <3>2. \A t \in Slots : ~Assistant!On(t, d)'
      <4>1. Assistant!NoCall \in Assistant!Calls \cup {Assistant!NoCall}
        OBVIOUS
      <4>. QED
        BY <1>1, <1>6, <3>1, <4>1, OneTurn
    <3>3. k.at = "touch"
      BY <1>7, <2>3
    <3>4. /\ \A i \in DOMAIN log[d] : log[d][i].sender = Assistant!BySide(i)
          /\ Assistant!IsEven(Len(log[d]))
      BY <1>2, <2>1, <3>1, <3>3 DEF Assistant!Alternates
    <3>. QED
      BY <1>1, <3>2, <3>4 DEF Assistant!Alternates
  <2>. QED
    BY <2>2, <2>3
<1>. QED
  BY <1>8, <1>10, <1>11, <1>12 DEF Assistant!IInv

LEMMA TouchKeeps ==
  ASSUME Assistant!IInv, NEW s \in Slots, Assistant!Touch(s)
  PROVE  Assistant!IInv'
BY Over DEF Assistant!Touch, Assistant!At, Assistant!Goes, Assistant!account

LEMMA TalkFailKeeps ==
  ASSUME Assistant!IInv, NEW s \in Slots, Assistant!Fail(s)
  PROVE  Assistant!IInv'
<1>1. /\ ~Assistant!Idle(s) /\ turn' = [turn EXCEPT ![s] = Assistant!NoCall]
      /\ owner' = owner /\ log' = log /\ touched' = touched /\ asked' = asked
      /\ turn[s].at = "touch" => failed' = failed /\ unbroken' = unbroken
      /\ turn[s].at # "touch" => /\ failed' = failed \cup {turn[s].turn}
                                 /\ unbroken' = unbroken \ {turn[s].conversation}
  BY DEF Assistant!Fail, Assistant!Unavailable, Assistant!At
<1>. QED
  BY <1>1, Over

LEMMA TalkNextKeeps == Assistant!IInv /\ [Assistant!Next]_Assistant!vars => Assistant!IInv'
<1>. SUFFICES ASSUME Assistant!IInv, [Assistant!Next]_Assistant!vars PROVE Assistant!IInv'
  OBVIOUS
<1>1. CASE UNCHANGED Assistant!vars
  BY <1>1, StutteringIsFine
<1>2. ASSUME NEW of \in Companies, NEW c \in Conversations, Assistant!StartConversation(of, c)
      PROVE  Assistant!IInv'
  BY <1>2, StartConversationKeeps
<1>3. ASSUME NEW s \in Slots, NEW of \in Companies, NEW c \in Conversations,
             NEW q \in Questions, Assistant!SendMessage(s, of, c, q)
      PROVE  Assistant!IInv'
  BY <1>3, SendMessageKeeps
<1>4. ASSUME NEW s \in Slots,
             Assistant!SaveQuestion(s) \/ Assistant!RetrieveSources(s)
               \/ Assistant!ModelAnswers(s) \/ Assistant!SaveAnswer(s)
                         \/ Assistant!Touch(s) \/ Assistant!Fail(s)
      PROVE  Assistant!IInv'
  BY <1>4, SaveQuestionKeeps, RetrieveSourcesKeeps, ModelAnswersKeeps, SaveAnswerKeeps,
     TouchKeeps, TalkFailKeeps
<1>. QED
  BY <1>1, <1>2, <1>3, <1>4 DEF Assistant!Next

LEMMA Dialogue == Assistant!Spec => []Assistant!IInv
<1>. QED
  BY Starts, TalkNextKeeps, PTL DEF Assistant!Spec

-----------------------------------------------------------------------------
(* ai-assistant.service.ts, sendMessage: for any number of turns at a time, in any   *)
(* order and failing anywhere, an answer follows its own question in its own         *)
(* conversation, once, and last_message_at is that of an answered turn.              *)
THEOREM AnswersFollow == Assistant!Spec => []AnswersFollowQuestions
<1>1. Assistant!IInv => AnswersFollowQuestions
  <2>. SUFFICES ASSUME Assistant!IInv PROVE AnswersFollowQuestions
    OBVIOUS
  <2> DEFINE M == Assistant!Messages
  <2>1. Assistant!Typed /\ \A c \in Conversations : log[c] \in Seq(M)
    BY DEF Assistant!IInv, Assistant!Typed
  <2>2. \A m \in M : m.sender \in {"user", "assistant"}
    BY DEF Assistant!Messages
  <2> HIDE DEF M
  <2>3. \A c \in Conversations : \A i \in DOMAIN log[c] :
          Assistant!MessageOK(c, i) /\ log[c][i].sender \in {"user", "assistant"}
    BY <2>1, <2>2 DEF Assistant!IInv, Assistant!LogsOK
  <2>4. Assistant!TypeOK
    BY <2>1, <2>3 DEF Assistant!TypeOK, Assistant!Typed, Assistant!MessageOK, Assistant!Flags
  <2>5. ASSUME NEW c \in Conversations, NEW i \in Assistant!Answers(c)
        PROVE  /\ \E j \in 1..(i - 1) : /\ log[c][j].sender = "user"
                                        /\ log[c][j].turn = log[c][i].turn
               /\ \A j \in Assistant!Answers(c) : log[c][j].turn = log[c][i].turn => j = i
               /\ log[c][i].turn \notin failed
               /\ log[c][i].of = owner[c]
    BY <2>3, <2>5 DEF Assistant!MessageOK, Assistant!Answers
  <2>6. ASSUME NEW c \in Conversations, touched[c] # 0
        PROVE  \E i \in Assistant!Answers(c) : log[c][i].turn = touched[c]
    BY <2>6 DEF Assistant!IInv, Assistant!LogsOK, Assistant!Said, Assistant!Answers
  <2>. QED
    BY <2>4, <2>5, <2>6 DEF AnswersFollowQuestions, Assistant!AnswersFollowQuestions
<1>. QED
  BY <1>1, Dialogue, PTL

(* What the model is sent: the last messages before the question, and the question. *)
LEMMA WindowIs ==
  ASSUME NEW S, NEW prior \in Seq(S), NEW p \in Nat, p = Len(prior), NEW b \in 1..(p + 1)
  PROVE  /\ SubSeq(prior, b, p) \in Seq(S) /\ Len(SubSeq(prior, b, p)) = p - b + 1
         /\ \A i \in 1..(p - b + 1) : SubSeq(prior, b, p)[i] = prior[b + i - 1]
OBVIOUS

Sent(r, prior, q, b, p) ==
  /\ DOMAIN r = 1..(p - b + 2) /\ Len(r) = p - b + 2
  /\ \A i \in 1..(p - b + 1) : r[i] = prior[b + i - 1]
  /\ r[p - b + 2] = q

LEMMA RequestIs ==
  ASSUME NEW prior \in Seq(Assistant!Messages), NEW q \in Assistant!Messages, NEW p \in Nat,
         p = Len(prior),
         NEW b \in 1..(p + 1), b = IF p < Window THEN 1 ELSE p - Window + 1
  PROVE  Sent(Assistant!LastMessages(prior) \o <<q>>, prior, q, b, p)
<1> DEFINE w == Assistant!LastMessages(prior)
           r == w \o <<q>>
<1>1. w = SubSeq(prior, b, p)
  BY DEF Assistant!LastMessages
<1>2. /\ w \in Seq(Assistant!Messages) /\ Len(w) = p - b + 1
      /\ \A i \in 1..(p - b + 1) : w[i] = prior[b + i - 1]
  <2>1. /\ SubSeq(prior, b, p) \in Seq(Assistant!Messages) /\ Len(SubSeq(prior, b, p)) = p - b + 1
        /\ \A i \in 1..(p - b + 1) : SubSeq(prior, b, p)[i] = prior[b + i - 1]
    BY WindowIs
  <2>. QED
    BY <1>1, <2>1
<1>3. r = w \o <<q>>
  OBVIOUS
<1> HIDE DEF w
<1>4. PICK n \in Nat : n = p - b + 1
  OBVIOUS
<1>5. Len(w) = n
  BY <1>2, <1>4
<1>6. w \in [1..n -> Assistant!Messages] /\ <<q>> \in Seq(Assistant!Messages)
  BY <1>2, <1>5
<1>7. r \in Seq(Assistant!Messages) /\ Len(r) = n + 1
  <2>1. Len(<<q>>) = 1
    OBVIOUS
  <2>2. /\ w \o <<q>> \in Seq(Assistant!Messages)
        /\ Len(w \o <<q>>) = Len(w) + Len(<<q>>)
    BY <1>2, <1>6, ConcatProperties
  <2>. QED
    BY <1>3, <1>5, <2>1, <2>2
<1>8. (\A i \in 1..n : r[i] = w[i]) /\ r[n + 1] = q
  <2>1. /\ Len(<<q>>) = 1 /\ <<q>>[1] = q
        /\ \A i \in 1..(n + 1) : r[i] = IF i <= n THEN w[i] ELSE <<q>>[i - n]
    BY <1>2, <1>3, <1>5, <1>6, ConcatProperties
  <2>2. (n + 1) - n = 1 /\ ~(n + 1 <= n) /\ n + 1 \in 1..(n + 1)
        /\ \A i \in 1..n : i <= n /\ i \in 1..(n + 1)
    OBVIOUS
  <2>. QED
    BY <2>1, <2>2
<1> HIDE DEF r
<1>9. n + 1 = p - b + 2 /\ DOMAIN r = 1..(n + 1)
  BY <1>4, <1>7
<1>10. Sent(r, prior, q, b, p)
  BY <1>2, <1>4, <1>7, <1>8, <1>9 DEF Sent
<1>. QED
  BY <1>10 DEF r, w

(* Counting in pairs. *)
LEMMA OddThen ==
  \A b, i \in Nat : b % 2 = 1 => ((b + i - 1) % 2 = 0 <=> i % 2 = 0)
OBVIOUS

LEMMA EvenToOdd ==
  \A p, b \in Nat : p % 2 = 0 /\ b % 2 = 1 => (p - b + 2) % 2 = 1
OBVIOUS

LEMMA OddStart ==
  ASSUME NEW p \in Nat, Assistant!IsEven(p)
  PROVE  \E b \in 1..(p + 1) : /\ b = IF p < Window THEN 1 ELSE p - Window + 1
                               /\ ~Assistant!IsEven(b)
<1>1. Window \in Nat /\ Window % 2 = 0 /\ p % 2 = 0
  BY WindowAssumption, NoneAssumption DEF Assistant!IsEven
<1>2. CASE p < Window
  BY <1>2 DEF Assistant!IsEven
<1>3. CASE ~(p < Window)
  <2>1. p - Window + 1 \in 1..(p + 1) /\ (p - Window + 1) % 2 = 1
    BY <1>1, <1>3
  <2>. QED
    BY <1>3, <2>1 DEF Assistant!IsEven
<1>. QED
  BY <1>2, <1>3

LEMMA BeforeTheModel ==
  ASSUME Assistant!IInv, NEW s \in Slots, Assistant!At(s, "call model")
  PROVE  /\ ~Assistant!Idle(s)
         /\ turn[s].of = owner[turn[s].conversation]
         /\ \A c \in unbroken : turn[s].conversation = c =>
              /\ Assistant!IsEven(Len(turn[s].prior)) /\ Len(log[c]) = Len(turn[s].prior) + 1
              /\ \A i \in DOMAIN turn[s].prior : log[c][i] = turn[s].prior[i]
              /\ \A i \in DOMAIN log[c] : log[c][i].sender = Assistant!BySide(i)
<1>1. ~Assistant!Idle(s) /\ turn[s].at = "call model" /\ Assistant!InTurn(s)
  BY DEF Assistant!At, Assistant!IInv, Assistant!InOrder
<1>2. "call model" # "touch" /\ "call model" # "save question"
  OBVIOUS
<1>3. turn[s].of = owner[turn[s].conversation]
  BY <1>1 DEF Assistant!InTurn
<1>4. ASSUME NEW c \in unbroken, turn[s].conversation = c
      PROVE  /\ Assistant!IsEven(Len(turn[s].prior)) /\ Len(log[c]) = Len(turn[s].prior) + 1
             /\ \A i \in DOMAIN turn[s].prior : log[c][i] = turn[s].prior[i]
             /\ \A i \in DOMAIN log[c] : log[c][i].sender = Assistant!BySide(i)
  <2>1. Assistant!Alternates(c) /\ Assistant!On(s, c)
    BY <1>1, <1>4 DEF Assistant!IInv, Assistant!Unbroken, Assistant!On
  <2>. QED
    BY <1>1, <1>2, <2>1 DEF Assistant!Alternates
<1>. QED
  BY <1>1, <1>3, <1>4

LEMMA RequestInTurns ==
  ASSUME Assistant!IInv, NEW s \in Slots, ~Assistant!Idle(s), NEW c \in Conversations,
         c = turn[s].conversation,
         turn[s].of = owner[c],
         Assistant!IsEven(Len(turn[s].prior)), Len(log[c]) = Len(turn[s].prior) + 1,
         \A i \in DOMAIN turn[s].prior : log[c][i] = turn[s].prior[i],
         \A i \in DOMAIN log[c] : log[c][i].sender = Assistant!BySide(i)
  PROVE  /\ \A i \in DOMAIN Assistant!Request(s) :
              Assistant!Request(s)[i].sender = IF i % 2 = 1 THEN "user" ELSE "assistant"
         /\ \A i \in DOMAIN Assistant!Request(s) : Assistant!Request(s)[i].of = owner[c]
         /\ \A i \in 1..(Len(Assistant!Request(s)) - 1) :
              log[c][Len(log[c]) - Len(Assistant!Request(s)) + i] = Assistant!Request(s)[i]
<1> DEFINE q == Assistant!Message(s, "user")
           r == Assistant!LastMessages(turn[s].prior) \o <<q>>
<1>1. Assistant!Typed
  BY DEF Assistant!IInv
<1>2. PICK prior \in Seq(Assistant!Messages) : prior = turn[s].prior
  BY <1>1, CallIs
<1>3. q \in Assistant!Messages /\ q.sender = "user" /\ q.of = owner[c]
  BY <1>1, MessageIs DEF IsMessage
<1>4. log[c] \in Seq(Assistant!Messages)
  BY <1>1 DEF Assistant!Typed
<1> HIDE DEF q
<1>5. PICK p \in Nat : p = Len(prior) /\ DOMAIN prior = 1..p
  BY <1>2
<1>6. /\ Assistant!IsEven(p) /\ Len(log[c]) = p + 1 /\ DOMAIN log[c] = 1..(p + 1)
      /\ \A i \in 1..p : log[c][i] = prior[i]
      /\ \A i \in DOMAIN log[c] : log[c][i].sender = Assistant!BySide(i)
  BY <1>2, <1>4, <1>5
<1>7. \A i \in DOMAIN log[c] : log[c][i].of = owner[c]
  BY DEF Assistant!IInv, Assistant!LogsOK, Assistant!MessageOK
<1>8. PICK b \in 1..(p + 1) : b = (IF p < Window THEN 1 ELSE p - Window + 1) /\ ~Assistant!IsEven(b)
  BY <1>6, OddStart
<1>9. r = Assistant!LastMessages(prior) \o <<q>>
  BY <1>2
<1>10. /\ DOMAIN r = 1..(p - b + 2) /\ Len(r) = p - b + 2
       /\ \A i \in 1..(p - b + 1) : r[i] = prior[b + i - 1]
       /\ r[p - b + 2] = q
  <2>1. p = Len(prior) /\ b = (IF p < Window THEN 1 ELSE p - Window + 1) /\ q \in Assistant!Messages
    BY <1>3, <1>5, <1>8
  <2>2. Sent(Assistant!LastMessages(prior) \o <<q>>, prior, q, b, p)
    BY <2>1, RequestIs
  <2> HIDE DEF r
  <2>. QED
    BY <1>9, <2>2 DEF Sent
<1> HIDE DEF r
<1>11. ASSUME NEW i \in 1..(p - b + 1)
       PROVE  /\ r[i].of = owner[c]
              /\ r[i].sender = IF i % 2 = 1 THEN "user" ELSE "assistant"
              /\ log[c][Len(log[c]) - Len(r) + i] = r[i]
  <2>1. PICK j \in 1..p : j = b + i - 1
    BY <1>8
  <2>2. r[i] = log[c][j] /\ j \in DOMAIN log[c]
    BY <1>6, <1>10, <2>1
  <2>3. Assistant!IsEven(j) <=> ~(i % 2 = 1)
    <3>1. b \in Nat /\ i \in Nat /\ b % 2 = 1
      BY <1>8 DEF Assistant!IsEven
    <3>2. Assistant!IsEven(j) <=> i % 2 = 0
      BY <2>1, <3>1, OddThen DEF Assistant!IsEven
    <3>. QED
      BY <3>1, <3>2
  <2>4. Len(log[c]) - Len(r) + i = j
    <3>1. Len(log[c]) = p + 1 /\ Len(r) = p - b + 2
      BY <1>6, <1>10
    <3>. QED
      BY <1>8, <2>1, <3>1
  <2>5. log[c][j].sender = Assistant!BySide(j) /\ log[c][j].of = owner[c]
    BY <1>6, <1>7, <2>2
  <2>. QED
    BY <2>2, <2>3, <2>4, <2>5 DEF Assistant!BySide
<1>12. (p - b + 2) % 2 = 1
  <2>1. p % 2 = 0 /\ b \in Nat /\ b % 2 = 1
    BY <1>6, <1>8 DEF Assistant!IsEven
  <2>. QED
    BY <2>1, EvenToOdd
<1>13. \A i \in DOMAIN r : i \in 1..(p - b + 1) \/ i = p - b + 2
  BY <1>8, <1>10
<1>14. Len(r) - 1 = p - b + 1
  BY <1>8, <1>10
<1>15. /\ \A i \in DOMAIN r : r[i].sender = IF i % 2 = 1 THEN "user" ELSE "assistant"
       /\ \A i \in DOMAIN r : r[i].of = owner[c]
  BY <1>3, <1>10, <1>11, <1>12, <1>13
<1>16. \A i \in 1..(Len(r) - 1) : log[c][Len(log[c]) - Len(r) + i] = r[i]
  BY <1>11, <1>14
<1>17. Assistant!Request(s) = r
  BY DEF Assistant!Request, r, q
<1>. QED
  BY <1>15, <1>16, <1>17

(* callModel: in a conversation without a failed or an overlapping turn the model is *)
(* sent a dialogue that the user opens, in turns, up to the question.                *)
THEOREM DialogueSent == Assistant!Spec => []RequestsAlternate
<1>1. Assistant!IInv => RequestsAlternate
  <2>. SUFFICES ASSUME Assistant!IInv, NEW s \in Slots, Assistant!At(s, "call model"),
                       NEW c \in unbroken,
                       c = turn[s].conversation
                PROVE  /\ \A i \in DOMAIN Assistant!Request(s) :
                            Assistant!Request(s)[i].sender = IF i % 2
                              = 1 THEN "user" ELSE "assistant"
                       /\ \A i \in DOMAIN Assistant!Request(s) : Assistant!Request(s)[i].of
                            = owner[c]
                       /\ \A i \in 1..(Len(Assistant!Request(s)) - 1) :
                            log[c][Len(log[c]) - Len(Assistant!Request(s)) + i]
                              = Assistant!Request(s)[i]
    BY DEF RequestsAlternate, Assistant!RequestsAlternate
  <2>1. c \in Conversations
    BY DEF Assistant!IInv, Assistant!Typed
  <2>2. /\ ~Assistant!Idle(s) /\ turn[s].of = owner[c]
        /\ Assistant!IsEven(Len(turn[s].prior)) /\ Len(log[c]) = Len(turn[s].prior) + 1
        /\ \A i \in DOMAIN turn[s].prior : log[c][i] = turn[s].prior[i]
        /\ \A i \in DOMAIN log[c] : log[c][i].sender = Assistant!BySide(i)
    BY BeforeTheModel
  <2>. QED
    BY <2>1, <2>2, RequestInTurns
<1>. QED
  BY <1>1, Dialogue, PTL

-----------------------------------------------------------------------------
(* What an answer rests on. *)

Sourced(k) ==
  /\ k.at = "save answer" => Assistant!Rests(k)
  /\ k.at = "call model"
       => k.sources = Assistant!Retrieve(k.question) /\ Assistant!HasGround(k.sources)

LEMMA SourcedIs ==
  ASSUME NEW s \in Slots
  PROVE  (/\ Assistant!At(s, "save answer") => Assistant!Rests(turn[s])
          /\ Assistant!At(s, "call model") =>
                         turn[s].sources = Assistant!Retrieve(turn[s].question)
                           /\ Assistant!HasGround(turn[s].sources))
           <=> (~Assistant!Idle(s) => Sourced(turn[s]))
BY DEF Assistant!At, Sourced

LEMMA SourcesKept ==
  ASSUME Assistant!Typed, Assistant!SourcesOwn, NEW s \in Slots,
         NEW x \in Assistant!Calls \cup {Assistant!NoCall}, SetTo(s, x),
         x # Assistant!NoCall => Sourced(x),
         \A c \in Conversations : \A i \in Assistant!Answers(c)' :
           (i \in Assistant!Answers(c) /\ log'[c][i] = log[c][i]) \/ Assistant!Rests(log'[c][i])
  PROVE  Assistant!SourcesOwn'
<1>1. ASSUME NEW t \in Slots, ~Assistant!Idle(t)' PROVE Sourced(turn'[t])
  <2>1. CASE t = s
    BY <1>1, <2>1 DEF SetTo, Assistant!Idle
  <2>2. CASE t # s
    <3>1. turn'[t] = turn[t] /\ ~Assistant!Idle(t)
      BY <1>1, <2>2 DEF SetTo, Assistant!Idle
    <3>2. Sourced(turn[t])
      BY <3>1, SourcedIs DEF Assistant!SourcesOwn
    <3>. QED
      BY <3>1, <3>2
  <2>. QED
    BY <2>1, <2>2
<1>2. ASSUME NEW c \in Conversations,
             NEW i \in Assistant!Answers(c)' PROVE Assistant!Rests(log'[c][i])
  BY <1>2 DEF Assistant!SourcesOwn
<1>3. \A t \in Slots : Assistant!At(t, "save answer")' => Assistant!Rests(turn'[t])
  BY <1>1 DEF Sourced, Assistant!At
<1>4. \A t \in Slots : Assistant!At(t, "call model")' =>
        turn'[t].sources = Assistant!Retrieve(turn'[t].question)
          /\ Assistant!HasGround(turn'[t].sources)
  BY <1>1 DEF Sourced, Assistant!At
<1>. QED
  BY <1>2, <1>3, <1>4 DEF Assistant!SourcesOwn, Assistant!Rests

(* Answers stay as they are when nothing, or a question, is added to a log. *)
LEMMA NoNewAnswer ==
  ASSUME log' = log
  PROVE  \A c \in Conversations : \A i \in Assistant!Answers(c)' :
           (i \in Assistant!Answers(c) /\ log'[c][i] = log[c][i]) \/ Assistant!Rests(log'[c][i])
BY DEF Assistant!Answers

LEMMA OneMessage ==
  ASSUME NEW d \in Conversations, NEW m, Adds(d, m), m.sender = "assistant" => Assistant!Rests(m)
  PROVE  \A c \in Conversations : \A i \in Assistant!Answers(c)' :
           (i \in Assistant!Answers(c) /\ log'[c][i] = log[c][i]) \/ Assistant!Rests(log'[c][i])
<1>. SUFFICES ASSUME NEW c \in Conversations, NEW i \in Assistant!Answers(c)'
              PROVE  (i \in Assistant!Answers(c) /\ log'[c][i] = log[c][i])
                       \/ Assistant!Rests(log'[c][i])
  OBVIOUS
<1>1. CASE c # d
  BY <1>1 DEF Assistant!Answers, Adds
<1>2. CASE c = d
  <2>1. PICK l : l = Len(log[d])
    OBVIOUS
  <2>2. /\ l \in Nat /\ DOMAIN log[d] = 1..l /\ DOMAIN log'[d] = 1..(l + 1)
        /\ \A j \in 1..l : log'[d][j] = log[d][j]
        /\ log'[d][l + 1] = m
    BY <2>1 DEF Adds
  <2>3. i \in 1..(l + 1) /\ log'[d][i].sender = "assistant"
    BY <1>2, <2>2 DEF Assistant!Answers
  <2>4. i \in 1..l \/ i = l + 1
    BY <2>2, <2>3
  <2>. QED
    BY <1>2, <2>2, <2>3, <2>4 DEF Assistant!Answers
<1>. QED
  BY <1>1, <1>2

LEMMA QuestionFirst ==
  /\ "save question" # "save answer" /\ "save question" # "call model"
  /\ "retrieve" # "save answer" /\ "retrieve" # "call model"
  /\ "touch" # "save answer" /\ "touch" # "call model" /\ "call model" # "save answer"
OBVIOUS

LEMMA SendsSourced ==
  ASSUME Assistant!IInv, Assistant!SourcesOwn, NEW s \in Slots, NEW of \in Companies,
         NEW c \in Conversations,
         NEW q \in Questions, Assistant!SendMessage(s, of, c, q)
  PROVE  Assistant!SourcesOwn'
<1> DEFINE k == [at |-> "save question", conversation |-> c, of |-> of, turn |-> asked + 1,
                 question |-> q, prior |-> log[c], sources |-> <<>>, flag |-> None]
<1>1. Assistant!Goes(s, k) /\ log' = log /\ Assistant!Typed
  BY DEF Assistant!SendMessage, Assistant!IInv
<1>2. k \in Assistant!Calls /\ Sourced(k)
  <2>1. k \in Assistant!Calls
    BY SentIsCall
  <2>2. k.at = "save question"
    OBVIOUS
  <2> HIDE DEF k
  <2>. QED
    BY <2>1, <2>2, QuestionFirst DEF Sourced
<1> HIDE DEF k
<1>3. SetTo(s, k)
  BY <1>1, <1>2, GoesIs
<1>. QED
  BY <1>1, <1>2, <1>3, NoNewAnswer, SourcesKept

LEMMA SavesQuestionSourced ==
  ASSUME Assistant!IInv, Assistant!SourcesOwn, NEW s \in Slots, Assistant!SaveQuestion(s)
  PROVE  Assistant!SourcesOwn'
<1>1. ~Assistant!Idle(s) /\ Assistant!Typed /\ Assistant!AddMessage(s, "user")
        /\ Assistant!GoesTo(s, "retrieve")
  BY DEF Assistant!SaveQuestion, Assistant!At, Assistant!IInv
<1>2. PICK k \in Assistant!Calls : k = turn[s]
  BY <1>1, CallIs
<1>3. PICK m \in Assistant!Messages : m = Assistant!Message(s, "user") /\ IsMessage(m, k, "user")
  BY <1>1, <1>2, MessageIs DEF IsMessage
<1>4. k.conversation \in Conversations
  BY <1>1, <1>2, CallIs
<1>5. Adds(k.conversation, m)
  BY <1>1, <1>2, <1>3, <1>4, AddsIs DEF Assistant!AddMessage
<1> DEFINE x == [k EXCEPT !.at = "retrieve"]
<1>6. Assistant!Goes(s, x) /\ Moved(x, k, "retrieve", k.sources, k.flag)
  BY <1>1, <1>2, StageIs DEF Assistant!GoesTo
<1> HIDE DEF x
<1>7. x \in Assistant!Calls /\ Sourced(x)
  BY <1>6, QuestionFirst DEF Moved, Sourced
<1>8. SetTo(s, x)
  BY <1>1, <1>6, <1>7, GoesIs
<1>9. ~(m.sender = "assistant")
  BY <1>3 DEF IsMessage
<1>. QED
  BY <1>1, <1>4, <1>5, <1>7, <1>8, <1>9, OneMessage, SourcesKept

LEMMA RetrievesSourced ==
  ASSUME Assistant!IInv, Assistant!SourcesOwn, NEW s \in Slots, Assistant!RetrieveSources(s)
  PROVE  Assistant!SourcesOwn'
<1>1. ~Assistant!Idle(s) /\ Assistant!Typed /\ log' = log
  BY DEF Assistant!RetrieveSources, Assistant!At, Assistant!IInv
<1>2. PICK k \in Assistant!Calls : k = turn[s]
  BY <1>1, CallIs
<1>3. PICK found \in Assistant!SourceLists : found = Assistant!Retrieve(k.question)
  BY <1>1, <1>2, CallIs DEF Assistant!SourceLists
<1>4. PICK at \in {"call model", "save answer"}, flag \in Assistant!Flags \cup {None} :
        /\ at = IF Assistant!HasGround(found) THEN "call model" ELSE "save answer"
        /\ flag = IF Assistant!HasGround(found) THEN None ELSE "missing_info"
  BY DEF Assistant!Flags
<1> DEFINE x == [k EXCEPT !.sources = found, !.at = at, !.flag = flag]
<1>5. Assistant!Goes(s, x)
  BY <1>2, <1>3, <1>4 DEF Assistant!RetrieveSources
<1>6. Moved(x, k, at, found, flag)
  BY MovedIs
<1> HIDE DEF x
<1>7. x \in Assistant!Calls /\ SetTo(s, x)
  BY <1>1, <1>5, <1>6, GoesIs DEF Moved
<1>8. Sourced(x)
  <2>1. x.sources = Assistant!Retrieve(x.question) /\ x.at = at /\ x.flag = flag
          /\ x.sources = found
    BY <1>3, <1>6 DEF Moved
  <2>. QED
    BY <1>4, <2>1, QuestionFirst DEF Sourced, Assistant!Rests
<1>. QED
  BY <1>1, <1>7, <1>8, NoNewAnswer, SourcesKept

LEMMA AnswersSourced ==
  ASSUME Assistant!IInv, Assistant!SourcesOwn, NEW s \in Slots, Assistant!ModelAnswers(s)
  PROVE  Assistant!SourcesOwn'
<1>1. ~Assistant!Idle(s) /\ Assistant!Typed /\ log' = log
        /\ turn[s].sources = Assistant!Retrieve(turn[s].question)
                  /\ Assistant!HasGround(turn[s].sources)
  BY DEF Assistant!ModelAnswers, Assistant!At, Assistant!IInv, Assistant!SourcesOwn
<1>2. PICK k \in Assistant!Calls : k = turn[s] /\ k.sources \in Assistant!SourceLists
  BY <1>1, CallIs
<1>3. PICK flag \in Assistant!Flags :
             /\ Assistant!Goes(s, [k EXCEPT !.at = "save answer", !.flag = flag])
                                      /\ flag # "missing_info"
  BY <1>2 DEF Assistant!ModelAnswers, Assistant!Flags
<1> DEFINE x == [k EXCEPT !.at = "save answer", !.flag = flag]
<1>4. Assistant!Goes(s, x)
  BY <1>3
<1>5. Moved(x, k, "save answer", k.sources, flag)
  BY FlaggedIs
<1> HIDE DEF x
<1>6. x \in Assistant!Calls /\ SetTo(s, x)
  BY <1>1, <1>4, <1>5, GoesIs DEF Moved
<1>7. Sourced(x)
  <2>1. /\ x.sources = Assistant!Retrieve(x.question) /\ Assistant!HasGround(x.sources)
             /\ x.flag # "missing_info"
        /\ x.at = "save answer"
    BY <1>1, <1>2, <1>3, <1>5 DEF Moved
  <2>. QED
    BY <2>1, QuestionFirst DEF Sourced, Assistant!Rests
<1>. QED
  BY <1>1, <1>6, <1>7, NoNewAnswer, SourcesKept

LEMMA SavesAnswerSourced ==
  ASSUME Assistant!IInv, Assistant!SourcesOwn, NEW s \in Slots, Assistant!SaveAnswer(s)
  PROVE  Assistant!SourcesOwn'
<1>1. /\ ~Assistant!Idle(s) /\ Assistant!Typed /\ Assistant!AddMessage(s, "assistant")
           /\ Assistant!GoesTo(s, "touch")
      /\ Assistant!Rests(turn[s])
  BY DEF Assistant!SaveAnswer, Assistant!At, Assistant!IInv, Assistant!SourcesOwn
<1>2. PICK k \in Assistant!Calls : k = turn[s]
  BY <1>1, CallIs
<1>3. PICK m \in Assistant!Messages : m = Assistant!Message(s, "assistant")
             /\ IsMessage(m, k, "assistant")
  BY <1>1, <1>2, MessageIs DEF IsMessage
<1>4. k.conversation \in Conversations
  BY <1>1, <1>2, CallIs
<1>5. Adds(k.conversation, m)
  BY <1>1, <1>2, <1>3, <1>4, AddsIs DEF Assistant!AddMessage
<1> DEFINE x == [k EXCEPT !.at = "touch"]
<1>6. Assistant!Goes(s, x) /\ Moved(x, k, "touch", k.sources, k.flag)
  BY <1>1, <1>2, StageIs DEF Assistant!GoesTo
<1> HIDE DEF x
<1>7. x \in Assistant!Calls /\ Sourced(x)
  BY <1>6, QuestionFirst DEF Moved, Sourced
<1>8. SetTo(s, x)
  BY <1>1, <1>6, <1>7, GoesIs
<1>9. Assistant!Rests(m)
  BY <1>1, <1>2, <1>3 DEF IsMessage, Assistant!Rests
<1>. QED
  BY <1>1, <1>4, <1>5, <1>7, <1>8, <1>9, OneMessage, SourcesKept

LEMMA EndsSourced ==
  ASSUME Assistant!IInv, Assistant!SourcesOwn, NEW s \in Slots,
         Assistant!Touch(s) \/ Assistant!Fail(s)
  PROVE  Assistant!SourcesOwn'
<1>1. Assistant!Goes(s, Assistant!NoCall) /\ log' = log /\ Assistant!Typed
  BY DEF Assistant!Touch, Assistant!Fail, Assistant!Unavailable, Assistant!Goes, Assistant!IInv
<1>2. Assistant!NoCall \in Assistant!Calls \cup {Assistant!NoCall}
  OBVIOUS
<1>3. SetTo(s, Assistant!NoCall)
  BY <1>1, <1>2, GoesIs
<1>. QED
  BY <1>1, <1>2, <1>3, NoNewAnswer, SourcesKept

LEMMA NextSourced == Assistant!IInv /\ Assistant!SourcesOwn /\ [Assistant!Next]_Assistant!vars
  => Assistant!SourcesOwn'
<1>. SUFFICES ASSUME Assistant!IInv, Assistant!SourcesOwn,
                     [Assistant!Next]_Assistant!vars PROVE Assistant!SourcesOwn'
  OBVIOUS
<1>1. CASE turn' = turn /\ log' = log
  BY <1>1 DEF Assistant!SourcesOwn, Assistant!Answers, Assistant!At, Assistant!Idle, Assistant!Rests
<1>2. CASE UNCHANGED Assistant!vars
  BY <1>1, <1>2 DEF Assistant!vars
<1>3. ASSUME NEW of \in Companies, NEW c \in Conversations, Assistant!StartConversation(of, c)
      PROVE  Assistant!SourcesOwn'
  BY <1>1, <1>3 DEF Assistant!StartConversation
<1>4. ASSUME NEW s \in Slots, NEW of \in Companies, NEW c \in Conversations,
             NEW q \in Questions, Assistant!SendMessage(s, of, c, q)
      PROVE  Assistant!SourcesOwn'
  BY <1>4, SendsSourced
<1>5. ASSUME NEW s \in Slots,
             Assistant!SaveQuestion(s) \/ Assistant!RetrieveSources(s)
               \/ Assistant!ModelAnswers(s) \/ Assistant!SaveAnswer(s)
                         \/ Assistant!Touch(s) \/ Assistant!Fail(s)
      PROVE  Assistant!SourcesOwn'
  BY <1>5, SavesQuestionSourced, RetrievesSourced, AnswersSourced, SavesAnswerSourced,
     EndsSourced
<1>. QED
  BY <1>2, <1>3, <1>4, <1>5 DEF Assistant!Next

(* knowledge-base.service.ts: if the retriever ranks the sources of each single      *)
(* question right, then at all times every answer cites the best ones for its own    *)
(* question, however turns overlap and fail, and refuses just when there are none.   *)
THEOREM AnswersAreGrounded ==
  ASSUME Assistant!FindsBest PROVE Assistant!Spec => []BestSourcesCited
<1>1. Assistant!Init => Assistant!SourcesOwn
  <2>. SUFFICES ASSUME Assistant!Init PROVE Assistant!SourcesOwn
    OBVIOUS
  <2>1. \A c \in Conversations : Assistant!Answers(c) = {}
    BY DEF Assistant!Init, Assistant!Answers
  <2>2. \A s \in Slots : Assistant!Idle(s)
    BY DEF Assistant!Init, Assistant!Idle
  <2>. QED
    BY <2>1, <2>2 DEF Assistant!SourcesOwn, Assistant!At
<1>2. Assistant!IInv /\ Assistant!SourcesOwn => BestSourcesCited
  <2>. SUFFICES ASSUME Assistant!IInv, Assistant!SourcesOwn, NEW c \in Conversations,
                       NEW i \in Assistant!Answers(c)
                PROVE  Assistant!CitesBest(log[c][i])
    BY DEF BestSourcesCited, Assistant!BestSourcesCited
  <2> DEFINE M == Assistant!Messages
  <2>1. log[c] \in Seq(M) /\ \A m \in M : m.question \in Questions
    BY DEF Assistant!IInv, Assistant!Typed, Assistant!Messages
  <2> HIDE DEF M
  <2>2. PICK m \in M : m = log[c][i] /\ Assistant!Rests(m)
    <3>1. i \in DOMAIN log[c]
      BY DEF Assistant!Answers
    <3>2. log[c][i] \in M
      BY <2>1, <3>1
    <3>3. Assistant!Rests(log[c][i])
      BY DEF Assistant!SourcesOwn
    <3>. QED
      BY <3>2, <3>3
  <2>3. m.question \in Questions
    BY <2>1, <2>2
  <2>. QED
    BY <2>2, <2>3 DEF Assistant!CitesBest, Assistant!FindsBest, Assistant!Rests
<1>. QED
  BY <1>1, <1>2, NextSourced, Dialogue, PTL DEF Assistant!Spec
=============================================================================
