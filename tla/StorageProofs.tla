----------------------------- MODULE StorageProofs -----------------------------
(***************************************************************************)
(* Proofs about what a device stores: about Cores, for any devices,        *)
(* namespaces and bounds, and about Blobs, for any drives, folders and     *)
(* files.                                                                  *)
(*                                                                         *)
(* The inductive invariant of Cores (IInv) has a part for each property;   *)
(* the parts rest on the types of the variables but not on each other.     *)
(* That of Blobs (BlobsInv) says of each drive that there is a set of      *)
(* files that were counted, all of them once (SumIs), which come before    *)
(* what is yet to be listed or read (PlaceIs).                             *)
(***************************************************************************)
EXTENDS Cores, Blobs, FiniteSetTheorems, TLAPS


-----------------------------------------------------------------------------
(***************************************************************************)
(* Blobs: of each drive there is a set of files that were counted.         *)
(***************************************************************************)
\* The file that is processed, and those that are wanted up to seq.
Pending(d) == IF pc[d] \in {"listed", "read"} THEN {file[d].seq} ELSE {}
Upto(d, n) == {s \in WantedFiles(d) : s <= n}
FilesOf(d, n) == {s \in DOMAIN index[d] : \E i \in 1 .. n : index[d][s] = Folders[i]}

\* Each file of C was counted once: it is downloaded, was cancelled or was had.
SumIs(d, C) ==
  /\ downloads[d] \subseteq C /\ cancelled[d] \subseteq C
  /\ haveCount[d] + Cardinality(downloads[d]) + Cardinality(cancelled[d]) <= Cardinality(C)
  /\ ~ aborted => /\ cancelled[d] = {}
                  /\ haveCount[d] + Cardinality(downloads[d]) = Cardinality(C)

\* The files of C come before what is yet to be listed or read.
ComeBefore(d, C) ==
  /\ C \subseteq Upto(d, seq[d]) /\ Pending(d) \subseteq Upto(d, seq[d]) \ C
  /\ pc[d] \in {"absent", "opening", "blobs"} => C = {} /\ folder[d] = 1
  /\ pc[d] = "list" => C \subseteq FilesOf(d, folder[d] - 1)
  /\ pc[d] \in {"entries", "listed"} =>
       /\ C \cup Pending(d) \subseteq FilesOf(d, folder[d]) \ rest[d]
       /\ rest[d] \subseteq {s \in DOMAIN index[d] : index[d][s] = Folders[folder[d]]}

\* With one folder all that come before are in C: n files were in the index
\* when it was listed.
AreAll(d, C) ==
  /\ pc[d] \in {"absent", "opening", "blobs", "list"} => C = {} /\ seq[d] = 0
  /\ pc[d] \in {"entries", "listed"} =>
       /\ \E n \in 0 .. Len(index[d]) : C \cup Pending(d) \cup rest[d] = Upto(d, n)
       /\ seq[d] \in C \cup Pending(d) \cup {0}
  /\ pc[d] \in {"history", "read"} => C \cup Pending(d) = Upto(d, seq[d])

PlaceIs(d, C) == ComeBefore(d, C) /\ (Len(Folders) = 1 => AreAll(d, C))

CountsOK(d) == \E C \in SUBSET Nat : SumIs(d, C) /\ PlaceIs(d, C)

BlobsInv == BlobsTypeOK /\ \A d \in Drives : CountsOK(d)

-----------------------------------------------------------------------------
LEMMA MaxIs ==
  ASSUME NEW m \in Nat, NEW n \in Nat
  PROVE  Max({m, n}) = IF m <= n THEN n ELSE m
<1> DEFINE x == IF m <= n THEN n ELSE m
<1>1. x \in {m, n} /\ \A y \in {m, n} : x >= y
  OBVIOUS
<1>2. \A z \in {m, n} : (\A y \in {m, n} : z >= y) => z = x
  OBVIOUS
<1> HIDE DEF x
<1>3. Max({m, n}) = x
  BY <1>1, <1>2 DEF Max
<1>4. QED
  BY <1>3 DEF x

\* The folders of the filter are the only ones a wanted file can be in.
LEMMA FoldersAre ==
  /\ Len(Folders) \in Nat \ {0} /\ Folders \in Seq(AllFolders)
  /\ \A f \in AllFolders : f # Other <=> \E i \in 1 .. Len(Folders) : f = Folders[i]
  /\ \A i, j \in 1 .. Len(Folders) : Folders[i] = Folders[j] => i = j
<1>1. Folders \in Seq(AllFolders) /\ Len(Folders) > 0
  BY BlobsAssumption
<1>2. Len(Folders) \in Nat
  BY <1>1
<1>3. \A i \in 1 .. Len(Folders) : Folders[i] # Other /\ \A j \in 1 .. Len(Folders) : Folders[i] = Folders[j] => i = j
  BY BlobsAssumption
<1>4. \A f \in AllFolders : f = Other \/ \E i \in 1 .. Len(Folders) : f = Folders[i]
  BY DEF AllFolders
<1>5. QED
  BY <1>1, <1>2, <1>3, <1>4

LEMMA IndexIs ==
  ASSUME BlobsTypeOK, NEW d \in Drives
  PROVE  /\ index[d] \in Seq(AllFolders) /\ Len(index[d]) \in Nat /\ DOMAIN index[d] = 1 .. Len(index[d])
         /\ \A s \in DOMAIN index[d] : s \in Nat \ {0} /\ index[d][s] \in AllFolders
         /\ IsFiniteSet(DOMAIN index[d]) /\ IsFiniteSet(WantedFiles(d))
<1>1. index[d] \in Seq(AllFolders)
  BY DEF BlobsTypeOK
<1>2. Len(index[d]) \in Nat /\ DOMAIN index[d] = 1 .. Len(index[d])
  BY <1>1
<1>3. IsFiniteSet(DOMAIN index[d])
  BY <1>2, FS_Interval
<1>4. WantedFiles(d) \in SUBSET DOMAIN index[d]
  BY DEF WantedFiles
<1>5. IsFiniteSet(WantedFiles(d))
  BY <1>3, <1>4, FS_Subset
<1>6. QED
  BY <1>1, <1>2, <1>3, <1>5

LEMMA ToldIsTyped ==
  ASSUME told \in Statuses \cup {"none"}, EmitState \/ EmitNothing
  PROVE  told' \in Statuses \cup {"none"}
BY DEF EmitState, EmitNothing, CombineStates, Statuses

LEMMA PlaceStays ==
  ASSUME NEW d \in Drives, NEW C, PlaceIs(d, C),
         UNCHANGED <<index[d], pc[d], folder[d], rest[d], file[d], seq[d]>>
  PROVE  PlaceIs(d, C)'
BY DEF PlaceIs, ComeBefore, AreAll, Pending, Upto, FilesOf, WantedFiles

LEMMA SumStays ==
  ASSUME NEW d \in Drives, NEW C, SumIs(d, C),
         UNCHANGED <<haveCount[d], downloads[d], cancelled[d], aborted>>
  PROVE  SumIs(d, C)'
BY DEF SumIs

\* A drive of which nothing changes but what is here.
LEMMA DriveStays ==
  ASSUME NEW d \in Drives, CountsOK(d), UNCHANGED <<index[d], pc[d], folder[d], rest[d], file[d], seq[d]>>,
         UNCHANGED <<haveCount[d], downloads[d], cancelled[d]>>, UNCHANGED aborted
  PROVE  CountsOK(d)'
<1>1. PICK C \in SUBSET Nat : SumIs(d, C) /\ PlaceIs(d, C)
  BY DEF CountsOK
<1>2. SumIs(d, C)' /\ PlaceIs(d, C)'
  BY <1>1, SumStays, PlaceStays
<1>3. QED
  BY <1>2 DEF CountsOK

\* Of the steps of one drive.
LEMMA OneDriveKeeps ==
  ASSUME BlobsInv, BlobsTypeOK', NEW d \in Drives, UNCHANGED aborted, CountsOK(d)',
         \A e \in Drives \ {d} :
           /\ UNCHANGED <<index[e], pc[e], folder[e], rest[e], file[e], seq[e]>>
           /\ UNCHANGED <<haveCount[e], downloads[e], cancelled[e]>>
  PROVE  BlobsInv'
<1>1. ASSUME NEW e \in Drives PROVE CountsOK(e)'
  <2>1. CASE e = d
    BY <2>1
  <2>2. CASE e # d
    BY <2>2, DriveStays DEF BlobsInv
  <2>3. QED
    BY <2>1, <2>2
<1>2. QED
  BY <1>1 DEF BlobsInv

LEMMA BlobsInitInv == BlobsInit => BlobsInv
<1> SUFFICES ASSUME BlobsInit PROVE BlobsInv
  OBVIOUS
<1>1. 1 \in 1 .. Len(Folders)
  BY FoldersAre
<1>2. BlobsTypeOK
  <2>1. index \in [Drives -> Seq(AllFolders)] /\ \A d \in Drives : index[d] = <<>>
    BY DEF BlobsInit, Of
  <2>2. /\ here \in [Drives -> SUBSET Nat] /\ rest \in [Drives -> SUBSET Nat]
        /\ downloads \in [Drives -> SUBSET Nat] /\ cancelled \in [Drives -> SUBSET Nat]
        /\ \A d \in Drives : here[d] = {} /\ rest[d] = {} /\ downloads[d] = {} /\ cancelled[d] = {}
    BY DEF BlobsInit, Of
  <2>3. /\ pc \in [Drives -> Places] /\ folder \in [Drives -> 1 .. Len(Folders)]
        /\ \A d \in Drives : pc[d] \in {"absent", "opening", "list"}
    BY <1>1 DEF BlobsInit, Of, Places
  <2>4. /\ seq \in [Drives -> Nat] /\ haveCount \in [Drives -> Nat] /\ initialCheck \in [Drives -> BOOLEAN]
        /\ file \in [Drives -> [seq : Nat, wasDownloaded : BOOLEAN]] /\ \A d \in Drives : seq[d] = 0
    BY DEF BlobsInit, Of
  <2>5. \A d \in Drives : seq[d] <= Len(index[d])
    BY <2>1, <2>4
  <2>6. blobs \subseteq Drives /\ error \subseteq Drives /\ aborted \in BOOLEAN /\ told \in Statuses \cup {"none"}
    BY BlobsAssumption DEF BlobsInit
  <2>7. QED
    BY <2>1, <2>2, <2>3, <2>4, <2>5, <2>6 DEF BlobsTypeOK
<1>3. ASSUME NEW d \in Drives PROVE CountsOK(d)
  <2>1. SumIs(d, {})
    BY FS_EmptySet DEF BlobsInit, SumIs, Of
  <2>2. /\ pc[d] \in {"absent", "opening", "list"} /\ folder[d] = 1 /\ seq[d] = 0
    BY DEF BlobsInit, Of
  <2>3. PlaceIs(d, {})
    BY <2>2 DEF PlaceIs, ComeBefore, AreAll, Pending
  <2>4. QED
    BY <2>1, <2>3 DEF CountsOK
<1>4. QED
  BY <1>2, <1>3 DEF BlobsInv

-----------------------------------------------------------------------------
(***************************************************************************)
(* Steps of the loop of a drive.                                           *)
(***************************************************************************)
LEMMA BeginKeeps ==
  ASSUME BlobsInv, NEW d \in Drives,
         AddDrive(d) \/ AwaitBlobs(d) \/ (EmitBlobs(d) /\ pc[d] = "blobs" /\ ~ aborted)
  PROVE  BlobsInv'
<1>1. PICK where \in {"opening", "blobs", "list"} :
        pc' = [pc EXCEPT ![d] = where] /\ pc[d] \in {"absent", "opening", "blobs"}
  BY DEF AddDrive, AwaitBlobs, EmitBlobs, Goto, drives
<1>2. /\ UNCHANGED <<index, here, folder, rest, file, seq, haveCount, downloads, cancelled, error, aborted>>
      /\ initialCheck' = initialCheck \/ initialCheck' = [initialCheck EXCEPT ![d] = FALSE]
      /\ blobs' \subseteq blobs \cup {d}
  BY DEF AddDrive, AwaitBlobs, EmitBlobs, counts
<1>3. told' \in Statuses \cup {"none"}
  BY ToldIsTyped DEF AddDrive, AwaitBlobs, EmitBlobs, EmitNothing, BlobsInv, BlobsTypeOK
<1>4. BlobsTypeOK'
  BY <1>1, <1>2, <1>3 DEF BlobsInv, BlobsTypeOK, Places
<1>5. pc \in [Drives -> Places]
  BY DEF BlobsInv, BlobsTypeOK
<1>6. CountsOK(d)'
  <2>1. PICK C \in SUBSET Nat : SumIs(d, C) /\ PlaceIs(d, C)
    BY DEF BlobsInv, CountsOK
  <2>2. pc'[d] = where
    BY <1>1, <1>5
  <2>3. SumIs(d, C)'
    BY <1>2, <2>1, SumStays
  <2>4. PlaceIs(d, C)'
    BY <1>1, <1>2, <2>1, <2>2 DEF PlaceIs, ComeBefore, AreAll, Pending, Upto, FilesOf, WantedFiles
  <2>5. QED
    BY <2>3, <2>4 DEF CountsOK
<1>7. QED
  BY <1>1, <1>2, <1>4, <1>5, <1>6, OneDriveKeeps

LEMMA EndStartKeeps ==
  ASSUME BlobsInv, NEW d \in Drives, EndStart(d)
  PROVE  BlobsInv'
<1>1. pc' = [pc EXCEPT ![d] = "returned"] /\ pc[d] \in {"absent", "opening", "blobs", "list", "entries", "history"}
  BY DEF EndStart, Return, Goto
<1>2. /\ UNCHANGED <<index, here, blobs, folder, rest, file, seq, haveCount, downloads, cancelled, error, aborted>>
      /\ UNCHANGED <<initialCheck, told>>
  BY DEF EndStart, Return, counts, EmitNothing
<1>4. BlobsTypeOK'
  BY <1>1, <1>2 DEF BlobsInv, BlobsTypeOK, Places
<1>5. pc \in [Drives -> Places]
  BY DEF BlobsInv, BlobsTypeOK
<1>6. CountsOK(d)'
  <2>1. PICK C \in SUBSET Nat : SumIs(d, C) /\ PlaceIs(d, C)
    BY DEF BlobsInv, CountsOK
  <2>2. pc'[d] = "returned"
    BY <1>1, <1>5
  <2>3. SumIs(d, C)'
    BY <1>2, <2>1, SumStays
  <2>4. PlaceIs(d, C)'
    BY <1>1, <1>2, <2>1, <2>2 DEF PlaceIs, ComeBefore, AreAll, Pending, Upto, FilesOf, WantedFiles
  <2>5. QED
    BY <2>3, <2>4 DEF CountsOK
<1>7. QED
  BY <1>1, <1>2, <1>4, <1>5, <1>6, OneDriveKeeps

\* What is listed is not counted yet: it is in a folder that was not listed.
LEMMA ListFolderKeeps ==
  ASSUME BlobsInv, NEW d \in Drives, ListFolder(d)
  PROVE  BlobsInv'
<1> DEFINE listed == {s \in DOMAIN index[d] : index[d][s] = Folders[folder[d]]}
<1>1. /\ rest' = [rest EXCEPT ![d] = listed] /\ pc' = [pc EXCEPT ![d] = "entries"] /\ pc[d] = "list"
      /\ UNCHANGED <<index, here, blobs, folder, file, seq, haveCount, downloads, cancelled, initialCheck, error, aborted, told>>
  BY DEF ListFolder, Goto, counts, EmitNothing
<1>2. /\ listed \subseteq DOMAIN index[d] /\ listed \subseteq Nat /\ IsFiniteSet(DOMAIN index[d])
      /\ Len(index[d]) \in Nat /\ DOMAIN index[d] = 1 .. Len(index[d])
      /\ \A s \in DOMAIN index[d] : index[d][s] \in AllFolders
  BY IndexIs DEF BlobsInv
<1>3. pc \in [Drives -> Places] /\ rest \in [Drives -> SUBSET Nat] /\ folder \in [Drives -> 1 .. Len(Folders)]
  BY DEF BlobsInv, BlobsTypeOK
<1> HIDE DEF listed
<1>4. pc'[d] = "entries" /\ rest'[d] = listed
  BY <1>1, <1>3
<1>5. BlobsTypeOK'
  BY <1>1, <1>2 DEF BlobsInv, BlobsTypeOK, Places
<1>6. CountsOK(d)'
  <2>1. PICK C \in SUBSET Nat : SumIs(d, C) /\ PlaceIs(d, C)
    BY DEF BlobsInv, CountsOK
  <2>2. SumIs(d, C)'
    BY <1>1, <2>1, SumStays
  <2>3. folder[d] \in 1 .. Len(Folders) /\ Len(Folders) \in Nat
    BY <1>3, FoldersAre
  <2>4. C \subseteq FilesOf(d, folder[d] - 1) /\ Pending(d)' = {} /\ Pending(d) = {}
    BY <1>1, <1>4, <2>1 DEF PlaceIs, ComeBefore, Pending
  <2>5. C \subseteq FilesOf(d, folder[d]) \ listed
    <3>1. ASSUME NEW s \in C PROVE s \in FilesOf(d, folder[d]) /\ s \notin listed
      <4>1. PICK i \in 1 .. folder[d] - 1 : s \in DOMAIN index[d] /\ index[d][s] = Folders[i]
        BY <2>4 DEF FilesOf
      <4>2. i \in 1 .. folder[d] /\ i \in 1 .. Len(Folders) /\ i # folder[d]
        BY <2>3
      <4>3. Folders[i] # Folders[folder[d]]
        BY <2>3, <4>2, FoldersAre
      <4>4. QED
        BY <4>1, <4>2, <4>3 DEF FilesOf, listed
    <3>2. QED
      BY <3>1
  <2>6. ComeBefore(d, C)'
    <3>1. C \subseteq Upto(d, seq[d])
      BY <2>1 DEF PlaceIs, ComeBefore
    <3>2. UNCHANGED <<Upto(d, seq[d]), FilesOf(d, folder[d])>>
      BY <1>1 DEF Upto, FilesOf, WantedFiles
    <3>3. QED
      BY <1>1, <1>4, <2>4, <2>5, <3>1, <3>2 DEF ComeBefore, listed
  <2>7. ASSUME Len(Folders) = 1 PROVE AreAll(d, C)'
    <3>1. C = {} /\ seq[d] = 0
      BY <1>1, <2>1, <2>7 DEF PlaceIs, AreAll
    <3>2. folder[d] = 1
      BY <2>3, <2>7
    <3>3. listed = Upto(d, Len(index[d]))
      <4>1. \A f \in AllFolders : f # Other <=> f = Folders[1]
        BY <2>7, FoldersAre
      <4>2. QED
        BY <1>2, <3>2, <4>1 DEF listed, Upto, WantedFiles
    <3>4. UNCHANGED Upto(d, Len(index[d]))
      BY <1>1 DEF Upto, WantedFiles
    <3>5. Len(index[d]) \in 0 .. Len(index[d])
      BY <1>2
    <3>6. (C \cup Pending(d) \cup rest[d])' = Upto(d, Len(index[d]))'
      BY <1>4, <2>4, <3>1, <3>3, <3>4
    <3>7. (\E n \in 0 .. Len(index[d]) : C \cup Pending(d) \cup rest[d] = Upto(d, n))'
      BY <1>1, <3>5, <3>6
    <3>8. QED
      BY <1>1, <1>4, <3>1, <3>7 DEF AreAll
  <2>8. QED
    BY <2>2, <2>6, <2>7 DEF CountsOK, PlaceIs
<1>7. QED
  BY <1>1, <1>3, <1>5, <1>6, OneDriveKeeps

LEMMA ListEntryKeeps ==
  ASSUME BlobsInv, NEW d \in Drives, NEW s \in Files, ListEntry(d, s)
  PROVE  BlobsInv'
<1> DEFINE entry == [seq |-> s, wasDownloaded |-> StatusNow(d) = "downloaded"]
           last == Max({seq[d], s})
           left == rest[d] \ {s}
<1>1. /\ rest' = [rest EXCEPT ![d] = left] /\ pc' = [pc EXCEPT ![d] = "listed"] /\ pc[d] = "entries"
      /\ file' = [file EXCEPT ![d] = entry] /\ seq' = [seq EXCEPT ![d] = last] /\ s \in rest[d]
      /\ UNCHANGED <<index, here, blobs, folder, haveCount, downloads, cancelled, initialCheck, error, aborted, told>>
  BY DEF ListEntry, Process, Goto, counts, EmitNothing
<1>2. /\ Len(index[d]) \in Nat /\ DOMAIN index[d] = 1 .. Len(index[d])
      /\ \A k \in DOMAIN index[d] : index[d][k] \in AllFolders
  BY IndexIs DEF BlobsInv
<1>3. /\ pc \in [Drives -> Places] /\ rest \in [Drives -> SUBSET Nat] /\ folder \in [Drives -> 1 .. Len(Folders)]
      /\ seq \in [Drives -> Nat] /\ file \in [Drives -> [seq : Nat, wasDownloaded : BOOLEAN]]
      /\ seq[d] \in Nat /\ seq[d] <= Len(index[d])
      /\ rest[d] \subseteq DOMAIN index[d] /\ left \subseteq Nat
  BY DEF BlobsInv, BlobsTypeOK
<1>4. s \in DOMAIN index[d] /\ s \in Nat /\ s # 0 /\ s <= Len(index[d])
  BY <1>1, <1>2, <1>3
<1>5. entry \in [seq : Nat, wasDownloaded : BOOLEAN] /\ entry.seq = s
  BY <1>4
<1>6. last = IF seq[d] <= s THEN s ELSE seq[d]
  BY <1>3, <1>4, MaxIs
<1>7. left \subseteq DOMAIN index[d] /\ s \notin left /\ rest[d] = left \cup {s}
  BY <1>1, <1>3
<1> HIDE DEF entry, last, left
<1>8. /\ pc'[d] = "listed" /\ rest'[d] = left /\ file'[d].seq = s /\ seq'[d] = last
      /\ Pending(d)' = {s} /\ Pending(d) = {}
  BY <1>1, <1>3, <1>5 DEF Pending
<1>9. BlobsTypeOK'
  <2>1. last \in Nat /\ last <= Len(index[d])
    BY <1>3, <1>4, <1>6
  <2>2. /\ pc' \in [Drives -> Places] /\ rest' \in [Drives -> SUBSET Nat] /\ seq' \in [Drives -> Nat]
        /\ file' \in [Drives -> [seq : Nat, wasDownloaded : BOOLEAN]]
    BY <1>1, <1>3, <1>5, <2>1 DEF Places
  <2>3. /\ \A e \in Drives : rest'[e] \subseteq DOMAIN index[e] /\ seq'[e] <= Len(index[e])
        /\ \A e \in Drives : pc'[e] \in {"listed", "read"} => file'[e].seq \in DOMAIN index[e]
    BY <1>1, <1>3, <1>4, <1>7, <1>8, <2>1 DEF BlobsInv, BlobsTypeOK
  <2>4. QED
    BY <1>1, <2>2, <2>3 DEF BlobsInv, BlobsTypeOK
<1>10. CountsOK(d)'
  <2>1. PICK C \in SUBSET Nat : SumIs(d, C) /\ PlaceIs(d, C)
    BY DEF BlobsInv, CountsOK
  <2>2. SumIs(d, C)'
    BY <1>1, <2>1, SumStays
  <2>3. folder[d] \in 1 .. Len(Folders) /\ Len(Folders) \in Nat
    BY <1>3, FoldersAre
  <2>4. /\ C \subseteq Upto(d, seq[d]) /\ C \subseteq FilesOf(d, folder[d]) \ rest[d]
        /\ rest[d] \subseteq {k \in DOMAIN index[d] : index[d][k] = Folders[folder[d]]}
    BY <1>1, <1>8, <2>1 DEF PlaceIs, ComeBefore
  <2>5. s \in FilesOf(d, folder[d]) /\ s \in WantedFiles(d) /\ s \notin C
    <3>1. index[d][s] = Folders[folder[d]]
      BY <1>1, <2>4
    <3>2. folder[d] \in 1 .. folder[d]
      BY <2>3
    <3>3. index[d][s] # Other
      BY <1>2, <1>4, <2>3, <3>1, FoldersAre
    <3>4. QED
      BY <1>1, <1>4, <2>4, <3>1, <3>2, <3>3 DEF FilesOf, WantedFiles
  <2>6. Upto(d, last) = {k \in WantedFiles(d) : k <= seq[d] \/ k <= s}
    <3>1. \A k \in WantedFiles(d) : k \in Nat
      BY <1>2 DEF WantedFiles
    <3>2. QED
      BY <1>3, <1>4, <1>6, <3>1 DEF Upto
  <2>7. /\ Upto(d, seq[d])' = Upto(d, last) /\ FilesOf(d, folder[d])' = FilesOf(d, folder[d])
        /\ \A n : Upto(d, n)' = Upto(d, n)
    BY <1>1, <1>8 DEF Upto, FilesOf, WantedFiles
  <2>8. ComeBefore(d, C)'
    <3>1. C \subseteq Upto(d, last) /\ {s} \subseteq Upto(d, last) \ C
      BY <1>4, <2>4, <2>5, <2>6 DEF Upto
    <3>2. C \cup {s} \subseteq FilesOf(d, folder[d]) \ left
      BY <1>7, <2>4, <2>5
    <3>3. left \subseteq {k \in DOMAIN index[d] : index[d][k] = Folders[folder[d]]}
      BY <1>7, <2>4
    <3>4. QED
      BY <1>1, <1>8, <2>7, <3>1, <3>2, <3>3 DEF ComeBefore
  <2>9. ASSUME Len(Folders) = 1 PROVE AreAll(d, C)'
    <3>1. /\ seq[d] \in C \cup {0}
          /\ \E n \in 0 .. Len(index[d]) : C \cup rest[d] = Upto(d, n)
      BY <1>1, <1>8, <2>1, <2>9 DEF PlaceIs, AreAll
    <3>2. last \in C \cup {s} \cup {0}
      BY <1>6, <3>1
    <3>3. C \cup {s} \cup left = C \cup rest[d]
      BY <1>7
    <3>4. \E n \in 0 .. Len(index[d]) : C \cup {s} \cup left = Upto(d, n)
      BY <3>1, <3>3
    <3>5. QED
      BY <1>1, <1>8, <2>7, <3>2, <3>4 DEF AreAll
  <2>10. QED
    BY <2>2, <2>8, <2>9 DEF CountsOK, PlaceIs
<1>11. QED
  BY <1>1, <1>3, <1>9, <1>10, OneDriveKeeps

LEMMA NextFolderKeeps ==
  ASSUME BlobsInv, NEW d \in Drives, NextFolder(d)
  PROVE  BlobsInv'
<1>1. /\ pc[d] = "entries" /\ rest[d] = {}
      /\ UNCHANGED <<index, here, blobs, rest, file, seq, haveCount, downloads, cancelled, error, aborted>>
  BY DEF NextFolder
<1>2. \/ /\ folder[d] < Len(Folders) /\ folder' = [folder EXCEPT ![d] = folder[d] + 1]
         /\ pc' = [pc EXCEPT ![d] = "list"] /\ UNCHANGED initialCheck
      \/ /\ folder' = folder /\ pc' = [pc EXCEPT ![d] = "history"]
         /\ initialCheck' = [initialCheck EXCEPT ![d] = FALSE]
  BY DEF NextFolder, Goto
<1>3. told' \in Statuses \cup {"none"}
  BY ToldIsTyped DEF NextFolder, BlobsInv, BlobsTypeOK
<1>4. /\ pc \in [Drives -> Places] /\ folder \in [Drives -> 1 .. Len(Folders)] /\ folder[d] \in 1 .. Len(Folders)
      /\ Len(Folders) \in Nat /\ seq[d] \in Nat
  BY FoldersAre DEF BlobsInv, BlobsTypeOK
<1>5. BlobsTypeOK'
  <2>1. pc' \in [Drives -> Places] /\ folder' \in [Drives -> 1 .. Len(Folders)]
    BY <1>2, <1>4 DEF Places
  <2>2. initialCheck' \in [Drives -> BOOLEAN]
    BY <1>2 DEF BlobsInv, BlobsTypeOK
  <2>3. \A e \in Drives : pc'[e] \in {"listed", "read"} => pc[e] = pc'[e]
    BY <1>2, <1>4
  <2>4. QED
    BY <1>1, <1>3, <2>1, <2>2, <2>3 DEF BlobsInv, BlobsTypeOK
<1>6. CountsOK(d)'
  <2>1. PICK C \in SUBSET Nat : SumIs(d, C) /\ PlaceIs(d, C)
    BY DEF BlobsInv, CountsOK
  <2>2. SumIs(d, C)'
    BY <1>1, <2>1, SumStays
  <2>3. C \subseteq Upto(d, seq[d]) /\ C \subseteq FilesOf(d, folder[d]) /\ Pending(d) = {}
    BY <1>1, <2>1 DEF PlaceIs, ComeBefore, Pending
  <2>4. /\ \A n : Upto(d, n)' = Upto(d, n) /\ FilesOf(d, n)' = FilesOf(d, n)
    BY <1>1 DEF Upto, FilesOf, WantedFiles
  <2>5. CASE folder[d] < Len(Folders) /\ pc' = [pc EXCEPT ![d] = "list"] /\ folder' = [folder EXCEPT ![d] = folder[d] + 1]
    <3>1. pc'[d] = "list" /\ folder'[d] = folder[d] + 1 /\ folder'[d] - 1 = folder[d]
      <4>1. pc'[d] = "list"
        BY <1>4, <2>5
      <4>2. folder'[d] = folder[d] + 1
        BY <1>4, <2>5
      <4>3. folder[d] \in Int
        BY <1>4
      <4>4. QED
        BY <4>1, <4>2, <4>3
    <3>2. Pending(d)' = {}
      BY <3>1 DEF Pending
    <3>3. C \subseteq Upto(d, seq[d])' /\ C \subseteq FilesOf(d, folder[d] - 1)'
      BY <1>1, <2>3, <2>4, <3>1 DEF FilesOf, Upto, WantedFiles
    <3>4. ComeBefore(d, C)'
      BY <3>1, <3>2, <3>3 DEF ComeBefore
    <3>5. Len(Folders) # 1
      <4>1. \A m, n \in Nat : m \in 1 .. n /\ m < n => n # 1
        OBVIOUS
      <4>2. folder[d] < Len(Folders) /\ folder[d] \in 1 .. Len(Folders) /\ Len(Folders) \in Nat
        BY <1>4, <2>5
      <4>3. folder[d] \in Nat
        BY <4>2
      <4>4. QED
        BY ONLY <4>1, <4>2, <4>3, Zenon
    <3>6. QED
      BY <2>2, <3>4, <3>5 DEF CountsOK, PlaceIs
  <2>6. CASE folder' = folder /\ pc' = [pc EXCEPT ![d] = "history"]
    <3>1. pc'[d] = "history" /\ Pending(d)' = {}
      BY <1>4, <2>6 DEF Pending
    <3>2. ComeBefore(d, C)'
      BY <1>1, <2>3, <2>4, <3>1 DEF ComeBefore, Upto, WantedFiles
    <3>3. ASSUME Len(Folders) = 1 PROVE C = Upto(d, seq[d])
      <4>1. PICK n \in 0 .. Len(index[d]) : C = Upto(d, n)
        BY <1>1, <2>1, <2>3, <3>3 DEF PlaceIs, AreAll
      <4>2. seq[d] \in C \cup {0}
        BY <1>1, <2>1, <2>3, <3>3 DEF PlaceIs, AreAll
      <4>3. n \in Nat /\ \A k \in WantedFiles(d) : k \in Nat \ {0}
        BY IndexIs DEF BlobsInv, WantedFiles
      <4>4. \A k \in WantedFiles(d) : k <= n <=> k <= seq[d]
        <5>1. ASSUME NEW k \in WantedFiles(d), k <= n PROVE k <= seq[d]
          BY <2>3, <4>1, <5>1 DEF Upto
        <5>2. ASSUME NEW k \in WantedFiles(d), k <= seq[d] PROVE k <= n
          <6>1. seq[d] # 0
            BY <1>4, <4>3, <5>2
          <6>2. seq[d] <= n
            BY <4>1, <4>2, <6>1 DEF Upto
          <6>3. QED
            BY <1>4, <4>3, <5>2, <6>2
        <5>3. QED
          BY <5>1, <5>2
      <4>5. QED
        BY <4>1, <4>4 DEF Upto
    <3>4. Len(Folders) = 1 => AreAll(d, C)'
      BY <1>1, <2>4, <3>1, <3>3 DEF AreAll, Upto, WantedFiles
    <3>5. QED
      BY <2>2, <3>2, <3>4 DEF CountsOK, PlaceIs
  <2>7. QED
    BY <1>2, <2>5, <2>6
<1>7. QED
  BY <1>1, <1>2, <1>4, <1>5, <1>6, OneDriveKeeps

LEMMA ReadHistoryKeeps ==
  ASSUME BlobsInv, NEW d \in Drives, ReadHistory(d)
  PROVE  BlobsInv'
<1> DEFINE s == seq[d] + 1
           entry == [seq |-> s, wasDownloaded |-> StatusNow(d) = "downloaded"]
<1>1. /\ pc[d] = "history" /\ seq[d] < Len(index[d])
      /\ UNCHANGED <<index, here, blobs, folder, rest, haveCount, downloads, cancelled, initialCheck, error, aborted, told>>
  BY DEF ReadHistory, counts, EmitNothing
<1>2. /\ Len(index[d]) \in Nat /\ DOMAIN index[d] = 1 .. Len(index[d])
      /\ \A k \in DOMAIN index[d] : k \in Nat /\ index[d][k] \in AllFolders
  BY IndexIs DEF BlobsInv
<1>3. /\ pc \in [Drives -> Places] /\ seq \in [Drives -> Nat] /\ file \in [Drives -> [seq : Nat, wasDownloaded : BOOLEAN]]
      /\ seq[d] \in Nat
  BY DEF BlobsInv, BlobsTypeOK
<1>4. s \in DOMAIN index[d] /\ s \in Nat /\ s # 0 /\ s <= Len(index[d])
  BY <1>1, <1>2, <1>3
<1>5. Max({seq[d], s}) = s
  <2>1. seq[d] <= s /\ seq[d] \in Nat /\ s \in Nat
    BY <1>3
  <2> HIDE DEF s
  <2>2. QED
    BY <2>1, MaxIs
<1>6. \/ /\ index[d][s] # Other /\ pc' = [pc EXCEPT ![d] = "read"]
         /\ file' = [file EXCEPT ![d] = entry] /\ seq' = [seq EXCEPT ![d] = s]
      \/ index[d][s] = Other /\ pc' = pc /\ file' = file /\ seq' = [seq EXCEPT ![d] = s]
  BY <1>5 DEF ReadHistory, Process, Goto
<1>7. entry \in [seq : Nat, wasDownloaded : BOOLEAN] /\ entry.seq = s
  BY <1>4
<1>a. s = seq[d] + 1
  OBVIOUS
<1> HIDE DEF entry, s
<1>8. seq' = [seq EXCEPT ![d] = s] /\ seq'[d] = s
  BY <1>3, <1>6
<1>9. BlobsTypeOK'
  <2>1. /\ pc' \in [Drives -> Places] /\ seq' \in [Drives -> Nat]
        /\ file' \in [Drives -> [seq : Nat, wasDownloaded : BOOLEAN]]
    <3>1. seq' \in [Drives -> Nat]
      BY <1>3, <1>4, <1>8
    <3>2. pc' \in [Drives -> Places]
      BY <1>3, <1>6 DEF Places
    <3>3. file' \in [Drives -> [seq : Nat, wasDownloaded : BOOLEAN]]
      BY <1>3, <1>6, <1>7
    <3>4. QED
      BY <3>1, <3>2, <3>3
  <2>2. /\ \A e \in Drives : seq'[e] <= Len(index[e])
        /\ \A e \in Drives : pc'[e] \in {"listed", "read"} => file'[e].seq \in DOMAIN index[e]
    BY <1>3, <1>4, <1>6, <1>7 DEF BlobsInv, BlobsTypeOK
  <2>3. QED
    BY <1>1, <2>1, <2>2 DEF BlobsInv, BlobsTypeOK
<1>10. CountsOK(d)'
  <2>1. PICK C \in SUBSET Nat : SumIs(d, C) /\ PlaceIs(d, C)
    BY DEF BlobsInv, CountsOK
  <2>2. SumIs(d, C)'
    BY <1>1, <2>1, SumStays
  <2>3. C \subseteq Upto(d, seq[d]) /\ Pending(d) = {}
    BY <1>1, <2>1 DEF PlaceIs, ComeBefore, Pending
  <2>4. \A n : Upto(d, n)' = Upto(d, n)
    BY <1>1 DEF Upto, WantedFiles
  <2>5. /\ \A k \in WantedFiles(d) : k \in Nat
        /\ s \in WantedFiles(d) <=> index[d][s] # Other
    BY <1>2, <1>4 DEF WantedFiles
  <2>6. Upto(d, s) = Upto(d, seq[d]) \cup (IF index[d][s] # Other THEN {s} ELSE {}) /\ s \notin Upto(d, seq[d])
    BY <1>3, <1>4, <1>a, <2>5 DEF Upto
  <2>7. pc'[d] \in {"history", "read"} /\ Pending(d)' = IF index[d][s] # Other THEN {s} ELSE {}
    BY <1>1, <1>3, <1>6, <1>7 DEF Pending
  <2>8. Upto(d, seq[d])' = Upto(d, s)
    BY <1>8, <2>4 DEF Upto, WantedFiles
  <2>9. ComeBefore(d, C)'
    <3>1. C \subseteq Upto(d, s) /\ Pending(d)' \subseteq Upto(d, s) \ C
      BY <2>3, <2>6, <2>7
    <3>2. QED
      BY <2>7, <2>8, <3>1 DEF ComeBefore
  <2>10. ASSUME Len(Folders) = 1 PROVE AreAll(d, C)'
    <3>1. C = Upto(d, seq[d])
      BY <1>1, <2>1, <2>3, <2>10 DEF PlaceIs, AreAll
    <3>2. QED
      BY <2>6, <2>7, <2>8, <3>1 DEF AreAll
  <2>11. QED
    BY <2>2, <2>9, <2>10 DEF CountsOK, PlaceIs
<1>11. QED
  BY <1>1, <1>3, <1>6, <1>9, <1>10, OneDriveKeeps

\* What is counted is finite.
LEMMA CountedIsFinite ==
  ASSUME BlobsInv, NEW d \in Drives, NEW C, ComeBefore(d, C)
  PROVE  /\ IsFiniteSet(C) /\ Cardinality(C) \in Nat /\ Cardinality(C) <= Cardinality(WantedFiles(d))
         /\ Cardinality(WantedFiles(d)) \in Nat
<1>1. IsFiniteSet(WantedFiles(d))
  BY IndexIs DEF BlobsInv
<1>2. C \in SUBSET WantedFiles(d)
  BY DEF ComeBefore, Upto
<1>3. QED
  BY <1>1, <1>2, FS_Subset, FS_CardinalityType

LEMMA DownloadsAreFinite ==
  ASSUME BlobsInv, NEW d \in Drives
  PROVE  /\ IsFiniteSet(downloads[d]) /\ Cardinality(downloads[d]) \in Nat
         /\ IsFiniteSet(cancelled[d]) /\ Cardinality(cancelled[d]) \in Nat
         /\ haveCount[d] \in Nat
<1>1. IsFiniteSet(DOMAIN index[d])
  BY IndexIs DEF BlobsInv
<1>2. downloads[d] \in SUBSET DOMAIN index[d] /\ cancelled[d] \in SUBSET DOMAIN index[d] /\ haveCount[d] \in Nat
  BY DEF BlobsInv, BlobsTypeOK
<1>3. QED
  BY <1>1, <1>2, FS_Subset, FS_CardinalityType

LEMMA ProcessEntryKeeps ==
  ASSUME BlobsInv, NEW d \in Drives, ProcessEntry(d)
  PROVE  BlobsInv'
<1>0. PICK s : s = file[d].seq
  OBVIOUS
<1> DEFINE where == IF pc[d] = "listed" THEN "entries" ELSE "history"
<1>1. /\ pc[d] \in {"listed", "read"} /\ pc' = [pc EXCEPT ![d] = where]
      /\ UNCHANGED <<index, here, blobs, folder, rest, file, seq, cancelled, initialCheck, error, aborted>>
      /\ \/ haveCount' = [haveCount EXCEPT ![d] = haveCount[d] + 1] /\ UNCHANGED downloads
         \/ downloads' = [downloads EXCEPT ![d] = downloads[d] \cup {s}] /\ UNCHANGED haveCount
  BY <1>0 DEF ProcessEntry, Goto
<1>2. told' \in Statuses \cup {"none"}
  BY ToldIsTyped DEF ProcessEntry, BlobsInv, BlobsTypeOK
<1>3. /\ pc \in [Drives -> Places] /\ haveCount \in [Drives -> Nat] /\ downloads \in [Drives -> SUBSET Nat]
      /\ s \in DOMAIN index[d] /\ s \in Nat /\ haveCount[d] \in Nat /\ downloads[d] \subseteq Nat
  BY <1>0, <1>1, IndexIs DEF BlobsInv, BlobsTypeOK
<1>4. Pending(d) = {s}
  BY <1>0, <1>1 DEF Pending
<1> HIDE DEF where
<1>5. /\ pc' \in [Drives -> Places] /\ pc'[d] = where /\ where \in {"entries", "history"}
      /\ \A e \in Drives \ {d} : pc'[e] = pc[e]
  BY <1>1, <1>3 DEF Places, where
<1>6. BlobsTypeOK'
  <2>1. haveCount' \in [Drives -> Nat] /\ downloads' \in [Drives -> SUBSET Nat]
    BY <1>1, <1>3
  <2>2. \A e \in Drives : downloads'[e] \subseteq DOMAIN index[e]
    <3>1. \A e \in Drives : downloads[e] \subseteq DOMAIN index[e]
      BY DEF BlobsInv, BlobsTypeOK
    <3>2. \A e \in Drives : downloads'[e] = downloads[e] \/ (e = d /\ downloads'[e] = downloads[e] \cup {s})
      BY <1>1, <1>3
    <3>3. QED
      BY <1>3, <3>1, <3>2
  <2>3. \A e \in Drives : pc'[e] \in {"listed", "read"} => file[e].seq \in DOMAIN index[e]
    BY <1>5 DEF BlobsInv, BlobsTypeOK
  <2>4. QED
    BY <1>1, <1>2, <1>5, <2>1, <2>2, <2>3 DEF BlobsInv, BlobsTypeOK
<1>7. CountsOK(d)'
  <2>1. PICK C \in SUBSET Nat : SumIs(d, C) /\ PlaceIs(d, C)
    BY DEF BlobsInv, CountsOK
  <2> DEFINE D == C \cup {s}
  <2>2. s \notin C /\ s \in Upto(d, seq[d])
    BY <1>4, <2>1 DEF PlaceIs, ComeBefore
  <2>3. Cardinality(D) = Cardinality(C) + 1 /\ Cardinality(C) \in Nat
    BY <2>1, <2>2, CountedIsFinite, FS_AddElement DEF PlaceIs
  <2>4. SumIs(d, D)'
    <3> HIDE DEF D
    <3>1. /\ downloads[d] \subseteq C /\ cancelled[d] \subseteq C /\ C \subseteq D /\ s \in D
          /\ Cardinality(downloads[d]) \in Nat /\ Cardinality(cancelled[d]) \in Nat
      BY <2>1, DownloadsAreFinite DEF SumIs, D
    <3>2. Cardinality(downloads[d] \cup {s}) = Cardinality(downloads[d]) + 1
      BY <2>2, <3>1, DownloadsAreFinite, FS_AddElement
    <3>3. \/ haveCount'[d] = haveCount[d] + 1 /\ downloads'[d] = downloads[d]
          \/ downloads'[d] = downloads[d] \cup {s} /\ haveCount'[d] = haveCount[d]
      BY <1>1, <1>3
    <3>4. haveCount'[d] + Cardinality(downloads'[d]) = haveCount[d] + Cardinality(downloads[d]) + 1
      <4>1. CASE haveCount'[d] = haveCount[d] + 1 /\ downloads'[d] = downloads[d]
        BY <1>3, <3>1, <4>1
      <4>2. CASE downloads'[d] = downloads[d] \cup {s} /\ haveCount'[d] = haveCount[d]
        BY <1>3, <3>1, <3>2, <4>2
      <4>3. QED
        BY <3>3, <4>1, <4>2
    <3>5. downloads'[d] \subseteq D /\ cancelled'[d] = cancelled[d] /\ aborted' = aborted
      BY <1>1, <3>1, <3>3
    <3>6. haveCount'[d] \in Nat /\ Cardinality(downloads'[d]) \in Nat
      <4>1. CASE haveCount'[d] = haveCount[d] + 1 /\ downloads'[d] = downloads[d]
        BY <1>3, <3>1, <4>1
      <4>2. CASE downloads'[d] = downloads[d] \cup {s} /\ haveCount'[d] = haveCount[d]
        BY <1>3, <3>1, <3>2, <4>2
      <4>3. QED
        BY <3>3, <4>1, <4>2
    <3>7. haveCount'[d] + Cardinality(downloads'[d]) + Cardinality(cancelled[d]) <= Cardinality(D)
      BY <1>3, <2>1, <2>3, <3>1, <3>4, <3>6 DEF SumIs
    <3>8. ~ aborted => cancelled[d] = {} /\ haveCount'[d] + Cardinality(downloads'[d]) = Cardinality(D)
      BY <2>1, <2>3, <3>4 DEF SumIs
    <3>9. cancelled[d] \subseteq D
      BY <3>1
    <3>10. QED
      BY <3>5, <3>7, <3>8, <3>9 DEF SumIs
  <2>5. PlaceIs(d, D)'
    <3>1. Pending(d)' = {}
      BY <1>5 DEF Pending
    <3>2. \A n : Upto(d, n)' = Upto(d, n) /\ FilesOf(d, n)' = FilesOf(d, n)
      BY <1>1 DEF Upto, FilesOf, WantedFiles
    <3>3. C \cup Pending(d) = D
      BY <1>4
    <3>4. (pc[d] = "listed" /\ where = "entries") \/ (pc[d] = "read" /\ where = "history")
      BY <1>1 DEF where
    <3> HIDE DEF D
    <3>5. Upto(d, seq[d])' = Upto(d, seq[d]) /\ FilesOf(d, folder[d])' = FilesOf(d, folder[d])
      BY <1>1, <3>2 DEF Upto, FilesOf, WantedFiles
    <3>6. ComeBefore(d, D)'
      <4>1. ComeBefore(d, C)
        BY <2>1 DEF PlaceIs
      <4>2. D \subseteq Upto(d, seq[d])'
        BY <3>3, <3>5, <4>1 DEF ComeBefore
      <4>3. QED
        BY <1>1, <1>5, <3>1, <3>3, <3>4, <3>5, <4>1, <4>2 DEF ComeBefore
    <3>7. ASSUME Len(Folders) = 1 PROVE AreAll(d, D)'
      <4>1. AreAll(d, C)
        BY <2>1, <3>7 DEF PlaceIs
      <4>2. QED
        BY <1>1, <1>5, <3>1, <3>2, <3>3, <3>4, <3>5, <4>1 DEF AreAll
    <3>8. QED
      BY <3>6, <3>7 DEF PlaceIs
  <2>6. D \in SUBSET Nat
    BY <1>3
  <2>7. QED
    BY <2>4, <2>5, <2>6 DEF CountsOK
<1>8. QED
  BY <1>1, <1>3, <1>5, <1>6, <1>7, OneDriveKeeps

-----------------------------------------------------------------------------
(***************************************************************************)
(* Steps of the downloads.                                                 *)
(***************************************************************************)
LEMMA DownloadedKeeps ==
  ASSUME BlobsInv, NEW d \in Drives, NEW s \in Files, Downloaded(d, s)
  PROVE  BlobsInv'
<1>1. /\ s \in downloads[d] /\ downloads' = [downloads EXCEPT ![d] = downloads[d] \ {s}]
      /\ haveCount' = [haveCount EXCEPT ![d] = haveCount[d] + 1]
      /\ UNCHANGED <<index, here, blobs, pc, folder, rest, file, seq, cancelled, initialCheck, error, aborted>>
  BY DEF Downloaded, loop
<1>2. told' \in Statuses \cup {"none"}
  BY ToldIsTyped DEF Downloaded, BlobsInv, BlobsTypeOK
<1>3. /\ haveCount \in [Drives -> Nat] /\ downloads \in [Drives -> SUBSET Nat]
      /\ haveCount[d] \in Nat /\ downloads[d] \subseteq Nat
  BY DEF BlobsInv, BlobsTypeOK
<1>4. haveCount'[d] = haveCount[d] + 1 /\ downloads'[d] = downloads[d] \ {s}
  BY <1>1, <1>3
<1>5. BlobsTypeOK'
  <2>1. haveCount' \in [Drives -> Nat] /\ downloads' \in [Drives -> SUBSET Nat]
    BY <1>1, <1>3
  <2>2. \A e \in Drives : downloads'[e] \subseteq downloads[e]
    BY <1>1, <1>3
  <2>3. QED
    BY <1>1, <1>2, <2>1, <2>2 DEF BlobsInv, BlobsTypeOK
<1>6. CountsOK(d)'
  <2>1. PICK C \in SUBSET Nat : SumIs(d, C) /\ PlaceIs(d, C)
    BY DEF BlobsInv, CountsOK
  <2>2. PlaceIs(d, C)'
    BY <1>1, <2>1, PlaceStays
  <2>3. IsFiniteSet(downloads[d]) /\ Cardinality(downloads[d]) \in Nat
    BY DownloadsAreFinite
  <2>4. Cardinality(downloads[d] \ {s}) = Cardinality(downloads[d]) - 1
    BY <1>1, <2>3, FS_RemoveElement
  <2>5. haveCount'[d] + Cardinality(downloads'[d]) = haveCount[d] + Cardinality(downloads[d])
    BY <1>3, <1>4, <2>3, <2>4
  <2>6. SumIs(d, C)'
    BY <1>1, <1>4, <2>1, <2>5 DEF SumIs
  <2>7. QED
    BY <2>2, <2>6 DEF CountsOK
<1>7. QED
  BY <1>1, <1>3, <1>5, <1>6, OneDriveKeeps

LEMMA CancelledEndsKeeps ==
  ASSUME BlobsInv, NEW d \in Drives, NEW s \in Files, CancelledEnds(d, s)
  PROVE  BlobsInv'
<1>1. /\ s \in cancelled[d] /\ cancelled' = [cancelled EXCEPT ![d] = cancelled[d] \ {s}]
      /\ \/ haveCount' = [haveCount EXCEPT ![d] = haveCount[d] + 1] /\ error' = error
         \/ haveCount' = haveCount /\ error' = error \cup {d}
      /\ UNCHANGED <<index, here, blobs, pc, folder, rest, file, seq, downloads, initialCheck, aborted, told>>
  BY DEF CancelledEnds, loop, EmitNothing
<1>3. /\ haveCount \in [Drives -> Nat] /\ cancelled \in [Drives -> SUBSET Nat]
      /\ haveCount[d] \in Nat /\ cancelled[d] \subseteq Nat
  BY DEF BlobsInv, BlobsTypeOK
<1>4. haveCount'[d] \in {haveCount[d], haveCount[d] + 1} /\ cancelled'[d] = cancelled[d] \ {s}
  BY <1>1, <1>3
<1>5. BlobsTypeOK'
  <2>1. haveCount' \in [Drives -> Nat] /\ cancelled' \in [Drives -> SUBSET Nat] /\ error' \subseteq Drives
    BY <1>1, <1>3 DEF BlobsInv, BlobsTypeOK
  <2>2. \A e \in Drives : cancelled'[e] \subseteq cancelled[e]
    BY <1>1, <1>3
  <2>3. QED
    BY <1>1, <2>1, <2>2 DEF BlobsInv, BlobsTypeOK
<1>6. CountsOK(d)'
  <2>1. PICK C \in SUBSET Nat : SumIs(d, C) /\ PlaceIs(d, C)
    BY DEF BlobsInv, CountsOK
  <2>2. PlaceIs(d, C)'
    BY <1>1, <2>1, PlaceStays
  <2>3. /\ IsFiniteSet(cancelled[d]) /\ Cardinality(cancelled[d]) \in Nat /\ Cardinality(downloads[d]) \in Nat
        /\ Cardinality(C) \in Nat
    BY <2>1, DownloadsAreFinite, CountedIsFinite DEF PlaceIs
  <2>4. Cardinality(cancelled[d] \ {s}) = Cardinality(cancelled[d]) - 1
    BY <1>1, <2>3, FS_RemoveElement
  <2>5. haveCount[d] + Cardinality(downloads[d]) + Cardinality(cancelled[d]) <= Cardinality(C)
    BY <2>1 DEF SumIs
  <2>6. haveCount'[d] + Cardinality(downloads[d]) + Cardinality(cancelled'[d]) <= Cardinality(C)
    BY <1>3, <1>4, <2>3, <2>4, <2>5
  <2>7. aborted /\ downloads[d] \subseteq C /\ cancelled'[d] \subseteq C
    BY <1>1, <1>4, <2>1 DEF SumIs, BlobsInv, BlobsTypeOK
  <2>8. SumIs(d, C)'
    BY <1>1, <2>6, <2>7 DEF SumIs
  <2>9. QED
    BY <2>2, <2>8 DEF CountsOK
<1>7. QED
  BY <1>1, <1>3, <1>5, <1>6, OneDriveKeeps

\* A step that changes no count and no place.
LEMMA AllDrivesStay ==
  ASSUME BlobsInv, BlobsTypeOK', UNCHANGED <<index, pc, folder, rest, file, seq, haveCount, downloads, cancelled, aborted>>
  PROVE  BlobsInv'
<1>1. ASSUME NEW d \in Drives PROVE CountsOK(d)'
  BY DriveStays DEF BlobsInv
<1>2. QED
  BY <1>1 DEF BlobsInv

LEMMA HandleErrorKeeps ==
  ASSUME BlobsInv, NEW d \in Drives, HandleError(d) \/ (EmitBlobs(d) /\ ~ (pc[d] = "blobs" /\ ~ aborted))
  PROVE  BlobsInv'
<1>1. /\ UNCHANGED <<index, here, pc, folder, rest, file, seq, haveCount, downloads, cancelled, initialCheck, aborted>>
      /\ error' \subseteq error \cup {d} /\ blobs' \subseteq blobs \cup {d}
  BY DEF HandleError, EmitBlobs, loop, counts
<1>2. told' \in Statuses \cup {"none"}
  BY ToldIsTyped DEF HandleError, EmitBlobs, BlobsInv, BlobsTypeOK
<1>3. BlobsTypeOK'
  BY <1>1, <1>2 DEF BlobsInv, BlobsTypeOK
<1>4. QED
  BY <1>1, <1>3, AllDrivesStay

LEMMA ArriveKeeps ==
  ASSUME BlobsInv, NEW d \in Drives, NEW s \in Files, Arrive(d, s)
  PROVE  BlobsInv'
<1>1. /\ UNCHANGED <<index, blobs, pc, folder, rest, file, seq, haveCount, downloads, cancelled, initialCheck, error, aborted, told>>
      /\ s \in DOMAIN index[d] /\ here' = [here EXCEPT ![d] = here[d] \cup {s}]
  BY DEF Arrive, loop, counts, EmitNothing
<1>2. s \in Nat /\ here \in [Drives -> SUBSET Nat]
  BY <1>1, IndexIs DEF BlobsInv, BlobsTypeOK
<1>3. here' \in [Drives -> SUBSET Nat]
  BY <1>1, <1>2
<1>4. \A e \in Drives : here'[e] \subseteq DOMAIN index[e]
  <2>1. \A e \in Drives : here'[e] = here[e] \/ (e = d /\ here'[e] = here[d] \cup {s})
    BY <1>1, <1>2
  <2>2. QED
    BY <1>1, <2>1 DEF BlobsInv, BlobsTypeOK
<1>5. BlobsTypeOK'
  BY <1>1, <1>3, <1>4 DEF BlobsInv, BlobsTypeOK
<1>6. QED
  BY <1>1, <1>5, AllDrivesStay

LEMMA AbortKeeps ==
  ASSUME BlobsInv, Abort
  PROVE  BlobsInv'
<1>1. /\ ~ aborted /\ aborted' = TRUE /\ downloads' = [d \in Drives |-> {}] /\ cancelled' = downloads
      /\ UNCHANGED <<index, here, blobs, pc, folder, rest, file, seq, haveCount, initialCheck, error>>
  BY DEF Abort, loop, Of
<1>2. told' \in Statuses \cup {"none"}
  BY ToldIsTyped DEF Abort, BlobsInv, BlobsTypeOK
<1>3. BlobsTypeOK'
  <2>1. downloads' \in [Drives -> SUBSET Nat] /\ \A d \in Drives : downloads'[d] = {}
    BY <1>1
  <2>2. QED
    BY <1>1, <1>2, <2>1 DEF BlobsInv, BlobsTypeOK
<1>4. ASSUME NEW d \in Drives PROVE CountsOK(d)'
  <2>1. PICK C \in SUBSET Nat : SumIs(d, C) /\ PlaceIs(d, C)
    BY DEF BlobsInv, CountsOK
  <2>2. PlaceIs(d, C)'
    BY <1>1, <2>1, PlaceStays
  <2>3. downloads'[d] = {} /\ cancelled'[d] = downloads[d] /\ Cardinality({}) = 0
    BY <1>1, FS_EmptySet
  <2>4. haveCount[d] \in Nat /\ Cardinality(downloads[d]) \in Nat /\ Cardinality(C) \in Nat
    BY <2>1, DownloadsAreFinite, CountedIsFinite DEF PlaceIs
  <2>5. downloads[d] \subseteq C /\ haveCount[d] + Cardinality(downloads[d]) = Cardinality(C)
    BY <1>1, <2>1 DEF SumIs
  <2>6. haveCount[d] + 0 + Cardinality(downloads[d]) <= Cardinality(C)
    BY <2>4, <2>5
  <2>7. SumIs(d, C)'
    BY <1>1, <2>3, <2>5, <2>6 DEF SumIs
  <2>8. QED
    BY <2>2, <2>7 DEF CountsOK
<1>5. QED
  BY <1>3, <1>4 DEF BlobsInv

\* A file is added, at the end of an index: what was counted stays.
LEMMA AppendKeeps ==
  ASSUME BlobsInv, NEW d \in Drives, NEW f \in AllFolders, index' = [index EXCEPT ![d] = Append(index[d], f)],
         here' = here \/ here' = [here EXCEPT ![d] = here[d] \cup {Len(index[d]) + 1}],
         UNCHANGED <<blobs, loop, counts, aborted, told>>
  PROVE  BlobsInv'
<1>1. /\ index \in [Drives -> Seq(AllFolders)] /\ here \in [Drives -> SUBSET Nat]
      /\ \A e \in Drives : here[e] \subseteq DOMAIN index[e]
  BY DEF BlobsInv, BlobsTypeOK
<1>2. \A e \in Drives : index[e] \in Seq(AllFolders) /\ Len(index[e]) \in Nat /\ DOMAIN index[e] = 1 .. Len(index[e])
  BY IndexIs DEF BlobsInv
<1>3. /\ Append(index[d], f) \in Seq(AllFolders) /\ Len(Append(index[d], f)) = Len(index[d]) + 1
      /\ DOMAIN Append(index[d], f) = 1 .. Len(index[d]) + 1
      /\ \A s \in DOMAIN index[d] : Append(index[d], f)[s] = index[d][s]
  BY <1>2
<1> DEFINE longer == Append(index[d], f)
<1> HIDE DEF longer
<1>a. index' = [index EXCEPT ![d] = longer]
  BY DEF longer
<1>4. /\ index' \in [Drives -> Seq(AllFolders)]
      /\ \A e \in Drives : /\ index'[e] = index[e] \/ (e = d /\ index'[e] = longer)
                           /\ DOMAIN index[e] \subseteq DOMAIN index'[e] /\ Len(index[e]) <= Len(index'[e])
                           /\ \A s \in DOMAIN index[e] : index'[e][s] = index[e][s]
                           /\ DOMAIN index'[e] = 1 .. Len(index'[e]) /\ Len(index'[e]) \in Nat
  BY <1>1, <1>2, <1>3, <1>a DEF longer
<1>5. UNCHANGED <<blobs, pc, folder, rest, file, seq, haveCount, downloads, cancelled, initialCheck, error, aborted, told>>
  BY DEF loop, counts
<1>6. here' \in [Drives -> SUBSET Nat] /\ \A e \in Drives : here'[e] \subseteq DOMAIN index'[e]
  <2>1. Len(index[d]) + 1 \in Nat /\ Len(index[d]) + 1 \in DOMAIN index'[d]
    BY <1>1, <1>2, <1>3, <1>a DEF longer
  <2>2. \A e \in Drives : here'[e] = here[e] \/ (e = d /\ here'[e] = here[d] \cup {Len(index[d]) + 1})
    BY <1>1
  <2>3. here' \in [Drives -> SUBSET Nat]
    <3>1. here[d] \cup {Len(index[d]) + 1} \in SUBSET Nat
      BY <1>1, <2>1
    <3>2. QED
      BY <1>1, <3>1
  <2>4. QED
    BY <1>1, <1>4, <2>1, <2>2, <2>3
<1>7. BlobsTypeOK'
  <2>1. \A e \in Drives : seq[e] <= Len(index'[e])
    <3>1. \A e \in Drives : seq[e] \in Nat /\ seq[e] <= Len(index[e])
      BY DEF BlobsInv, BlobsTypeOK
    <3>2. QED
      BY <1>2, <1>4, <3>1
  <2>2. \A e \in Drives : /\ rest[e] \subseteq DOMAIN index'[e] /\ downloads[e] \subseteq DOMAIN index'[e]
                          /\ cancelled[e] \subseteq DOMAIN index'[e]
                          /\ pc[e] \in {"listed", "read"} => file[e].seq \in DOMAIN index'[e]
    BY <1>4 DEF BlobsInv, BlobsTypeOK
  <2>3. QED
    BY <1>4, <1>5, <1>6, <2>1, <2>2 DEF BlobsInv, BlobsTypeOK
<1>8. ASSUME NEW e \in Drives PROVE CountsOK(e)'
  <2>1. PICK C \in SUBSET Nat : SumIs(e, C) /\ PlaceIs(e, C)
    BY DEF BlobsInv, CountsOK
  <2>2. SumIs(e, C)'
    BY <1>5, <2>1, SumStays
  <2>3. \A s \in WantedFiles(e)' : s \in WantedFiles(e) \/ s > Len(index[e])
    BY <1>2, <1>4 DEF WantedFiles
  <2>4. \A s \in WantedFiles(e) : s \in WantedFiles(e)' /\ s <= Len(index[e])
    BY <1>2, <1>4 DEF WantedFiles
  <2>5. ASSUME NEW n \in Nat, n <= Len(index[e]) PROVE Upto(e, n)' = Upto(e, n)
    <3>1. \A s \in WantedFiles(e)' : s \in Nat
      BY <1>4 DEF WantedFiles
    <3>2. \A s \in WantedFiles(e)' : s <= n => s \in WantedFiles(e)
      BY <1>2, <2>3, <2>5, <3>1
    <3>3. QED
      BY <2>4, <2>5, <3>2 DEF Upto
  <2>6. Upto(e, seq[e])' = Upto(e, seq[e])
    <3>1. seq[e] \in Nat /\ seq[e] <= Len(index[e])
      BY DEF BlobsInv, BlobsTypeOK
    <3>2. QED
      BY <1>5, <2>5, <3>1 DEF Upto
  <2>7. \A n : FilesOf(e, n) \subseteq FilesOf(e, n)'
    BY <1>4 DEF FilesOf
  <2>8. Pending(e)' = Pending(e)
    BY <1>5 DEF Pending
  <2>9. ComeBefore(e, C)'
    <3>1. /\ FilesOf(e, folder[e]) \subseteq FilesOf(e, folder[e])'
          /\ FilesOf(e, folder[e] - 1) \subseteq FilesOf(e, folder[e] - 1)'
      BY <1>5, <2>7 DEF FilesOf
    <3>2. \A s \in DOMAIN index[e] : s \in DOMAIN index'[e] /\ index'[e][s] = index[e][s]
      BY <1>4
    <3>3. QED
      BY <1>5, <2>1, <2>6, <2>8, <3>1, <3>2 DEF PlaceIs, ComeBefore
  <2>10. ASSUME Len(Folders) = 1 PROVE AreAll(e, C)'
    <3>1. AreAll(e, C)
      BY <2>1, <2>10 DEF PlaceIs
    <3>2. ASSUME NEW n \in 0 .. Len(index[e]), C \cup Pending(e) \cup rest[e] = Upto(e, n)
          PROVE  n \in 0 .. Len(index'[e]) /\ C \cup Pending(e)' \cup rest'[e] = Upto(e, n)'
      <4>1. n \in Nat /\ n <= Len(index[e]) /\ n <= Len(index'[e])
        BY <1>2, <1>4
      <4>2. Upto(e, n)' = Upto(e, n)
        BY <2>5, <4>1
      <4>3. n \in 0 .. Len(index'[e])
        BY <1>4, <4>1
      <4>4. QED
        BY <1>5, <2>8, <3>2, <4>2, <4>3
    <3>3. pc[e] \in {"entries", "listed"} =>
            \E n \in 0 .. Len(index'[e]) : C \cup Pending(e)' \cup rest'[e] = Upto(e, n)'
      BY <3>1, <3>2 DEF AreAll
    <3>4. QED
      BY <1>5, <2>6, <2>8, <3>1, <3>3 DEF AreAll
  <2>11. QED
    BY <2>2, <2>9, <2>10 DEF CountsOK, PlaceIs
<1>9. QED
  BY <1>7, <1>8 DEF BlobsInv

LEMMA BlobsNextKeeps == BlobsInv /\ [BlobsNext]_blobVars => BlobsInv'
<1> SUFFICES ASSUME BlobsInv, [BlobsNext]_blobVars PROVE BlobsInv'
  OBVIOUS
<1>1. CASE UNCHANGED blobVars
  <2>1. UNCHANGED <<index, here, blobs, pc, folder, rest, file, seq, haveCount, downloads, cancelled,
                    initialCheck, error, aborted, told>>
    BY <1>1 DEF blobVars, loop, counts
  <2>2. BlobsTypeOK'
    BY <2>1 DEF BlobsInv, BlobsTypeOK
  <2>3. QED
    BY <2>1, <2>2, AllDrivesStay
<1>2. ASSUME NEW f \in AllFolders, Create(f) PROVE BlobsInv'
  <2>1. Writer \in Drives
    BY BlobsAssumption
  <2>2. QED
    BY <1>2, <2>1, AppendKeeps DEF Create, CreateWriteStream, EmitNothing
<1>3. ASSUME NEW d \in Drives, NEW f \in AllFolders, Put(d, f) PROVE BlobsInv'
  BY <1>3, AppendKeeps DEF Put, EmitNothing
<1>4. ASSUME NEW d \in Drives, Loop(d) PROVE BlobsInv'
  BY <1>4, BeginKeeps, ListFolderKeeps, NextFolderKeeps, ReadHistoryKeeps, ProcessEntryKeeps,
     EndStartKeeps, ListEntryKeeps DEF Loop
<1>5. ASSUME NEW d \in Drives, EmitBlobs(d) \/ HandleError(d) \/ AddDrive(d) PROVE BlobsInv'
  BY <1>5, BeginKeeps, HandleErrorKeeps
<1>6. ASSUME NEW d \in Drives, NEW s \in Files, Downloaded(d, s) \/ CancelledEnds(d, s) \/ Arrive(d, s)
      PROVE  BlobsInv'
  BY <1>6, DownloadedKeeps, CancelledEndsKeeps, ArriveKeeps
<1>7. QED
  BY <1>1, <1>2, <1>3, <1>4, <1>5, <1>6, AbortKeeps DEF BlobsNext

LEMMA BlobsInvariant == BlobsSpec => []BlobsInv
<1>1. QED
  BY BlobsInitInv, BlobsNextKeeps, PTL DEF BlobsSpec

\* The variables of Blobs keep their types: what is listed, processed and
\* downloaded is in the index of its drive.
THEOREM BlobsTypeCorrect == BlobsSpec => []BlobsTypeOK
<1>1. BlobsInv => BlobsTypeOK
  BY DEF BlobsInv
<1>2. QED
  BY <1>1, BlobsInvariant, PTL

\* No file is counted twice, by the listing and the history or by two folders,
\* nor after the download was aborted; and with a filter of one folder what was
\* listed and read is all there is (seq and gt of #start()).
THEOREM EachFileIsCounted == BlobsSpec => []EveryFileOnce
<1>1. BlobsInv => EveryFileOnce
  <2> SUFFICES ASSUME BlobsInv, NEW d \in Drives
               PROVE  /\ haveCount[d] + Cardinality(downloads[d]) <= Cardinality(WantedFiles(d))
                      /\ /\ Len(Folders) = 1 /\ d \in drives
                         /\ pc[d] = "history" /\ seq[d] >= Len(index[d]) /\ ~ aborted
                         => haveCount[d] + Cardinality(downloads[d]) = Cardinality(WantedFiles(d))
    BY DEF EveryFileOnce
  <2>1. PICK C \in SUBSET Nat : SumIs(d, C) /\ PlaceIs(d, C)
    BY DEF BlobsInv, CountsOK
  <2>2. haveCount[d] + Cardinality(downloads[d]) <= Cardinality(WantedFiles(d))
    <3>1. Cardinality(C) <= Cardinality(WantedFiles(d)) /\ Cardinality(C) \in Nat /\ Cardinality(WantedFiles(d)) \in Nat
      BY <2>1, CountedIsFinite DEF PlaceIs
    <3>2. haveCount[d] \in Nat /\ Cardinality(downloads[d]) \in Nat /\ Cardinality(cancelled[d]) \in Nat
      BY DownloadsAreFinite
    <3>3. haveCount[d] + Cardinality(downloads[d]) + Cardinality(cancelled[d]) <= Cardinality(C)
      BY <2>1 DEF SumIs
    <3>4. QED
      BY <3>1, <3>2, <3>3
  <2>3. ASSUME Len(Folders) = 1, d \in drives, pc[d] = "history", seq[d] >= Len(index[d]), ~ aborted
        PROVE  haveCount[d] + Cardinality(downloads[d]) = Cardinality(WantedFiles(d))
    <3>1. C = Upto(d, seq[d])
      BY <2>1, <2>3 DEF PlaceIs, AreAll, Pending
    <3>2. \A s \in WantedFiles(d) : s <= seq[d]
      <4>1. seq[d] \in Nat /\ Len(index[d]) \in Nat /\ \A s \in WantedFiles(d) : s \in 1 .. Len(index[d])
        BY IndexIs DEF BlobsInv, BlobsTypeOK, WantedFiles
      <4>2. QED
        BY <2>3, <4>1
    <3>3. C = WantedFiles(d)
      BY <3>1, <3>2 DEF Upto
    <3>4. QED
      BY <2>1, <2>3, <3>3 DEF SumIs
  <2>4. QED
    BY <2>2, <2>3
<1>2. QED
  BY <1>1, BlobsInvariant, PTL

-----------------------------------------------------------------------------
(***************************************************************************)
(* Cores.                                                                  *)
(***************************************************************************)
USE CoresAssumption

Checked(d) == \E check \in checks : check.of = d
CoresToAdd(d) == {c \in Core : c.owner = d /\ c.namespace # "auth"}
Wanted(p) == {c \in known : c.namespace \in enabled[p]}

\* Whether the own auth core is empty is known while its record is written,
\* and it is not once that is done.
LogInv == /\ OwnershipIsFirst
          /\ ownership = "writing" => log = <<>>
          /\ ownership = "done" => log # <<>>

\* What is known has a row or is derived from the keys of the project, but
\* for what deleteOthersData() took away.
RowsInv == /\ \A c \in known \ (OwnCores \cup {CreatorCore} \cup rows) :
                c.namespace # "auth" /\ count["deletions"] > 0
           /\ deleting # {} => count["deletions"] > 0

\* A device whose cores are yet to be added is going to be looked at.
AddedInv == \A d \in Others : {Ownership(d), RoleOf(d)} \subseteq indexed =>
              starting \/ Checked(d) \/ CoresToAdd(d) \subseteq known

\* What is to be replicated is, what is replicated has a channel unless it was
\* purged, and a channel that is to go is going to be looked at.
ChannelsOf(p) ==
  /\ p \notin connected => enabled[p] = {}
  /\ Wanted(p) \ purged \subseteq replicating[p]
  /\ replicating[p] \subseteq Wanted(p) \cup {CreatorCore}
  /\ replicating[p] \ purged \subseteq paired[p]
  /\ \A c \in paired[p] : c \notin purged /\ (c \in replicating[p] \/ disabling[p][c] > 0)

ChannelsInv == /\ \A c \in purged : c.namespace # "auth"
               /\ \A p \in Others : ChannelsOf(p)

IInv == TypeOK /\ LogInv /\ RowsInv /\ AddedInv /\ ChannelsInv

-----------------------------------------------------------------------------
(***************************************************************************)
(* Types.                                                                  *)
(***************************************************************************)
LEMMA AuthCoreIsCore == ASSUME NEW d \in Devices PROVE AuthCore(d) \in Core
BY DEF AuthCore, Core

LEMMA FirstCores == OwnCores \subseteq Core /\ CreatorCore \in Core
BY AuthCoreIsCore DEF OwnCores, CreatorCore

LEMMA RecordTypes ==
  ASSUME NEW d \in Devices PROVE Ownership(d) \in Records /\ RoleOf(d) \in Records
BY DEF Ownership, RoleOf, Records

LEMMA BoundedCounts ==
  ASSUME TypeOK, NEW w \in {"disables", "crashes", "deletions"}, NEW b, Bounded(w, b)
  PROVE  /\ count' \in [{"disables", "crashes", "deletions"} -> Nat]
         /\ count'[w] = count[w] + 1
         /\ \A v \in {"disables", "crashes", "deletions"} \ {w} : count'[v] = count[v]
BY DEF TypeOK, Bounded

LEMMA AddingKeepsTypes ==
  ASSUME TypeOK, NEW cs \in SUBSET Core, AddCores(cs)
  PROVE  /\ known' \subseteq Core /\ rows' \subseteq known' /\ ready' \subseteq known'
         /\ purged' \subseteq known'
         /\ deleting' = deleting /\ enabled' = enabled /\ disabling' = disabling
         /\ replicating' \in [Others -> SUBSET Core] /\ paired' \in [Others -> SUBSET Core]
<1>1. replicating' \in [Others -> SUBSET Core] /\ paired' \in [Others -> SUBSET Core]
  BY DEF TypeOK, AddCores, HandleAddCore
<1> QED
  BY <1>1 DEF TypeOK, AddCores, HandleAddCore

LEMMA IndexingKeepsTypes ==
  ASSUME TypeOK, NEW r \in Records, Indexed(r)
  PROVE  /\ indexed' \subseteq Records
         /\ checks' \subseteq [of : Others, awaits : {"ownership", "role"}]
BY DEF TypeOK, Indexed, Records, Devices

LEMMA InitHasTypes == Init => TypeOK
BY FirstCores DEF Init, TypeOK, Nothing

LEMMA PeersKeepTypes ==
  ASSUME TypeOK, NEW p \in Others
  PROVE  /\ HandlePeerAdd(p) => TypeOK'
         /\ HandlePeerDisconnect(p) => TypeOK'
         /\ HandleProjectMessage(p) => TypeOK'
<1>1. HandlePeerAdd(p) => TypeOK'
  BY FirstCores DEF HandlePeerAdd, SendAuthCoreKeys, ReplicateCoreRecord, TypeOK, coreVars, ownershipVars
<1>2. HandlePeerDisconnect(p) => TypeOK'
  BY DEF HandlePeerDisconnect, TypeOK, coreVars, ownershipVars
<1>3. ASSUME HandleProjectMessage(p) PROVE TypeOK'
  <2>1. {AuthCore(d) : d \in AuthKeys[p]} \in SUBSET Core
    BY AuthCoreIsCore
  <2>2. AddCores({AuthCore(d) : d \in AuthKeys[p]})
    BY <1>3 DEF HandleProjectMessage
  <2> QED
    BY <1>3, <2>1, <2>2, AddingKeepsTypes DEF HandleProjectMessage, TypeOK, ownershipVars
<1> QED
  BY <1>1, <1>2, <1>3

LEMMA NamespacesKeepTypes ==
  ASSUME TypeOK, NEW p \in Others
  PROVE  /\ \A ns \in Namespaces : EnableNamespace(p, ns) => TypeOK'
         /\ \A ns \in Namespaces : DisableNamespace(p, ns) => TypeOK'
         /\ \A c \in Core : Unreplicate(p, c) => TypeOK'
<1>1. \A ns \in Namespaces : EnableNamespace(p, ns) => TypeOK'
  BY DEF EnableNamespace, ReplicateCoreRecord, CoresOf, TypeOK, coreVars, ownershipVars, connVars
<1>2. ASSUME NEW ns \in Namespaces, DisableNamespace(p, ns) PROVE TypeOK'
  <2> DEFINE cs == CoresOf(known, ns) \ {CreatorCore}
             waits == [e \in Core |-> IF e \in cs \ ready THEN disabling[p][e] + 1 ELSE disabling[p][e]]
  <2>1. waits \in [Core -> Nat]
    BY DEF TypeOK
  <2>2. disabling' = [disabling EXCEPT ![p] = waits]
    BY <1>2 DEF DisableNamespace
  <2>3. disabling' \in [Others -> [Core -> Nat]]
    BY <2>1, <2>2 DEF TypeOK
  <2>4. replicating' \in [Others -> SUBSET Core] /\ paired' \in [Others -> SUBSET Core]
        /\ enabled' \in [Others -> SUBSET Namespaces]
    BY <1>2 DEF DisableNamespace, TypeOK
  <2>5. count' \in [{"disables", "crashes", "deletions"} -> Nat]
    BY <1>2, BoundedCounts DEF DisableNamespace
  <2> QED
    BY <1>2, <2>3, <2>4, <2>5 DEF DisableNamespace, TypeOK, coreVars, ownershipVars, connVars
<1>3. ASSUME NEW c \in Core, Unreplicate(p, c) PROVE TypeOK'
  <2>1. disabling[p][c] - 1 \in Nat
    BY <1>3 DEF Unreplicate, TypeOK
  <2>2. disabling' \in [Others -> [Core -> Nat]]
    BY <1>3, <2>1 DEF Unreplicate, TypeOK
  <2>3. paired' \in [Others -> SUBSET Core]
    BY <1>3 DEF Unreplicate, TypeOK
  <2> QED
    BY <1>3, <2>2, <2>3 DEF Unreplicate, TypeOK, coreVars, ownershipVars, connVars
<1> QED
  BY <1>1, <1>2, <1>3

LEMMA DeletionKeepsTypes ==
  ASSUME TypeOK, NEW ns \in Namespaces
  PROVE  /\ DeleteOthersData(ns) => TypeOK'
         /\ RemoveCores(ns) => TypeOK'
<1>1. ASSUME DeleteOthersData(ns) PROVE TypeOK'
  <2>1. count' \in [{"disables", "crashes", "deletions"} -> Nat]
    BY <1>1, BoundedCounts DEF DeleteOthersData
  <2>2. paired' \in [Others -> SUBSET Core]
    BY <1>1 DEF DeleteOthersData, TypeOK
  <2> QED
    BY <1>1, <2>1, <2>2 DEF DeleteOthersData, CoresOf, TypeOK, ownershipVars, connVars
<1>2. RemoveCores(ns) => TypeOK'
  BY DEF RemoveCores, CoresOf, TypeOK, ownershipVars, connVars, peerVars
<1> QED
  BY <1>1, <1>2

LEMMA OwnersKeepTypes ==
  ASSUME TypeOK
  PROVE  /\ \A c \in Core : Ready(c) => TypeOK'
         /\ WriteOwnership => TypeOK'
         /\ \A d \in Others : AssignRole(d) => TypeOK'
         /\ \A r \in Records, w \in Others : Download(r, w) => TypeOK'
         /\ GetAll => TypeOK'
         /\ \A d \in Others : GetOwnership(d) => TypeOK'
         /\ \A d \in Others : ValidateRoleAndAddCores(d) => TypeOK'
         /\ Crash => TypeOK'
<1>1. \A c \in Core : Ready(c) => TypeOK'
  BY DEF Ready, TypeOK, connVars, peerVars
<1>2. ASSUME WriteOwnership PROVE TypeOK'
  <2>1. Ownership(Me) \in Records
    BY RecordTypes DEF Devices
  <2>2. log' \in Seq(Records)
    BY <1>2, <2>1 DEF WriteOwnership, TypeOK
  <2>3. Indexed(Ownership(Me))
    BY <1>2 DEF WriteOwnership
  <2> QED
    BY <1>2, <2>1, <2>2, <2>3, IndexingKeepsTypes DEF WriteOwnership, TypeOK, coreVars, connVars, peerVars
<1>3. ASSUME NEW d \in Others, AssignRole(d) PROVE TypeOK'
  <2>1. RoleOf(d) \in Records
    BY RecordTypes DEF Devices
  <2>2. log' \in Seq(Records)
    BY <1>3, <2>1 DEF AssignRole, TypeOK
  <2>3. Indexed(RoleOf(d))
    BY <1>3 DEF AssignRole
  <2> QED
    BY <1>3, <2>1, <2>2, <2>3, IndexingKeepsTypes DEF AssignRole, TypeOK, coreVars, connVars, peerVars
<1>4. ASSUME NEW r \in Records, NEW w \in Others, Download(r, w) PROVE TypeOK'
  <2>1. Indexed(r)
    BY <1>4 DEF Download
  <2> QED
    BY <1>4, <2>1, IndexingKeepsTypes DEF Download, TypeOK, coreVars, connVars, peerVars
<1>5. ASSUME GetAll PROVE TypeOK'
  <2>1. checks' \subseteq [of : Others, awaits : {"ownership", "role"}]
    BY <1>5 DEF GetAll, OwnershipsOf, TypeOK
  <2> QED
    BY <1>5, <2>1 DEF GetAll, TypeOK, coreVars, connVars, peerVars
<1>6. ASSUME NEW d \in Others, GetOwnership(d) PROVE TypeOK'
  BY <1>6 DEF GetOwnership, OwnershipsOf, TypeOK, coreVars, connVars, peerVars
<1>7. ASSUME NEW d \in Others, ValidateRoleAndAddCores(d) PROVE TypeOK'
  <2> DEFINE cs == {c \in Core : HasRole(d) /\ c.owner = d /\ c.namespace # "auth"}
  <2>1. cs \in SUBSET Core /\ AddCores(cs)
    BY <1>7 DEF ValidateRoleAndAddCores
  <2> HIDE DEF cs
  <2>2. checks' \subseteq checks
    BY <1>7 DEF ValidateRoleAndAddCores
  <2> QED
    BY <1>7, <2>1, <2>2, AddingKeepsTypes DEF ValidateRoleAndAddCores, TypeOK, connVars
<1>8. ASSUME Crash PROVE TypeOK'
  <2>1. count' \in [{"disables", "crashes", "deletions"} -> Nat]
    BY <1>8, BoundedCounts DEF Crash
  <2>2. Start(rows) /\ UNCHANGED <<rows, log, indexed>>
    BY <1>8 DEF Crash
  <2> QED
    BY <2>1, <2>2, FirstCores DEF Start, Nothing, TypeOK
<1> QED
  BY <1>1, <1>2, <1>3, <1>4, <1>5, <1>6, <1>7, <1>8

LEMMA StepKeepsTypes == TypeOK /\ [Next]_vars => TypeOK'
<1> SUFFICES ASSUME TypeOK, [Next]_vars PROVE TypeOK'
  OBVIOUS
<1>1. UNCHANGED vars => TypeOK'
  BY DEF TypeOK, vars, coreVars, ownershipVars, connVars, peerVars
<1>2. ASSUME Next PROVE TypeOK'
  BY <1>2, PeersKeepTypes, NamespacesKeepTypes, DeletionKeepsTypes, OwnersKeepTypes DEF Next
<1> QED
  BY <1>1, <1>2

-----------------------------------------------------------------------------
(***************************************************************************)
(* The log.                                                                *)
(***************************************************************************)
LEMMA LogFrame ==
  ASSUME LogInv, UNCHANGED <<log, ownership>> PROVE LogInv'
BY DEF LogInv, OwnershipIsFirst

\* The record is written where the log is empty, a role where it is not.
LEMMA WritesKeepLog ==
  ASSUME TypeOK, LogInv
  PROVE  /\ \A c \in Core : Ready(c) => LogInv'
         /\ WriteOwnership => LogInv'
         /\ \A d \in Others : AssignRole(d) => LogInv'
         /\ Crash => LogInv'
<1>1. \A c \in Core : Ready(c) => LogInv'
  BY DEF Ready, LogInv, OwnershipIsFirst
<1>2. ASSUME WriteOwnership PROVE LogInv'
  <2>1. log = <<>> /\ log' = Append(<<>>, Ownership(Me)) /\ ownership' = "done"
    BY <1>2 DEF WriteOwnership, LogInv
  <2>2. log' = <<Ownership(Me)>>
    BY <2>1
  <2> QED
    BY <2>1, <2>2 DEF LogInv, OwnershipIsFirst
<1>3. ASSUME NEW d \in Others, AssignRole(d) PROVE LogInv'
  <2>1. ownership = "done" /\ ownership' = "done" /\ log' = Append(log, RoleOf(d))
        /\ log \in Seq(Records) /\ log # <<>>
    BY <1>3 DEF AssignRole, LogInv, TypeOK
  <2>2. Len(log) \in Nat /\ Len(log) >= 1
    BY <2>1
  <2>3. Len(log') = Len(log) + 1 /\ log'[Len(log) + 1] = RoleOf(d)
        /\ \A i \in 1 .. Len(log) : log'[i] = log[i]
    BY <2>1
  <2>4. RoleOf(d) # Ownership(Me)
    BY DEF RoleOf, Ownership
  <2>5. log' # <<>> /\ log'[1] = Ownership(Me)
    BY <2>1, <2>2, <2>3 DEF LogInv, OwnershipIsFirst
  <2>6. \A i \in 2 .. Len(log') : log'[i] # Ownership(Me)
    BY <2>2, <2>3, <2>4 DEF LogInv, OwnershipIsFirst
  <2> QED
    BY <2>1, <2>5, <2>6 DEF LogInv, OwnershipIsFirst
<1>4. Crash => LogInv'
  BY DEF Crash, Start, LogInv, OwnershipIsFirst
<1> QED
  BY <1>1, <1>2, <1>3, <1>4

LEMMA StepKeepsLog == TypeOK /\ LogInv /\ [Next]_vars => LogInv'
<1> SUFFICES ASSUME TypeOK, LogInv, [Next]_vars PROVE LogInv'
  OBVIOUS
<1>1. UNCHANGED vars => UNCHANGED <<log, ownership>>
  BY DEF vars, ownershipVars
<1>2. GetAll => UNCHANGED <<log, ownership>>
  BY DEF GetAll
<1>3. \A d \in Others : GetOwnership(d) \/ ValidateRoleAndAddCores(d) => UNCHANGED <<log, ownership>>
  BY DEF GetOwnership, ValidateRoleAndAddCores
<1>4. \A r \in Records, w \in Others : Download(r, w) => UNCHANGED <<log, ownership>>
  BY DEF Download
<1>5. \A ns \in Namespaces : DeleteOthersData(ns) \/ RemoveCores(ns) => UNCHANGED <<log, ownership>>
  BY DEF DeleteOthersData, RemoveCores, ownershipVars
<1>6. \A p \in Others : HandlePeerAdd(p) \/ HandlePeerDisconnect(p) \/ HandleProjectMessage(p)
        => UNCHANGED <<log, ownership>>
  BY DEF HandlePeerAdd, HandlePeerDisconnect, HandleProjectMessage, ownershipVars
<1>7. \A p \in Others, ns \in Namespaces : EnableNamespace(p, ns) \/ DisableNamespace(p, ns)
        => UNCHANGED <<log, ownership>>
  BY DEF EnableNamespace, DisableNamespace, ownershipVars
<1>8. \A p \in Others, c \in Core : Unreplicate(p, c) => UNCHANGED <<log, ownership>>
  BY DEF Unreplicate, ownershipVars
<1> QED
  BY <1>1, <1>2, <1>3, <1>4, <1>5, <1>6, <1>7, <1>8, LogFrame, WritesKeepLog DEF Next

-----------------------------------------------------------------------------
(***************************************************************************)
(* The table of cores.                                                     *)
(***************************************************************************)
LEMMA RowsFrame ==
  ASSUME RowsInv, UNCHANGED <<known, rows, deleting>>, count'["deletions"] = count["deletions"]
  PROVE  RowsInv'
BY DEF RowsInv

LEMMA AddingKeepsRows ==
  ASSUME TypeOK, RowsInv, NEW cs \in SUBSET Core, AddCores(cs), UNCHANGED count
  PROVE  RowsInv'
<1>1. \A c \in known' \ (OwnCores \cup {CreatorCore} \cup rows') :
        c \in known \ (OwnCores \cup {CreatorCore} \cup rows)
  BY DEF AddCores
<1>2. deleting' = deleting
  BY DEF AddCores
<1> QED
  BY <1>1, <1>2 DEF RowsInv

\* Rows are deleted of a namespace of which the data is, and at a start the
\* table is all there is.
LEMMA DeletionKeepsRows ==
  ASSUME TypeOK, RowsInv
  PROVE  /\ \A ns \in Namespaces : DeleteOthersData(ns) => RowsInv'
         /\ \A ns \in Namespaces : RemoveCores(ns) => RowsInv'
         /\ Crash => RowsInv'
<1>1. ASSUME NEW ns \in Namespaces, DeleteOthersData(ns) PROVE RowsInv'
  <2>1. count'["deletions"] = count["deletions"] + 1 /\ count["deletions"] \in Nat
    BY <1>1, BoundedCounts DEF DeleteOthersData, TypeOK
  <2>2. count'["deletions"] > 0
    BY <2>1
  <2>3. UNCHANGED <<known, rows>>
    BY <1>1 DEF DeleteOthersData
  <2>4. \A c \in known \ (OwnCores \cup {CreatorCore} \cup rows) : c.namespace # "auth"
    BY DEF RowsInv
  <2> QED
    BY <2>2, <2>3, <2>4 DEF RowsInv
<1>2. ASSUME NEW ns \in Namespaces, RemoveCores(ns) PROVE RowsInv'
  <2>1. ns # "auth" /\ count["deletions"] > 0
    BY <1>2 DEF RemoveCores, RowsInv, TypeOK
  <2>2. \A c \in rows \ rows' : c.namespace = ns
    BY <1>2 DEF RemoveCores, CoresOf
  <2>3. known' = known /\ count' = count
    BY <1>2 DEF RemoveCores
  <2> QED
    BY <2>1, <2>2, <2>3 DEF RowsInv
<1>3. Crash => RowsInv'
  BY DEF Crash, Start, RowsInv
<1> QED
  BY <1>1, <1>2, <1>3

LEMMA StepKeepsRows == TypeOK /\ RowsInv /\ [Next]_vars => RowsInv'
<1> SUFFICES ASSUME TypeOK, RowsInv, [Next]_vars PROVE RowsInv'
  OBVIOUS
<1> DEFINE Same == UNCHANGED <<known, rows, deleting>> /\ count'["deletions"] = count["deletions"]
<1>1. UNCHANGED vars => Same
  BY DEF vars, coreVars
<1>2. WriteOwnership \/ GetAll => Same
  BY DEF WriteOwnership, GetAll, coreVars
<1>3. \A c \in Core : Ready(c) => Same
  BY DEF Ready
<1>4. \A d \in Others : AssignRole(d) \/ GetOwnership(d) => Same
  BY DEF AssignRole, GetOwnership, coreVars
<1>5. \A r \in Records, w \in Others : Download(r, w) => Same
  BY DEF Download, coreVars
<1>6. \A p \in Others : HandlePeerAdd(p) \/ HandlePeerDisconnect(p) => Same
  BY DEF HandlePeerAdd, HandlePeerDisconnect, coreVars
<1>7. \A p \in Others, ns \in Namespaces : EnableNamespace(p, ns) => Same
  BY DEF EnableNamespace, coreVars
<1>8. \A p \in Others, ns \in Namespaces : DisableNamespace(p, ns) => Same
  BY BoundedCounts DEF DisableNamespace, coreVars
<1>9. \A p \in Others, c \in Core : Unreplicate(p, c) => Same
  BY DEF Unreplicate, coreVars
<1>10. Same => RowsInv'
  BY RowsFrame
<1>11. ASSUME NEW d \in Others, ValidateRoleAndAddCores(d) PROVE RowsInv'
  <2> DEFINE cs == {c \in Core : HasRole(d) /\ c.owner = d /\ c.namespace # "auth"}
  <2>1. cs \in SUBSET Core /\ AddCores(cs) /\ UNCHANGED count
    BY <1>11 DEF ValidateRoleAndAddCores
  <2> QED
    BY <2>1, AddingKeepsRows
<1>12. ASSUME NEW p \in Others, HandleProjectMessage(p) PROVE RowsInv'
  <2>1. {AuthCore(d) : d \in AuthKeys[p]} \in SUBSET Core
    BY AuthCoreIsCore
  <2>2. AddCores({AuthCore(d) : d \in AuthKeys[p]}) /\ UNCHANGED count
    BY <1>12 DEF HandleProjectMessage
  <2> QED
    BY <2>1, <2>2, AddingKeepsRows
<1> HIDE DEF Same
<1> QED
  BY <1>1, <1>2, <1>3, <1>4, <1>5, <1>6, <1>7, <1>8, <1>9, <1>10, <1>11, <1>12, DeletionKeepsRows DEF Next

-----------------------------------------------------------------------------
(***************************************************************************)
(* The devices whose cores are added.                                      *)
(***************************************************************************)
\* Nothing more is indexed, and nothing is forgotten.
LEMMA AddedFrame ==
  ASSUME AddedInv, indexed' \subseteq indexed, checks \subseteq checks', known \subseteq known',
         starting => starting'
  PROVE  AddedInv'
<1> SUFFICES ASSUME NEW d \in Others, {Ownership(d), RoleOf(d)} \subseteq indexed'
             PROVE  (starting \/ Checked(d) \/ CoresToAdd(d) \subseteq known)'
  BY DEF AddedInv
<1>1. starting \/ Checked(d) \/ CoresToAdd(d) \subseteq known
  BY DEF AddedInv
<1> QED
  BY <1>1 DEF Checked, CoresToAdd

\* What is indexed of a device makes it one to look at.
LEMMA IndexingKeepsAdded ==
  ASSUME TypeOK, AddedInv, NEW r \in Records, Indexed(r), UNCHANGED <<known, starting>>
  PROVE  AddedInv'
<1> SUFFICES ASSUME NEW d \in Others, {Ownership(d), RoleOf(d)} \subseteq indexed'
             PROVE  (starting \/ Checked(d) \/ CoresToAdd(d) \subseteq known)'
  BY DEF AddedInv
<1>1. CASE r.of = d
  <2>1. r.of # Me
    BY <1>1
  <2>2. [of |-> r.of, awaits |-> "ownership"] \in checks'
    BY <2>1 DEF Indexed
  <2> QED
    BY <1>1, <2>2 DEF Checked
<1>2. CASE r.of # d
  <2>1. Ownership(d).of = d /\ RoleOf(d).of = d
    BY DEF Ownership, RoleOf
  <2>2. {Ownership(d), RoleOf(d)} \subseteq indexed
    BY <1>2, <2>1 DEF Indexed
  <2>3. starting \/ Checked(d) \/ CoresToAdd(d) \subseteq known
    BY <2>2 DEF AddedInv
  <2>4. checks \subseteq checks'
    BY DEF Indexed
  <2> QED
    BY <2>3, <2>4 DEF Checked, CoresToAdd
<1> QED
  BY <1>1, <1>2

\* A look passes a device on to the next only if there is its record.
LEMMA LooksKeepAdded ==
  ASSUME TypeOK, AddedInv
  PROVE  /\ GetAll => AddedInv'
         /\ \A e \in Others : GetOwnership(e) => AddedInv'
         /\ \A e \in Others : ValidateRoleAndAddCores(e) => AddedInv'
<1>1. ASSUME GetAll PROVE AddedInv'
  <2> SUFFICES ASSUME NEW d \in Others, {Ownership(d), RoleOf(d)} \subseteq indexed'
               PROVE  Checked(d)'
    BY DEF AddedInv
  <2>1. indexed' = indexed
    BY <1>1 DEF GetAll
  <2>2. [of |-> d, awaits |-> "role"] \in checks'
    BY <1>1, <2>1 DEF GetAll, OwnershipsOf
  <2> QED
    BY <2>2 DEF Checked
<1>2. ASSUME NEW e \in Others, GetOwnership(e) PROVE AddedInv'
  <2> SUFFICES ASSUME NEW d \in Others, {Ownership(d), RoleOf(d)} \subseteq indexed'
               PROVE  (starting \/ Checked(d) \/ CoresToAdd(d) \subseteq known)'
    BY DEF AddedInv
  <2>1. /\ indexed' = indexed /\ known' = known /\ starting' = starting
        /\ checks' = (checks \ {[of |-> e, awaits |-> "ownership"]})
                       \cup {[of |-> f, awaits |-> "role"] : f \in OwnershipsOf({e})}
    BY <1>2 DEF GetOwnership, coreVars
  <2>2. CASE d = e
    <3>1. e \in OwnershipsOf({e})
      BY <2>1, <2>2 DEF OwnershipsOf
    <3>2. [of |-> e, awaits |-> "role"] \in checks'
      BY <2>1, <3>1
    <3> QED
      BY <2>2, <3>2 DEF Checked
  <2>3. CASE d # e
    <3>1. starting \/ Checked(d) \/ CoresToAdd(d) \subseteq known
      BY <2>1 DEF AddedInv
    <3>2. \A check \in checks : check.of = d => check \in checks'
      BY <2>1, <2>3
    <3> QED
      BY <2>1, <3>1, <3>2 DEF Checked, CoresToAdd
  <2> QED
    BY <2>2, <2>3
<1>3. ASSUME NEW e \in Others, ValidateRoleAndAddCores(e) PROVE AddedInv'
  <2> SUFFICES ASSUME NEW d \in Others, {Ownership(d), RoleOf(d)} \subseteq indexed'
               PROVE  (starting \/ Checked(d) \/ CoresToAdd(d) \subseteq known)'
    BY DEF AddedInv
  <2> DEFINE cs == {c \in Core : HasRole(e) /\ c.owner = e /\ c.namespace # "auth"}
  <2>1. /\ indexed' = indexed /\ starting' = starting
        /\ checks' = checks \ {[of |-> e, awaits |-> "role"]}
        /\ known' = known \cup cs
    BY <1>3 DEF ValidateRoleAndAddCores, AddCores
  <2>2. CASE d = e
    <3>1. HasRole(e)
      BY <2>1, <2>2 DEF HasRole
    <3>2. CoresToAdd(d) = cs
      BY <2>2, <3>1 DEF CoresToAdd
    <3>3. CoresToAdd(d)' = CoresToAdd(d)
      BY DEF CoresToAdd
    <3> QED
      BY <2>1, <3>2, <3>3
  <2>3. CASE d # e
    <3>1. starting \/ Checked(d) \/ CoresToAdd(d) \subseteq known
      BY <2>1 DEF AddedInv
    <3>2. \A check \in checks : check.of = d => check \in checks'
      BY <2>1, <2>3
    <3> QED
      BY <2>1, <3>1, <3>2 DEF Checked, CoresToAdd
  <2> QED
    BY <2>2, <2>3
<1> QED
  BY <1>1, <1>2, <1>3

LEMMA StepKeepsAdded == TypeOK /\ AddedInv /\ [Next]_vars => AddedInv'
<1> SUFFICES ASSUME TypeOK, AddedInv, [Next]_vars PROVE AddedInv'
  OBVIOUS
<1> DEFINE Same == /\ indexed' \subseteq indexed /\ checks \subseteq checks' /\ known \subseteq known'
                   /\ starting => starting'
<1>1. UNCHANGED vars => Same
  BY DEF vars, coreVars, ownershipVars
<1>2. ASSUME WriteOwnership PROVE AddedInv'
  <2>1. Ownership(Me) \in Records /\ Indexed(Ownership(Me)) /\ UNCHANGED <<known, starting>>
    BY <1>2, RecordTypes DEF WriteOwnership, coreVars, Devices
  <2> QED
    BY <2>1, IndexingKeepsAdded
<1>3. ASSUME NEW d \in Others, AssignRole(d) PROVE AddedInv'
  <2>1. RoleOf(d) \in Records /\ Indexed(RoleOf(d)) /\ UNCHANGED <<known, starting>>
    BY <1>3, RecordTypes DEF AssignRole, coreVars, Devices
  <2> QED
    BY <2>1, IndexingKeepsAdded
<1>4. ASSUME NEW r \in Records, NEW w \in Others, Download(r, w) PROVE AddedInv'
  <2>1. Indexed(r) /\ UNCHANGED <<known, starting>>
    BY <1>4 DEF Download, coreVars
  <2> QED
    BY <2>1, IndexingKeepsAdded
<1>5. \A c \in Core : Ready(c) => Same
  BY DEF Ready
<1>6. \A ns \in Namespaces : DeleteOthersData(ns) \/ RemoveCores(ns) => Same
  BY DEF DeleteOthersData, RemoveCores, ownershipVars
<1>7. \A p \in Others : HandlePeerAdd(p) \/ HandlePeerDisconnect(p) => Same
  BY DEF HandlePeerAdd, HandlePeerDisconnect, coreVars, ownershipVars
<1>8. \A p \in Others, ns \in Namespaces : EnableNamespace(p, ns) \/ DisableNamespace(p, ns) => Same
  BY DEF EnableNamespace, DisableNamespace, coreVars, ownershipVars
<1>9. \A p \in Others, c \in Core : Unreplicate(p, c) => Same
  BY DEF Unreplicate, coreVars, ownershipVars
<1>10. \A p \in Others : HandleProjectMessage(p) => Same
  BY DEF HandleProjectMessage, AddCores, ownershipVars
<1>11. Same => AddedInv'
  BY AddedFrame
<1>12. ASSUME Crash PROVE AddedInv'
  BY <1>12 DEF Crash, Start, AddedInv
<1> HIDE DEF Same
<1> QED
  BY <1>1, <1>2, <1>3, <1>4, <1>5, <1>6, <1>7, <1>8, <1>9, <1>10, <1>11, <1>12, LooksKeepAdded DEF Next

-----------------------------------------------------------------------------
(***************************************************************************)
(* The channels.                                                           *)
(***************************************************************************)
LEMMA ChannelsFrame ==
  ASSUME ChannelsInv, UNCHANGED <<known, purged, connected, enabled, replicating, disabling, paired>>
  PROVE  ChannelsInv'
BY DEF ChannelsInv, ChannelsOf, Wanted

\* The new cores are replicated where their namespace is enabled.
LEMMA AddingKeepsChannels ==
  ASSUME TypeOK, ChannelsInv, NEW cs \in SUBSET Core, AddCores(cs), UNCHANGED connected
  PROVE  ChannelsInv'
<1> SUFFICES ASSUME NEW p \in Others PROVE ChannelsOf(p)'
  BY DEF AddCores, ChannelsInv
<1> DEFINE new == {c \in cs \ known : c.namespace \in enabled[p]}
<1>1. p \notin connected => new = {}
  BY DEF ChannelsInv, ChannelsOf
<1>2. replicating'[p] = replicating[p] \cup new /\ paired'[p] = paired[p] \cup new
  BY <1>1 DEF AddCores, HandleAddCore
<1>3. Wanted(p)' = Wanted(p) \cup new
  BY DEF Wanted, AddCores
<1>4. UNCHANGED <<purged, connected, enabled, disabling>>
  BY DEF AddCores
<1>5. new \cap purged = {}
  BY DEF TypeOK
<1>6. ChannelsOf(p)
  BY DEF ChannelsInv
<1> HIDE DEF new
<1> QED
  BY <1>2, <1>3, <1>4, <1>5, <1>6 DEF ChannelsOf

LEMMA PeersKeepChannels ==
  ASSUME TypeOK, ChannelsInv, NEW p \in Others
  PROVE  /\ HandlePeerAdd(p) => ChannelsInv'
         /\ HandlePeerDisconnect(p) => ChannelsInv'
         /\ HandleProjectMessage(p) => ChannelsInv'
<1>1. ASSUME HandlePeerAdd(p) PROVE ChannelsInv'
  <2>1. UNCHANGED <<known, purged, enabled, disabling>> /\ connected' = connected \cup {p}
    BY <1>1 DEF HandlePeerAdd, coreVars
  <2>2. CreatorCore \notin purged
    BY DEF ChannelsInv, CreatorCore, AuthCore
  <2>3. /\ replicating'[p] = replicating[p] \cup ({CreatorCore} \ replicating[p])
        /\ paired'[p] = paired[p] \cup ({CreatorCore} \ replicating[p])
        /\ \A q \in Others \ {p} : replicating'[q] = replicating[q] /\ paired'[q] = paired[q]
    BY <1>1, <2>2 DEF HandlePeerAdd, ReplicateCoreRecord, TypeOK
  <2> SUFFICES ASSUME NEW q \in Others PROVE ChannelsOf(q)'
    BY <2>1 DEF ChannelsInv
  <2>4. ChannelsOf(q) /\ Wanted(q)' = Wanted(q)
    BY <2>1 DEF ChannelsInv, Wanted
  <2>5. CASE q = p
    BY <2>1, <2>2, <2>3, <2>4, <2>5 DEF ChannelsOf
  <2>6. CASE q # p
    BY <2>1, <2>3, <2>4, <2>6 DEF ChannelsOf
  <2> QED
    BY <2>5, <2>6
<1>2. ASSUME HandlePeerDisconnect(p) PROVE ChannelsInv'
  <2>1. UNCHANGED <<known, purged>> /\ connected' = connected \ {p}
    BY <1>2 DEF HandlePeerDisconnect, coreVars
  <2>2. enabled'[p] = {} /\ replicating'[p] = {} /\ paired'[p] = {}
    BY <1>2 DEF HandlePeerDisconnect, TypeOK
  <2>3. \A q \in Others \ {p} : /\ enabled'[q] = enabled[q] /\ replicating'[q] = replicating[q]
                                /\ paired'[q] = paired[q] /\ disabling'[q] = disabling[q]
    BY <1>2 DEF HandlePeerDisconnect, TypeOK
  <2> SUFFICES ASSUME NEW q \in Others PROVE ChannelsOf(q)'
    BY <2>1 DEF ChannelsInv
  <2>4. CASE q = p
    BY <2>2, <2>4 DEF ChannelsOf, Wanted
  <2>5. CASE q # p
    <3>1. ChannelsOf(q) /\ Wanted(q)' = Wanted(q)
      BY <2>1, <2>3, <2>5 DEF ChannelsInv, Wanted
    <3> QED
      BY <2>1, <2>3, <2>5, <3>1 DEF ChannelsOf
  <2> QED
    BY <2>4, <2>5
<1>3. ASSUME HandleProjectMessage(p) PROVE ChannelsInv'
  <2>1. {AuthCore(d) : d \in AuthKeys[p]} \in SUBSET Core
    BY AuthCoreIsCore
  <2>2. AddCores({AuthCore(d) : d \in AuthKeys[p]}) /\ UNCHANGED connected
    BY <1>3 DEF HandleProjectMessage
  <2> QED
    BY <2>1, <2>2, AddingKeepsChannels
<1> QED
  BY <1>1, <1>2, <1>3

LEMMA EnablingKeepsChannels ==
  ASSUME TypeOK, ChannelsInv, NEW p \in Others, NEW ns \in Namespaces, EnableNamespace(p, ns)
  PROVE  ChannelsInv'
<1> DEFINE new == (CoresOf(known, ns) \ purged) \ replicating[p]
<1>1. UNCHANGED <<known, purged, connected, disabling>> /\ p \in connected
  BY DEF EnableNamespace, coreVars, connVars
<1>2. /\ replicating'[p] = replicating[p] \cup new /\ paired'[p] = paired[p] \cup new
      /\ enabled'[p] = enabled[p] \cup {ns}
  BY DEF EnableNamespace, ReplicateCoreRecord, TypeOK
<1>3. \A q \in Others \ {p} : /\ enabled'[q] = enabled[q] /\ replicating'[q] = replicating[q]
                              /\ paired'[q] = paired[q]
  BY DEF EnableNamespace, ReplicateCoreRecord, TypeOK
<1> SUFFICES ASSUME NEW q \in Others PROVE ChannelsOf(q)'
  BY <1>1 DEF ChannelsInv
<1>4. ChannelsOf(q)
  BY DEF ChannelsInv
<1>5. CASE q = p
  <2>1. Wanted(p)' = Wanted(p) \cup CoresOf(known, ns)
    BY <1>1, <1>2 DEF Wanted, CoresOf
  <2> QED
    BY <1>1, <1>2, <1>4, <1>5, <2>1 DEF ChannelsOf
<1>6. CASE q # p
  <2>1. Wanted(q)' = Wanted(q)
    BY <1>1, <1>3, <1>6 DEF Wanted
  <2> QED
    BY <1>1, <1>3, <1>4, <1>6, <2>1 DEF ChannelsOf
<1> QED
  BY <1>5, <1>6

\* A core that is not ready keeps its channel and is waited for.
LEMMA DisablingKeepsChannels ==
  ASSUME TypeOK, ChannelsInv, NEW p \in Others, NEW ns \in Namespaces, DisableNamespace(p, ns)
  PROVE  ChannelsInv'
<1> DEFINE cs == CoresOf(known, ns) \ {CreatorCore}
           waits == [e \in Core |-> IF e \in cs \ ready THEN disabling[p][e] + 1 ELSE disabling[p][e]]
<1>1. UNCHANGED <<known, purged, connected>>
  BY DEF DisableNamespace, coreVars, connVars
<1>2. /\ replicating'[p] = replicating[p] \ cs /\ paired'[p] = paired[p] \ (cs \cap ready)
      /\ enabled'[p] = enabled[p] \ {ns}
  BY DEF DisableNamespace, TypeOK
<1>3. \A q \in Others \ {p} : /\ enabled'[q] = enabled[q] /\ replicating'[q] = replicating[q]
                              /\ paired'[q] = paired[q]
  BY DEF DisableNamespace, TypeOK
<1>4. disabling' = [disabling EXCEPT ![p] = waits]
  BY DEF DisableNamespace
<1>5. disabling'[p] = waits /\ \A q \in Others \ {p} : disabling'[q] = disabling[q]
  BY <1>4 DEF TypeOK
<1> SUFFICES ASSUME NEW q \in Others PROVE ChannelsOf(q)'
  BY <1>1 DEF ChannelsInv
<1>6. ChannelsOf(q)
  BY DEF ChannelsInv
<1>7. CASE q = p
  <2>1. Wanted(p)' = Wanted(p) \ CoresOf(known, ns)
    BY <1>1, <1>2 DEF Wanted, CoresOf
  <2>2. /\ p \notin connected' => enabled'[p] = {}
        /\ Wanted(p)' \ purged' \subseteq replicating'[p]
        /\ replicating'[p] \subseteq Wanted(p)' \cup {CreatorCore}
        /\ replicating'[p] \ purged' \subseteq paired'[p]
    BY <1>1, <1>2, <1>6, <1>7, <2>1 DEF ChannelsOf
  <2>3. ASSUME NEW c \in paired'[p]
        PROVE  c \notin purged' /\ (c \in replicating'[p] \/ disabling'[p][c] > 0)
    <3>1. c \in paired[p] /\ c \in Core /\ disabling[p][c] \in Nat
      BY <1>2 DEF TypeOK
    <3>2. c \notin purged /\ (c \in replicating[p] \/ disabling[p][c] > 0)
      BY <1>6, <1>7, <3>1 DEF ChannelsOf
    <3>3. disabling'[p][c] = IF c \in cs \ ready THEN disabling[p][c] + 1 ELSE disabling[p][c]
      BY <1>5, <3>1
    <3>4. c \in cs => c \notin ready
      BY <1>2
    <3> HIDE DEF cs, waits
    <3> QED
      BY <1>1, <1>2, <3>1, <3>2, <3>3, <3>4
  <2> QED
    BY <1>7, <2>2, <2>3 DEF ChannelsOf
<1>8. CASE q # p
  <2>1. Wanted(q)' = Wanted(q)
    BY <1>1, <1>3, <1>8 DEF Wanted
  <2> QED
    BY <1>1, <1>3, <1>5, <1>6, <1>8, <2>1 DEF ChannelsOf
<1> QED
  BY <1>7, <1>8

LEMMA UnreplicatingKeepsChannels ==
  ASSUME TypeOK, ChannelsInv, NEW p \in Others, NEW c \in Core, Unreplicate(p, c)
  PROVE  ChannelsInv'
<1>1. UNCHANGED <<known, purged, connected, enabled, replicating>>
  BY DEF Unreplicate, coreVars, connVars
<1>2. paired'[p] = IF c \in replicating[p] THEN paired[p] ELSE paired[p] \ {c}
  BY DEF Unreplicate, TypeOK
<1>3. \A e \in Core \ {c} : disabling'[p][e] = disabling[p][e]
  BY DEF Unreplicate, TypeOK
<1>4. \A q \in Others \ {p} : paired'[q] = paired[q] /\ disabling'[q] = disabling[q]
  BY DEF Unreplicate, TypeOK
<1>5. \A q \in Others : paired[q] \subseteq Core
  BY DEF TypeOK
<1> SUFFICES ASSUME NEW q \in Others PROVE ChannelsOf(q)'
  BY <1>1 DEF ChannelsInv
<1>6. ChannelsOf(q) /\ Wanted(q)' = Wanted(q)
  BY <1>1 DEF ChannelsInv, Wanted
<1>7. CASE q = p
  <2>1. \A e \in paired'[p] : e \notin purged /\ (e \in replicating[p] \/ disabling'[p][e] > 0)
    BY <1>2, <1>3, <1>5, <1>6, <1>7 DEF ChannelsOf
  <2> QED
    BY <1>1, <1>2, <1>6, <1>7, <2>1 DEF ChannelsOf
<1>8. CASE q # p
  BY <1>1, <1>4, <1>6, <1>8 DEF ChannelsOf
<1> QED
  BY <1>7, <1>8

LEMMA PurgingKeepsChannels ==
  ASSUME TypeOK, ChannelsInv, NEW ns \in Namespaces, DeleteOthersData(ns)
  PROVE  ChannelsInv'
<1> DEFINE cs == CoresOf(known, ns) \ OwnCores
<1>1. UNCHANGED <<known, connected, enabled, replicating, disabling>> /\ purged' = purged \cup cs
  BY DEF DeleteOthersData, connVars
<1>2. \A q \in Others : paired'[q] = paired[q] \ cs
  BY DEF DeleteOthersData
<1>3. \A c \in purged' : c.namespace # "auth"
  BY <1>1 DEF DeleteOthersData, ChannelsInv, CoresOf
<1> SUFFICES ASSUME NEW q \in Others PROVE ChannelsOf(q)'
  BY <1>3 DEF ChannelsInv
<1>4. ChannelsOf(q) /\ Wanted(q)' = Wanted(q)
  BY <1>1 DEF ChannelsInv, Wanted
<1> HIDE DEF cs
<1> QED
  BY <1>1, <1>2, <1>4 DEF ChannelsOf

LEMMA StepKeepsChannels == TypeOK /\ ChannelsInv /\ [Next]_vars => ChannelsInv'
<1> SUFFICES ASSUME TypeOK, ChannelsInv, [Next]_vars PROVE ChannelsInv'
  OBVIOUS
<1> DEFINE Same == UNCHANGED <<known, purged, connected, enabled, replicating, disabling, paired>>
<1>1. UNCHANGED vars => Same
  BY DEF vars, coreVars, connVars, peerVars
<1>2. WriteOwnership \/ GetAll => Same
  BY DEF WriteOwnership, GetAll, coreVars, connVars, peerVars
<1>3. \A c \in Core : Ready(c) => Same
  BY DEF Ready, connVars, peerVars
<1>4. \A d \in Others : AssignRole(d) \/ GetOwnership(d) => Same
  BY DEF AssignRole, GetOwnership, coreVars, connVars, peerVars
<1>5. \A r \in Records, w \in Others : Download(r, w) => Same
  BY DEF Download, coreVars, connVars, peerVars
<1>6. \A ns \in Namespaces : RemoveCores(ns) => Same
  BY DEF RemoveCores, connVars, peerVars
<1>7. Same => ChannelsInv'
  BY ChannelsFrame
<1>8. ASSUME Crash PROVE ChannelsInv'
  BY <1>8 DEF Crash, Start, Nothing, ChannelsInv, ChannelsOf, Wanted
<1>9. ASSUME NEW d \in Others, ValidateRoleAndAddCores(d) PROVE ChannelsInv'
  <2> DEFINE cs == {c \in Core : HasRole(d) /\ c.owner = d /\ c.namespace # "auth"}
  <2>1. cs \in SUBSET Core /\ AddCores(cs) /\ UNCHANGED connected
    BY <1>9 DEF ValidateRoleAndAddCores, connVars
  <2> QED
    BY <2>1, AddingKeepsChannels
<1> HIDE DEF Same
<1> QED
  BY <1>1, <1>2, <1>3, <1>4, <1>5, <1>6, <1>7, <1>8, <1>9, PeersKeepChannels, EnablingKeepsChannels,
     DisablingKeepsChannels, UnreplicatingKeepsChannels, PurgingKeepsChannels DEF Next

-----------------------------------------------------------------------------
LEMMA InitHolds == Init => IInv
<1> SUFFICES ASSUME Init PROVE IInv
  OBVIOUS
<1>1. LogInv
  BY DEF Init, LogInv, OwnershipIsFirst
<1>2. RowsInv
  BY DEF Init, RowsInv
<1>3. AddedInv
  BY DEF Init, AddedInv
<1>4. ChannelsInv
  BY DEF Init, ChannelsInv, ChannelsOf, Wanted, Nothing
<1> QED
  BY <1>1, <1>2, <1>3, <1>4, InitHasTypes DEF IInv

\* The inductive invariant holds throughout.
THEOREM InvariantHolds == Spec => []IInv
<1>1. IInv /\ [Next]_vars => IInv'
  BY StepKeepsTypes, StepKeepsLog, StepKeepsRows, StepKeepsAdded, StepKeepsChannels DEF IInv
<1> QED
  BY <1>1, InitHolds, PTL DEF Spec

\* Every variable has its type; in particular no row is of a core that is not
\* known.
THEOREM TypeCorrect == Spec => []TypeOK
<1>1. IInv => TypeOK
  BY DEF IInv
<1> QED
  BY <1>1, InvariantHolds, PTL

\* core-ownership.js: the first record of the own auth core is the ownership
\* record, once, whatever the roles, crashes and restarts.
THEOREM OwnershipFirst == Spec => []OwnershipIsFirst
<1>1. IInv => OwnershipIsFirst
  BY DEF IInv, LogInv
<1> QED
  BY <1>1, InvariantHolds, PTL

\* core-manager/index.js: a restart forgets no core but those whose data was
\* deleted.
THEOREM KnownKept == Spec => KnownIsKept
<1>1. IInv /\ [Next]_vars =>
        [Crash => \A c \in known \ known' : c.namespace # "auth" /\ count.deletions > 0]_vars
  <2> SUFFICES ASSUME IInv, Crash, NEW c \in known \ known'
               PROVE  c.namespace # "auth" /\ count.deletions > 0
    OBVIOUS
  <2>1. known' = OwnCores \cup {CreatorCore} \cup rows
    BY DEF Crash, Start
  <2> QED
    BY <2>1 DEF IInv, RowsInv
<1> QED
  BY <1>1, InvariantHolds, PTL DEF Spec, KnownIsKept

\* sync-api.js: when nothing is awaited, the cores of every device are known
\* of which the ownership and the role are indexed.
THEOREM CoresAdded == Spec => []CoresAreAdded
<1>1. ASSUME IInv PROVE CoresAreAdded
  <2> SUFFICES ASSUME checks = {}, ~starting, NEW d \in Others,
                      {Ownership(d), RoleOf(d)} \subseteq indexed
               PROVE  CoresToAdd(d) \subseteq known
    BY DEF CoresAreAdded, CoresToAdd
  <2> QED
    BY <1>1 DEF IInv, AddedInv, Checked
<1> QED
  BY <1>1, InvariantHolds, PTL

\* peer-sync-controller.js: the channels to a peer are those of the cores of
\* its enabled namespaces, and when none is waited for, no others.
THEOREM EnabledReplicated == Spec => []EnabledIsReplicated
<1>1. ASSUME IInv PROVE EnabledIsReplicated
  <2> SUFFICES ASSUME NEW p \in connected
               PROVE  LET wanted == {c \in known : c.namespace \in enabled[p]} \ purged
                      IN /\ wanted \subseteq paired[p]
                         /\ (\A c \in Core : disabling[p][c] = 0) => paired[p] \subseteq wanted \cup {CreatorCore}
    BY DEF EnabledIsReplicated
  <2>1. p \in Others /\ paired[p] \subseteq Core
    BY <1>1 DEF IInv, TypeOK
  <2>2. ChannelsOf(p)
    BY <1>1, <2>1 DEF IInv, ChannelsInv
  <2>3. ASSUME \A c \in Core : disabling[p][c] = 0, NEW c \in paired[p]
        PROVE  c \in (Wanted(p) \ purged) \cup {CreatorCore}
    <3>1. disabling[p][c] = 0
      BY <2>1, <2>3
    <3> QED
      BY <2>2, <3>1 DEF ChannelsOf
  <2> QED
    BY <2>2, <2>3 DEF ChannelsOf, Wanted
<1> QED
  BY <1>1, InvariantHolds, PTL
=============================================================================
