--------------------------------- MODULE Blobs ---------------------------------
(***************************************************************************)
(* The files of a project on one device (blob-store/index.js) and the live *)
(* download of those of some folders from all drives                       *)
(* (blob-store/live-download.js): each drive lists the files it has in the *)
(* folders, one folder after the other, and then follows what is added.    *)
(* This device adds files to its own drive (blob-api.js), others to theirs;*)
(* the HTTP server serves what is here (fastify-plugins/blobs.js).         *)
(* A file is the number of its entry in the index of its drive; a folder   *)
(* is <<type, variant>>.                                                   *)
(*                                                                         *)
(* External are hyperdrive with its index, whose listing is of one version *)
(* of it, hypercore's downloads, and the peers that the blocks of a file   *)
(* come from.  A definition commented as a mutant is used nowhere (see     *)
(* Invites.tla).                                                           *)
(***************************************************************************)
EXTENDS Naturals, Sequences, FiniteSets, FiniteSetsExt

CONSTANTS Drives,      \* the drives of the blob store
          Writer,      \* this device's own
          FirstDrives, \* those there are when the download starts
          Folders,     \* the folders the filter stands for, in their order
          Other,       \* any other folder
          MaxFiles,    \* bound: files in all drives
          MaxErrors    \* bound: downloads that fail

AllFolders == {Folders[i] : i \in 1 .. Len(Folders)} \cup {Other}

ASSUME BlobsAssumption ==
  /\ FirstDrives \subseteq Drives /\ Writer \in FirstDrives
  /\ Folders \in Seq(AllFolders) /\ Len(Folders) > 0
  /\ \A i \in 1 .. Len(Folders) :
       Folders[i] # Other /\ \A j \in 1 .. Len(Folders) : Folders[i] = Folders[j] => i = j

VARIABLES
  index,     \* of each drive, the folders of its files
  here,      \* the files that are on this device
  blobs,     \* the drives that have opened their blobs
  pc,        \* where #start() of a drive is
  folder,    \* the folder it lists
  rest,      \* the files yet to be listed
  file,      \* the file it processes, and whether all was downloaded before
  seq,       \* the last file listed or read
  haveCount,
  downloads, \* the files that are downloaded
  cancelled, \* those of which the download was destroyed
  initialCheck,
  error,     \* the drives with an error
  aborted,
  told       \* the status of the last 'state' event

loop == <<pc, folder, rest, file, seq>>
counts == <<haveCount, downloads, cancelled, initialCheck, error>>
blobVars == <<index, here, blobs, loop, counts, aborted, told>>

Files == 1 .. MaxFiles
Places == {"absent", "opening", "blobs", "list", "entries", "listed", "history", "read", "returned"}
Statuses == {"error", "aborted", "checking", "downloading", "downloaded"}
Of(value) == [d \in Drives |-> value]

\* The drives that are downloaded.
drives == {d \in Drives : pc[d] # "absent"}

\* The status of a drive, and of all of them (combineStates).
Status(d, error_, aborted_, check, n) ==
  IF d \in error_ THEN "error" ELSE IF aborted_ THEN "aborted"
  ELSE IF check THEN "checking" ELSE IF n > 0 THEN "downloading" ELSE "downloaded"

StatusNow(d) == Status(d, error, aborted, initialCheck[d], Cardinality(downloads[d]))
StatusNext(d) == Status(d, error', aborted', initialCheck'[d], Cardinality(downloads'[d]))

CombineStates(statuses, aborted_) ==
  IF aborted_ THEN "aborted"
  ELSE IF "error" \in statuses THEN "error"
  ELSE IF "checking" \in statuses THEN "checking"
  ELSE IF "downloading" \in statuses THEN "downloading" ELSE "downloaded"

\* 'state' of a drive, which is passed on until the signal is aborted.
EmitState == told' = IF aborted THEN told
                     ELSE CombineStates({StatusNext(d) : d \in drives}, aborted')
EmitNothing == UNCHANGED told

\* Type correctness: what is listed, followed and downloaded is in the index.
BlobsTypeOK ==
  /\ index \in [Drives -> Seq(AllFolders)]
  /\ here \in [Drives -> SUBSET Nat] /\ \A d \in Drives : here[d] \subseteq DOMAIN index[d]
  /\ blobs \subseteq Drives /\ error \subseteq Drives
  /\ pc \in [Drives -> Places] /\ folder \in [Drives -> 1 .. Len(Folders)]
  /\ rest \in [Drives -> SUBSET Nat] /\ \A d \in Drives : rest[d] \subseteq DOMAIN index[d]
  /\ seq \in [Drives -> Nat] /\ \A d \in Drives : seq[d] <= Len(index[d])
  /\ file \in [Drives -> [seq : Nat, wasDownloaded : BOOLEAN]]
  /\ \A d \in Drives : pc[d] \in {"listed", "read"} => file[d].seq \in DOMAIN index[d]
  /\ haveCount \in [Drives -> Nat] /\ initialCheck \in [Drives -> BOOLEAN]
  /\ downloads \in [Drives -> SUBSET Nat] /\ \A d \in Drives : downloads[d] \subseteq DOMAIN index[d]
  /\ cancelled \in [Drives -> SUBSET Nat] /\ \A d \in Drives : cancelled[d] \subseteq DOMAIN index[d]
  /\ aborted \in BOOLEAN /\ told \in Statuses \cup {"none"}

\* A drive of which the blobs are there is listed at once, another is opened.
BlobsInit ==
  /\ index = Of(<<>>)
  /\ here = Of({})
  /\ blobs \in SUBSET FirstDrives
  /\ pc = [d \in Drives |-> IF d \notin FirstDrives THEN "absent"
                           ELSE IF d \in blobs THEN "list" ELSE "opening"]
  /\ folder = Of(1) /\ rest = Of({}) /\ seq = Of(0)
  /\ file = Of([seq |-> 0, wasDownloaded |-> FALSE])
  /\ haveCount = Of(0) /\ downloads = Of({}) /\ cancelled = Of({}) /\ initialCheck = Of(TRUE)
  /\ error = {} /\ aborted = FALSE /\ told = "none"

-----------------------------------------------------------------------------
(***************************************************************************)
(* #start() of a drive.                                                    *)
(***************************************************************************)
Goto(d, where) == pc' = [pc EXCEPT ![d] = where]
Return(d) == /\ aborted
             /\ Goto(d, "returned")
             /\ UNCHANGED <<index, here, blobs, folder, rest, file, seq, counts, aborted>>

\* #getBlobsCore(): ready() and update() have resolved, and the drive's 'blobs'
\* are waited for, whether it has opened them meanwhile or not; without peers
\* it counts as checked.
AwaitBlobs(d) ==
  /\ pc[d] = "opening"
  /\ Goto(d, "blobs")
  /\ UNCHANGED <<index, here, blobs, folder, rest, file, seq, haveCount, downloads, cancelled, error, aborted>>
  /\ \/ UNCHANGED <<initialCheck, told>>
     \/ initialCheck' = [initialCheck EXCEPT ![d] = FALSE] /\ EmitState

\* Hyperdrive opens the blobs of a drive, when it is opened itself or learns of
\* them from its header, and emits 'blobs': once, and to who listens by then.
EmitBlobs(d) ==
  /\ d \in drives \ blobs
  /\ blobs' = blobs \cup {d}
  /\ IF pc[d] = "blobs" /\ ~ aborted THEN Goto(d, "list") ELSE UNCHANGED pc
  /\ EmitNothing
  /\ UNCHANGED <<index, here, folder, rest, file, seq, counts, aborted>>

\* The files of a folder, as they are now.
ListFolder(d) ==
  /\ pc[d] = "list" /\ ~ aborted
  /\ rest' = [rest EXCEPT ![d] = {s \in DOMAIN index[d] : index[d][s] = Folders[folder[d]]}]
  /\ Goto(d, "entries")
  /\ EmitNothing
  /\ UNCHANGED <<index, here, blobs, folder, file, seq, counts, aborted>>

Process(d, s) ==
  /\ file' = [file EXCEPT ![d] = [seq |-> s, wasDownloaded |-> StatusNow(d) = "downloaded"]]
  /\ seq' = [seq EXCEPT ![d] = Max({@, s})]

ListEntry(d, s) ==
  /\ pc[d] = "entries" /\ s \in rest[d] /\ ~ aborted
  /\ rest' = [rest EXCEPT ![d] = @ \ {s}]
  /\ Process(d, s)
  /\ Goto(d, "listed")
  /\ EmitNothing
  /\ UNCHANGED <<index, here, blobs, folder, counts, aborted>>

NextFolder(d) ==
  /\ pc[d] = "entries" /\ rest[d] = {} /\ ~ aborted
  /\ IF folder[d] < Len(Folders)
       THEN /\ folder' = [folder EXCEPT ![d] = @ + 1]
            /\ Goto(d, "list")
            /\ EmitNothing
            /\ UNCHANGED initialCheck
       ELSE /\ initialCheck' = [initialCheck EXCEPT ![d] = FALSE]
            /\ Goto(d, "history")
            /\ UNCHANGED <<folder, downloads, error, aborted>>
            /\ EmitState
  /\ UNCHANGED <<index, here, blobs, rest, file, seq, haveCount, downloads, cancelled, error, aborted>>

\* Mutant: the history starts with the last file that was listed.
ReadHistoryFromLast(d) ==
  /\ pc[d] = "history" /\ seq[d] <= Len(index[d]) /\ ~ aborted
  /\ LET s == Max({seq[d], 1})
     IN IF s \in DOMAIN index[d] /\ index[d][s] # Other
          THEN Process(d, s) /\ Goto(d, "read")
          ELSE UNCHANGED <<pc, file, seq>>
  /\ EmitNothing
  /\ UNCHANGED <<index, here, blobs, folder, rest, counts, aborted>>

\* The next file of the live history, if it is in one of the folders.
ReadHistory(d) ==
  /\ pc[d] = "history" /\ seq[d] < Len(index[d]) /\ ~ aborted
  /\ LET s == seq[d] + 1
     IN IF index[d][s] # Other THEN Process(d, s) /\ Goto(d, "read")
        ELSE seq' = [seq EXCEPT ![d] = s] /\ UNCHANGED <<pc, file>>
  /\ EmitNothing
  /\ UNCHANGED <<index, here, blobs, folder, rest, counts, aborted>>

\* #processEntry(), after its core.has(); a state that it changes is told only
\* if all was downloaded before.  Nor does it look whether the signal was
\* aborted meanwhile.
ProcessEntry(d) ==
  /\ pc[d] \in {"listed", "read"}
  /\ LET s == file[d].seq
     IN IF s \in here[d]
          THEN haveCount' = [haveCount EXCEPT ![d] = @ + 1] /\ UNCHANGED downloads
          ELSE downloads' = [downloads EXCEPT ![d] = @ \cup {s}] /\ UNCHANGED haveCount
  /\ Goto(d, IF pc[d] = "listed" THEN "entries" ELSE "history")
  /\ UNCHANGED <<index, here, blobs, folder, rest, file, seq, cancelled, initialCheck, error, aborted>>
  /\ IF pc[d] = "read" /\ file[d].wasDownloaded /\ StatusNext(d) = "downloading"
       THEN EmitState ELSE EmitNothing

\* Mutant: the wait for the blobs is not ended.
EndStartUnlessWaiting(d) ==
  /\ pc[d] \in {"list", "entries", "history"}
  /\ Return(d)
  /\ EmitNothing

\* After an abort the loop ends where it is, the wait for the blobs too; the
\* history then tells once more.
EndStart(d) ==
  /\ pc[d] \in {"blobs", "list", "entries", "history"}
  /\ Return(d)
  /\ EmitNothing

\* Mutant: that a download is done is not told.
DownloadedUntold(d, s) ==
  /\ s \in downloads[d] \cap here[d]
  /\ downloads' = [downloads EXCEPT ![d] = @ \ {s}]
  /\ haveCount' = [haveCount EXCEPT ![d] = @ + 1]
  /\ UNCHANGED <<index, here, blobs, loop, cancelled, initialCheck, error, aborted, told>>

\* A download is done ...
Downloaded(d, s) ==
  /\ s \in downloads[d] \cap here[d]
  /\ downloads' = [downloads EXCEPT ![d] = @ \ {s}]
  /\ haveCount' = [haveCount EXCEPT ![d] = @ + 1]
  /\ UNCHANGED <<index, here, blobs, loop, cancelled, initialCheck, error, aborted>>
  /\ EmitState

\* ... or fails (#handleError), and stays among the downloads.
HandleError(d) ==
  /\ downloads[d] # {} /\ d \notin error
  /\ Cardinality(error) < MaxErrors
  /\ error' = error \cup {d}
  /\ UNCHANGED <<index, here, blobs, loop, haveCount, downloads, cancelled, initialCheck, aborted>>
  /\ EmitState

\* A destroyed download counts as done, or as failed.
CancelledEnds(d, s) ==
  /\ s \in cancelled[d]
  /\ cancelled' = [cancelled EXCEPT ![d] = @ \ {s}]
  /\ \/ haveCount' = [haveCount EXCEPT ![d] = @ + 1] /\ UNCHANGED error
     \/ error' = error \cup {d} /\ UNCHANGED haveCount
  /\ EmitNothing
  /\ UNCHANGED <<index, here, blobs, loop, downloads, initialCheck, aborted>>

-----------------------------------------------------------------------------
(***************************************************************************)
(* The signal, the drives, and what they get.                              *)
(***************************************************************************)

Abort ==
  /\ ~ aborted
  /\ aborted' = TRUE
  /\ downloads' = Of({})
  /\ cancelled' = downloads
  /\ UNCHANGED <<index, here, blobs, loop, haveCount, initialCheck, error>>
  /\ EmitState

\* 'add-drive': the key of a drive was learnt, and the drive made for it is yet
\* to be opened.
AddDrive(d) ==
  /\ d \notin drives /\ ~ aborted
  /\ Goto(d, "opening")
  /\ EmitNothing
  /\ UNCHANGED <<index, here, blobs, folder, rest, file, seq, counts, aborted>>

\* Room for another file.
IsBounded == MapThenSumSet(LAMBDA e : Len(index[e]), Drives) < MaxFiles

SUPPORTED_BLOB_VARIANTS == [
  photo |-> {"original", "preview", "thumbnail"},
  audio |-> {"original"},
  video |-> {"original"}]

\* The end of a write stream into the own drive.
CreateWriteStream(f) ==
  /\ index' = [index EXCEPT ![Writer] = Append(@, f)]
  /\ here' = [here EXCEPT ![Writer] = @ \cup {Len(index[Writer]) + 1}]

\* create() writes each variant it is given by a stream of its own; the type
\* is that of the MIME type.
Create(f) ==
  /\ f[1] \in DOMAIN SUPPORTED_BLOB_VARIANTS
  /\ IsBounded
  /\ CreateWriteStream(f)
  /\ EmitNothing
  /\ UNCHANGED <<blobs, loop, counts, aborted>>

\* The owner of another drive adds a file, and its index is replicated.
Put(d, f) ==
  /\ d # Writer /\ IsBounded
  /\ index' = [index EXCEPT ![d] = Append(@, f)]
  /\ EmitNothing
  /\ UNCHANGED <<here, blobs, loop, counts, aborted>>

\* The blocks of a file arrive, asked for by this download or by others.
Arrive(d, s) ==
  /\ s \in DOMAIN index[d] \ here[d]
  /\ here' = [here EXCEPT ![d] = @ \cup {s}]
  /\ EmitNothing
  /\ UNCHANGED <<index, blobs, loop, counts, aborted>>

-----------------------------------------------------------------------------
\* What a GET of a file is answered with: without the type of its content in
\* the metadata of the entry its first bytes are looked at, otherwise it is
\* sent, which fails where it is not here.
HasEntry(d, s) == d \in drives /\ s \in DOMAIN index[d]

GetEntryBlob(d, s) == s \in here[d]

Reply(d, s, hasMimeType) ==
  LET type == index[d][s][1]  variant == index[d][s][2]
  IN IF ~ HasEntry(d, s) THEN "404"
     ELSE IF variant \notin SUPPORTED_BLOB_VARIANTS[type] THEN "400"
     ELSE IF GetEntryBlob(d, s) THEN "file"
     ELSE IF hasMimeType THEN "broken" ELSE "404"

-----------------------------------------------------------------------------
Loop(d) ==
  \/ AwaitBlobs(d) \/ ListFolder(d) \/ NextFolder(d) \/ ReadHistory(d)
  \/ ProcessEntry(d) \/ EndStart(d)
  \/ \E s \in Files : ListEntry(d, s)

BlobsNext ==
  \/ Abort
  \/ \E f \in AllFolders : Create(f)
  \/ \E d \in Drives :
       \/ Loop(d) \/ EmitBlobs(d) \/ HandleError(d) \/ AddDrive(d)
       \/ \E f \in AllFolders : Put(d, f)
       \/ \E s \in Files : Downloaded(d, s) \/ CancelledEnds(d, s) \/ Arrive(d, s)

BlobsSpec == BlobsInit /\ [][BlobsNext]_blobVars

\* Loops and promises go on; the blobs of a drive are opened and a file that is
\* asked for arrives at last.
BlobsFairSpec ==
  /\ BlobsSpec
  /\ \A d \in Drives :
       /\ WF_blobVars(Loop(d)) /\ WF_blobVars(EmitBlobs(d))
       /\ \A s \in Files : WF_blobVars(Downloaded(d, s)) /\ WF_blobVars(s \in downloads[d] /\ Arrive(d, s))

-----------------------------------------------------------------------------
(***************************************************************************)
(* Properties.                                                             *)
(***************************************************************************)
WantedFiles(d) == {s \in DOMAIN index[d] : index[d][s] # Other}

\* What was had and what is downloaded are together no more than the files that
\* are wanted: no file is counted twice, however the listing, the files that are
\* added meanwhile, the blocks that arrive and an abort follow each other.  With
\* a filter of one folder they are all of those files, once a drive follows its
\* history and has read it all (seq and gt of #start()); with several the listing
\* of the last may pass over what was added to the first.
EveryFileOnce ==
  \A d \in Drives :
    LET counted == haveCount[d] + Cardinality(downloads[d])
        wanted == Cardinality(WantedFiles(d))
    IN /\ counted <= wanted
       /\ /\ Len(Folders) = 1 /\ d \in drives
          /\ pc[d] = "history" /\ seq[d] >= Len(index[d]) /\ ~ aborted
          => counted = wanted

\* The drives whose 'blobs' came before #getBlobsCore() listened: it waits for
\* good.
Missed == {d \in blobs : pc[d] = "blobs"}

\* When nothing is added any more, the files that are wanted are served at
\* last and the last state that was told says that all is downloaded, unless a
\* download failed (the 'state' events of both classes).  A drive that missed
\* its 'blobs' keeps its own files and that state, but no files of other
\* drives, from coming.  And a download that is aborted comes to rest, wherever
\* the loop of each drive is and whatever it missed: all have returned, a file
\* whose core.has() the abort came in on has arrived, unless its download
\* failed, and nothing else was told after "aborted".
EndsDownloaded ==
  <>[](IF aborted
         THEN /\ told = "aborted"
              /\ \A d \in drives : pc[d] = "returned" /\ (downloads[d] = {} \/ d \in error)
         ELSE error = {} =>
              /\ Missed = {} => told = "downloaded"
              /\ \A d \in drives \ Missed : \A s \in WantedFiles(d) : Reply(d, s, TRUE) = "file")
=============================================================================
