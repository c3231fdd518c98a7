------------------------------- MODULE DataStore -------------------------------
(***************************************************************************)
(* The documents of one namespace on one device: calls of DataType         *)
(* (src/src/datatype/index.js) that read and write them, the DataStore     *)
(* that appends to the device's own core and waits for the index           *)
(* (src/src/datastore/index.js), and the batches by which the indexer      *)
(* brings blocks of all cores into the tables (src/src/index-writer).      *)
(*                                                                         *)
(* JavaScript runs between two awaits without interruption, and an action  *)
(* is such a stretch.  The indexer (multi-core-indexer) and the core       *)
(* (hypercore) are libraries: the one hands over any blocks not yet        *)
(* indexed and reports when none are left, the other appends in the order  *)
(* of the calls or fails.  A definition commented as a mutant is part of   *)
(* no specification (see Invites.tla).                                     *)
(***************************************************************************)
EXTENDS Integers, Sequences, FiniteSets, Schemas

CONSTANTS Namespace,    \* that of the store
          Calls,        \* the calls of the API made, each once
          Docs,         \* document ids
          MaxDownloads, \* bound on the blocks of other devices
          MaxFails      \* bound on the appends that fail

ASSUME DataStoreAssumption == /\ Namespace \in DOMAIN NAMESPACE_SCHEMAS
                              /\ MaxDownloads \in Nat /\ MaxFails \in Nat

VARIABLES blocks,         \* the blocks of all cores, in order of arrival
          taken,          \* those the indexer has handed to a batch
          indexed,        \* those in the tables
          call,           \* where each call is
          pendingAppends, \* calls whose deferredAppend is not resolved
          batch,          \* the batch being handled
          pendingEmits,   \* documents to report when the indexer is idle
          idle,           \* the indexer's state
          listening,      \* somebody listens for updated documents
          told,           \* indexed blocks the listener need not be told of
          fails

vars == <<blocks, taken, indexed, call, pendingAppends, batch, pendingEmits,
          idle, listening, told, fails>>

Blocks == 1 .. Len(blocks)
Block == [doc : Docs, links : SUBSET (Nat \ {0}), origin : Nat \ {0},
          deleted : BOOLEAN, readable : BOOLEAN]

\* new, then one of: creating, updating, deleting (which await the indexer);
\* appending, appended, indexing in write(); reading the result; done
Stages == {"new", "creating", "updating", "deleting", "appending", "appended",
           "indexing", "reading", "done", "failed"}
Call == [stage : Stages, doc : Docs, links : SUBSET (Nat \ {0}),
         deleted : BOOLEAN, block : Nat]

NoBatch == [stage |-> "none", entries |-> {}, awaits |-> {}]

TypeOK ==
  /\ blocks \in Seq(Block)
  /\ taken \in SUBSET Blocks /\ indexed \in SUBSET taken
  /\ call \in [Calls -> Call]
  /\ \A c \in Calls : call[c].block \in Blocks \cup {0}
  /\ pendingAppends \in SUBSET Calls
  /\ batch \in [stage : {"none", "indexed", "waiting"},
                entries : SUBSET taken, awaits : SUBSET Calls]
  /\ pendingEmits \in SUBSET Docs
  /\ idle \in BOOLEAN /\ listening \in BOOLEAN
  /\ told \in SUBSET indexed
  /\ fails \in 0 .. MaxFails

Init ==
  /\ blocks = <<>>
  /\ taken = {} /\ indexed = {}
  /\ call \in [Calls -> [stage : {"new"}, doc : Docs, links : {{}},
                         deleted : {FALSE}, block : {0}]]
  /\ pendingAppends = {}
  /\ batch = NoBatch
  /\ pendingEmits = {}
  /\ idle = TRUE
  /\ listening = FALSE
  /\ told = {}
  /\ fails = 0

Stage(c, stage) == call[c].stage = stage

\* The indexed document and its forks: the indexed blocks of d that no
\* indexed block links to.
Heads(d) == {n \in indexed : /\ blocks[n].doc = d
                             /\ \A m \in indexed : n \notin blocks[m].links}

-----------------------------------------------------------------------------
(***************************************************************************)
(* Calls, up to the append.                                                *)
(***************************************************************************)
DataStoreUnchanged == UNCHANGED <<blocks, taken, indexed, batch, pendingEmits,
                                  idle, listening, told, fails>>

\* write(): the deferredAppend is noted, and the append called.
Write(c, links, deleted) ==
  /\ call' = [call EXCEPT ![c].stage = "appending", ![c].links = links,
                          ![c].deleted = deleted]
  /\ pendingAppends' = pendingAppends \cup {c}

Throw(c) == /\ call' = [call EXCEPT ![c].stage = "failed"]
            /\ UNCHANGED pendingAppends

\* kCreateWithDocId with checkExisting, as roles, translations and core
\* ownership use it: the id is given, not random.
Create(c) ==
  /\ Stage(c, "new")
  /\ call' = [call EXCEPT ![c].stage = "creating"]
  /\ UNCHANGED pendingAppends
  /\ DataStoreUnchanged

CheckExisting(c) ==
  /\ Stage(c, "creating") /\ idle
  /\ IF Heads(call[c].doc) = {} THEN Write(c, {}, FALSE) ELSE Throw(c)
  /\ DataStoreUnchanged

\* create(): the id is random, no block and no other call has it.
CreateWithRandomId(c) ==
  /\ Stage(c, "new")
  /\ \A n \in Blocks : blocks[n].doc # call[c].doc
  /\ \A b \in Calls \ {c} : call[b].doc # call[c].doc
  /\ Write(c, {}, FALSE)
  /\ DataStoreUnchanged

\* update() of versions the caller has read, whatever became of them since;
\* the first of them says which document it is.
Update(c, links, first) ==
  /\ Stage(c, "new")
  /\ links \subseteq indexed /\ first \in links
  /\ call' = [call EXCEPT ![c].stage = "updating", ![c].links = links,
                          ![c].doc = blocks[first].doc]
  /\ UNCHANGED pendingAppends
  /\ DataStoreUnchanged

\* Mutant: the links are not validated.
ValidateNoLinks(c) ==
  /\ Stage(c, "updating") /\ idle
  /\ Write(c, call[c].links, FALSE)
  /\ DataStoreUnchanged

ValidateLinks(c) ==
  /\ Stage(c, "updating") /\ idle
  /\ IF /\ \A n \in call[c].links : blocks[n].doc = call[c].doc
        /\ \A m, n \in call[c].links : blocks[m].origin = blocks[n].origin
       THEN Write(c, call[c].links, FALSE)
       ELSE Throw(c)
  /\ DataStoreUnchanged

Delete(c) ==
  /\ Stage(c, "new")
  /\ call' = [call EXCEPT ![c].stage = "deleting"]
  /\ UNCHANGED pendingAppends
  /\ DataStoreUnchanged

\* The winner of the heads, which clocks decide, must not be deleted; the
\* deletion links to all of them.
DeleteExisting(c) ==
  LET heads == Heads(call[c].doc) IN
  /\ Stage(c, "deleting") /\ idle
  /\ \/ heads = {} /\ Throw(c)
     \/ \E winner \in heads : IF blocks[winner].deleted
                                THEN Throw(c)
                                ELSE Write(c, heads, TRUE)
  /\ DataStoreUnchanged

-----------------------------------------------------------------------------
(***************************************************************************)
(* The write.                                                              *)
(***************************************************************************)

\* The core appends: from here on the indexer may come upon the block.
AppendBlock(c) ==
  LET origins == {blocks[n].origin : n \in call[c].links} IN
  /\ Stage(c, "appending")
  /\ \E origin \in IF origins = {} THEN {Len(blocks) + 1} ELSE origins :
       blocks' = Append(blocks, [doc |-> call[c].doc, links |-> call[c].links,
                                 origin |-> origin,
                                 deleted |-> call[c].deleted, readable |-> TRUE])
  /\ call' = [call EXCEPT ![c].stage = "appended", ![c].block = Len(blocks) + 1]
  /\ UNCHANGED <<taken, indexed, pendingAppends, batch, pendingEmits, idle,
                 listening, told, fails>>

\* The append rejects: write() throws where it stands, its deferredAppend
\* neither resolved nor dropped.
AppendRejects(c) ==
  /\ Stage(c, "appending")
  /\ fails < MaxFails
  /\ fails' = fails + 1
  /\ call' = [call EXCEPT ![c].stage = "failed"]
  /\ UNCHANGED <<blocks, taken, indexed, pendingAppends, batch, pendingEmits,
                 idle, listening, told>>

\* Mutant: the write does not wait for the index.
AppendIsEnough(c) ==
  /\ Stage(c, "appended")
  /\ pendingAppends' = pendingAppends \ {c}
  /\ batch' = [batch EXCEPT !.awaits = @ \ {c}]
  /\ call' = [call EXCEPT ![c].stage = "reading"]
  /\ UNCHANGED <<blocks, taken, indexed, pendingEmits, idle, listening, told,
                 fails>>

\* The append resolves, and so does the deferredAppend; the write awaits the
\* entry of its version in pendingIndex.
Appended(c) ==
  /\ Stage(c, "appended")
  /\ pendingAppends' = pendingAppends \ {c}
  /\ batch' = [batch EXCEPT !.awaits = @ \ {c}]
  /\ call' = [call EXCEPT ![c].stage = "indexing"]
  /\ UNCHANGED <<blocks, taken, indexed, pendingEmits, idle, listening, told,
                 fails>>

\* getByDocId() of what was written.
Return(c) ==
  /\ Stage(c, "reading") /\ idle
  /\ call' = [call EXCEPT ![c].stage = "done"]
  /\ UNCHANGED pendingAppends
  /\ DataStoreUnchanged

-----------------------------------------------------------------------------
(***************************************************************************)
(* The indexer.                                                            *)
(***************************************************************************)
\* The batch brings its entries into the tables; those it cannot decode, or
\* that are of another schema, it ignores.
Batch(entries) ==
  /\ batch.stage = "none"
  /\ entries # {} /\ entries \subseteq Blocks \ taken
  /\ taken' = taken \cup entries
  /\ indexed' = indexed \cup {n \in entries : blocks[n].readable}
  /\ batch' = [stage |-> "indexed", entries |-> entries, awaits |-> {}]
  /\ idle' = FALSE
  /\ UNCHANGED <<blocks, call, pendingAppends, pendingEmits, listening, told,
                 fails>>

\* Mutant: the batch function awaits nothing.
AwaitNoAppends ==
  /\ batch.stage = "indexed"
  /\ batch' = [batch EXCEPT !.stage = "waiting"]
  /\ UNCHANGED <<blocks, taken, indexed, call, pendingAppends, pendingEmits,
                 idle, listening, told, fails>>

\* Promise.all() of the appends that are pending now.
AwaitPendingAppends ==
  /\ batch.stage = "indexed"
  /\ batch' = [batch EXCEPT !.stage = "waiting", !.awaits = pendingAppends]
  /\ UNCHANGED <<blocks, taken, indexed, call, pendingAppends, pendingEmits,
                 idle, listening, told, fails>>

ResolvePendingIndex ==
  call' = [c \in Calls |->
             IF Stage(c, "indexing") /\ call[c].block \in batch.entries
               THEN [call[c] EXCEPT !.stage = "reading"]
               ELSE call[c]]

IndexedDocIds == {blocks[n].doc : n \in {m \in batch.entries : blocks[m].readable}}

\* Mutant: the documents of the batch replace those of the one before.
HandleLastEntries ==
  /\ batch.stage = "waiting" /\ batch.awaits = {}
  /\ ResolvePendingIndex
  /\ pendingEmits' = IndexedDocIds
  /\ batch' = NoBatch
  /\ UNCHANGED <<blocks, taken, indexed, pendingAppends, idle, listening, told,
                 fails>>

HandleEntries ==
  /\ batch.stage = "waiting" /\ batch.awaits = {}
  /\ ResolvePendingIndex
  /\ pendingEmits' = pendingEmits \cup IndexedDocIds
  /\ batch' = NoBatch
  /\ UNCHANGED <<blocks, taken, indexed, pendingAppends, idle, listening, told,
                 fails>>

\* What a listener has been told of when it is told of docIds: they are read
\* from the tables, so it learns of all there is of each.
HandleDataStoreUpdate(docIds) ==
  IF listening THEN told \cup {n \in indexed : blocks[n].doc \in docIds} ELSE told

HandleIndexerIdle ==
  /\ ~idle /\ batch.stage = "none" /\ Blocks \subseteq taken
  /\ idle' = TRUE
  /\ told' = HandleDataStoreUpdate(pendingEmits)
  /\ pendingEmits' = {}
  /\ UNCHANGED <<blocks, taken, indexed, call, pendingAppends, batch, listening,
                 fails>>

-----------------------------------------------------------------------------
\* A listener comes, having read what there is, or goes.
NewListener == /\ ~listening
               /\ listening' = TRUE
               /\ told' = indexed
               /\ UNCHANGED <<blocks, taken, indexed, call, pendingAppends,
                              batch, pendingEmits, idle, fails>>

RemoveListener == /\ listening
                  /\ listening' = FALSE
                  /\ UNCHANGED <<blocks, taken, indexed, call, pendingAppends,
                                 batch, pendingEmits, idle, told, fails>>

\* Whether the project's index takes a block (see Schemas).  The settings of
\* the project, of which no listener hears, are not among these documents.
Readable == {IndexedIn(Namespace, "project", {e}) # {} :
               e \in {f \in Entries(Namespace) : f.schemaName # "projectSettings"}}

\* A block of another device arrives: a new document, a version that links
\* to one known here, or what cannot be read.
Download(d, links, readable) ==
  /\ Cardinality({n \in Blocks : \A c \in Calls : call[c].block # n}) < MaxDownloads
  /\ readable \/ links = {}
  /\ \A n \in links : blocks[n].doc = d
  /\ \E origin \in IF links = {} THEN {Len(blocks) + 1}
                                 ELSE {blocks[n].origin : n \in links},
        deleted \in {FALSE, links # {}} :
       blocks' = Append(blocks, [doc |-> d, links |-> links, origin |-> origin,
                                 deleted |-> deleted, readable |-> readable])
  /\ UNCHANGED <<taken, indexed, call, pendingAppends, batch, pendingEmits, idle,
                 listening, told, fails>>

Proceed(c) == \/ CheckExisting(c)
              \/ ValidateLinks(c)
              \/ DeleteExisting(c)
              \/ AppendBlock(c)
              \/ Appended(c)
              \/ Return(c)

Indexer == \/ \E entries \in SUBSET (Blocks \ taken) : Batch(entries)
           \/ AwaitPendingAppends
           \/ HandleEntries
           \/ HandleIndexerIdle

Next == \/ \E c \in Calls : \/ Create(c)
                            \/ CreateWithRandomId(c)
                            \/ \E links \in SUBSET indexed : \E first \in links :
                                 Update(c, links, first)
                            \/ Delete(c)
                            \/ AppendRejects(c)
                            \/ Proceed(c)
        \/ Indexer
        \/ NewListener
        \/ RemoveListener
        \/ \E d \in Docs, links \in SUBSET Blocks, readable \in Readable :
             Download(d, links, readable)

Spec == Init /\ [][Next]_vars

\* The library's loop goes on while there are blocks, and so does a call
\* once what it awaits has happened; nobody has to call or listen.
FairSpec == /\ Spec
            /\ \A c \in Calls : WF_vars(Proceed(c))
            /\ WF_vars(Indexer)

-----------------------------------------------------------------------------
(***************************************************************************)
(* Properties.                                                             *)
(***************************************************************************)
\* "Writes to the writerCore need to wait until the entry is indexed before
\* returning": a caller reads what it wrote, also when a batch overtakes the
\* append or comes late.
ReturnedIsIndexed ==
  \A c \in Calls : call[c].stage \in {"reading", "done"} => call[c].block \in indexed

\* An idle indexer owes a listener nothing: every block indexed since it came
\* was reported with its document, over however many batches.
UpdatesAreTold == listening /\ idle => indexed \subseteq told

\* What is written under a document's id descends from that document alone.
LinksStayInDocument ==
  \A n \in Blocks : \A m \in blocks[n].links :
    m < n /\ blocks[m].doc = blocks[n].doc

\* The inductive invariant of the proofs (DataStoreProofs), by parts.
\* What a call links to was validated before its write began, and its block
\* is one the index can read.
CallInv ==
  \A c \in Calls :
    /\ call[c].links \subseteq Blocks
    /\ Stage(c, "appending") => \A n \in call[c].links : blocks[n].doc = call[c].doc
    /\ call[c].block # 0 => blocks[call[c].block].readable

\* The tables hold what the batches were given.
IndexInv == /\ \A n \in taken : blocks[n].readable => n \in indexed
            /\ batch.stage = "none" => batch.entries = {}

\* What the listener has yet to be told of is noted or in the batch.
EmitInv == /\ idle => batch.stage = "none" /\ pendingEmits = {}
           /\ listening => \A n \in indexed \ told :
                            \/ blocks[n].doc \in pendingEmits
                            \/ \E m \in batch.entries : /\ blocks[m].readable
                                                        /\ blocks[m].doc = blocks[n].doc

DataStoreInv == CallInv /\ IndexInv /\ EmitInv /\ ReturnedIsIndexed /\ LinksStayInDocument

\* No call waits forever, unless an append failed, after which the batches wait
\* for its deferredAppend.
CallsReturn ==
  \A c \in Calls : call[c].stage # "new" ~> \/ call[c].stage \in {"done", "failed"}
                                            \/ fails > 0

=============================================================================
