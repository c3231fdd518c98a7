--------------------------- MODULE DataStoreProofs ---------------------------
(***************************************************************************)
(* Proofs about DataStore, for any calls, documents and bounds.            *)
(***************************************************************************)
EXTENDS DataStore, TLAPS

USE DataStoreAssumption

IInv == TypeOK /\ DataStoreInv

\* The invariant but for its types, by parts.
LEMMA Parts ==
  IInv <=> /\ TypeOK /\ CallInv /\ IndexInv /\ EmitInv
           /\ ReturnedIsIndexed /\ LinksStayInDocument
BY DEF IInv, DataStoreInv

-----------------------------------------------------------------------------
(***************************************************************************)
(* Steps that change calls only.                                           *)
(***************************************************************************)
\* A call is replaced by one that has validated what it links to and does
\* not claim to have been indexed.
LEMMA CallReplaced ==
  ASSUME IInv, NEW c \in Calls, NEW new \in Call,
         call' = [call EXCEPT ![c] = new],
         pendingAppends' \in SUBSET Calls,
         UNCHANGED <<blocks, taken, indexed, batch, pendingEmits, idle,
                     listening, told>>,
         fails' \in 0 .. MaxFails,
         new.block = call[c].block,
         new.links \subseteq Blocks,
         new.stage = "appending" => \A n \in new.links : blocks[n].doc = new.doc,
         new.stage \in {"reading", "done"} => call[c].block \in indexed
  PROVE  IInv'
<1>1. \A b \in Calls : call'[b] = IF b = c THEN new ELSE call[b]
  BY DEF IInv, TypeOK
<1>2. TypeOK'
  <2>1. call' \in [Calls -> Call]
    BY DEF IInv, TypeOK
  <2>2. \A b \in Calls : call'[b].block \in Blocks' \cup {0}
    BY <1>1 DEF IInv, TypeOK, Blocks
  <2> QED
    BY <2>1, <2>2 DEF IInv, TypeOK, Blocks
<1>3. CallInv'
  BY <1>1 DEF IInv, DataStoreInv, CallInv, Stage, Blocks
<1>4. IndexInv' /\ EmitInv' /\ LinksStayInDocument'
  BY DEF IInv, DataStoreInv, IndexInv, EmitInv, LinksStayInDocument, Blocks
<1>5. ReturnedIsIndexed'
  BY <1>1 DEF IInv, DataStoreInv, ReturnedIsIndexed
<1> QED
  BY <1>2, <1>3, <1>4, <1>5 DEF IInv, DataStoreInv

\* What a call is, and its parts.
LEMMA CallType ==
  ASSUME IInv, NEW c \in Calls
  PROVE  /\ call[c] \in Call
         /\ call[c].links \subseteq Blocks /\ Blocks \subseteq Nat \ {0}
         /\ call[c].doc \in Docs
         /\ Stage(c, "appending") => \A n \in call[c].links : blocks[n].doc = call[c].doc
<1>1. call[c] \in Call
  BY DEF IInv, TypeOK
<1>2. Blocks \subseteq Nat \ {0}
  BY DEF Blocks
<1> QED
  BY <1>1, <1>2 DEF IInv, DataStoreInv, CallInv, Call

\* The parts of an indexed block.
LEMMA BlockType ==
  ASSUME IInv, NEW n \in Blocks
  PROVE  /\ blocks[n] \in Block /\ blocks[n].doc \in Docs
         /\ blocks[n].origin \in Nat \ {0}
<1>1. blocks[n] \in Block
  BY DEF IInv, TypeOK, Blocks
<1> QED
  BY <1>1 DEF Block

\* A call that begins to write.
LEMMA WriteKeeps ==
  ASSUME IInv, NEW c \in Calls, NEW links, NEW deleted \in BOOLEAN,
         Write(c, links, deleted), DataStoreUnchanged,
         links \subseteq Blocks, \A n \in links : blocks[n].doc = call[c].doc
  PROVE  IInv'
<1> DEFINE new == [call[c] EXCEPT !.stage = "appending", !.links = links,
                                  !.deleted = deleted]
<1>1. call' = [call EXCEPT ![c] = new] /\ pendingAppends' \in SUBSET Calls
  BY DEF Write, IInv, TypeOK
<1>2. /\ new \in Call /\ new.stage = "appending" /\ new.links = links
      /\ new.doc = call[c].doc /\ new.block = call[c].block
  BY CallType DEF Call, Stages
<1>3. fails' \in 0 .. MaxFails
  BY DEF DataStoreUnchanged, IInv, TypeOK
<1> HIDE DEF new
<1> QED
  BY <1>1, <1>2, <1>3, CallReplaced DEF DataStoreUnchanged

\* A call that gets to a stage where it claims and links to nothing new.
LEMMA StageKeeps ==
  ASSUME IInv, NEW c \in Calls,
         NEW stage \in {"creating", "deleting", "failed", "done"},
         stage = "done" => Stage(c, "reading"),
         call' = [call EXCEPT ![c].stage = stage],
         UNCHANGED pendingAppends, fails' \in 0 .. MaxFails,
         UNCHANGED <<blocks, taken, indexed, batch, pendingEmits, idle,
                     listening, told>>
  PROVE  IInv'
<1> DEFINE new == [call[c] EXCEPT !.stage = stage]
<1>1. call' = [call EXCEPT ![c] = new] /\ pendingAppends' \in SUBSET Calls
  BY DEF IInv, TypeOK
<1>2. /\ new \in Call /\ new.stage = stage /\ new.links = call[c].links
      /\ new.doc = call[c].doc /\ new.block = call[c].block
  BY CallType DEF Call, Stages
<1>3. stage = "done" => call[c].block \in indexed
  BY DEF IInv, DataStoreInv, ReturnedIsIndexed, Stage
<1>4. call[c].links \subseteq Blocks
  BY CallType
<1> HIDE DEF new
<1> QED
  BY <1>1, <1>2, <1>3, <1>4, CallReplaced

\* The steps of a call that write no block keep the invariant.
LEMMA CallSteps ==
  ASSUME IInv, NEW c \in Calls,
         \/ Create(c) \/ CheckExisting(c) \/ CreateWithRandomId(c)
         \/ \E links \in SUBSET indexed : \E first \in links : Update(c, links, first)
         \/ ValidateLinks(c) \/ Delete(c) \/ DeleteExisting(c)
         \/ AppendRejects(c) \/ Return(c)
  PROVE  IInv'
<1>0. fails \in 0 .. MaxFails /\ indexed \subseteq Blocks
  BY DEF IInv, TypeOK
<1>1. ASSUME Throw(c), DataStoreUnchanged PROVE IInv'
  <2>1. call' = [call EXCEPT ![c].stage = "failed"] /\ UNCHANGED pendingAppends
    BY <1>1 DEF Throw
  <2>2. UNCHANGED <<blocks, taken, indexed, batch, pendingEmits, idle,
                    listening, told>> /\ fails' \in 0 .. MaxFails
    BY <1>0, <1>1 DEF DataStoreUnchanged
  <2> QED
    BY <2>1, <2>2, StageKeeps
<1>2. CASE Create(c)
  BY <1>0, <1>2, StageKeeps DEF Create, DataStoreUnchanged
<1>3. CASE CheckExisting(c)
  BY <1>1, <1>3, WriteKeeps DEF CheckExisting
<1>4. CASE CreateWithRandomId(c)
  <2>1. Write(c, {}, FALSE) /\ DataStoreUnchanged
    BY <1>4 DEF CreateWithRandomId
  <2>2. PICK links \in {{}} : Write(c, links, FALSE)
    BY <2>1
  <2>3. links \subseteq Blocks /\ \A n \in links : blocks[n].doc = call[c].doc
    OBVIOUS
  <2> QED
    BY <2>1, <2>2, <2>3, WriteKeeps
<1>5. CASE \E links \in SUBSET indexed : \E first \in links : Update(c, links, first)
  <2>1. PICK links \in SUBSET indexed : \E first \in links : Update(c, links, first)
    BY <1>5
  <2>2. PICK first \in links : Update(c, links, first)
    BY <2>1
  <2> DEFINE new == [call[c] EXCEPT !.stage = "updating", !.links = links,
                                    !.doc = blocks[first].doc]
  <2>3. /\ call' = [call EXCEPT ![c] = new] /\ pendingAppends' \in SUBSET Calls
        /\ DataStoreUnchanged
    BY <2>2 DEF Update, IInv, TypeOK
  <2>4. first \in Blocks /\ links \subseteq Blocks /\ links \in SUBSET (Nat \ {0})
    BY <1>0, CallType
  <2>5. blocks[first].doc \in Docs
    BY <2>4, BlockType
  <2>6. /\ new \in Call /\ new.stage = "updating" /\ new.links = links
        /\ new.block = call[c].block
    BY <2>4, <2>5, CallType DEF Call, Stages
  <2> HIDE DEF new
  <2> QED
    BY <1>0, <2>3, <2>4, <2>6, CallReplaced DEF DataStoreUnchanged
<1>6. CASE ValidateLinks(c)
  <2>1. call[c].links \subseteq Blocks
    BY CallType
  <2> QED
    BY <1>1, <1>6, <2>1, WriteKeeps DEF ValidateLinks
<1>7. CASE Delete(c)
  BY <1>0, <1>7, StageKeeps DEF Delete, DataStoreUnchanged
<1>8. CASE DeleteExisting(c)
  <2>1. /\ Heads(call[c].doc) \subseteq Blocks
        /\ \A n \in Heads(call[c].doc) : blocks[n].doc = call[c].doc
    BY <1>0 DEF Heads
  <2> QED
    BY <1>1, <1>8, <2>1, WriteKeeps DEF DeleteExisting
<1>9. CASE AppendRejects(c)
  <2>1. fails' \in 0 .. MaxFails
    BY <1>0, <1>9 DEF AppendRejects
  <2> QED
    BY <1>9, <2>1, StageKeeps DEF AppendRejects
<1>10. CASE Return(c)
  BY <1>0, <1>10, StageKeeps DEF Return, DataStoreUnchanged
<1> QED
  BY <1>2, <1>3, <1>4, <1>5, <1>6, <1>7, <1>8, <1>9, <1>10

-----------------------------------------------------------------------------
(***************************************************************************)
(* Steps that bring a block.                                               *)
(***************************************************************************)
\* A block comes that links to known blocks of its document, and no more
\* than its writer's call changes.
LEMMA BlockComes ==
  ASSUME IInv, NEW new \in Block, blocks' = Append(blocks, new),
         new.links \subseteq Blocks,
         \A n \in new.links : blocks[n].doc = new.doc,
         UNCHANGED <<taken, indexed, pendingAppends, batch, pendingEmits, idle,
                     listening, told, fails>>,
         call' \in [Calls -> Call],
         \A c \in Calls :
           \/ call'[c] = call[c]
           \/ /\ call'[c].links = call[c].links /\ call'[c].stage = "appended"
              /\ call'[c].block = Len(blocks) + 1 /\ new.readable
  PROVE  IInv'
<1>1. /\ Len(blocks') = Len(blocks) + 1 /\ Len(blocks) \in Nat
      /\ blocks' \in Seq(Block)
      /\ blocks'[Len(blocks) + 1] = new
      /\ \A n \in Blocks : blocks'[n] = blocks[n]
  BY DEF IInv, TypeOK, Blocks
<1>2. Blocks' = Blocks \cup {Len(blocks) + 1} /\ \A n \in Blocks : n < Len(blocks) + 1
  BY <1>1 DEF Blocks
<1>3. taken \subseteq Blocks /\ indexed \subseteq Blocks /\ batch.entries \subseteq Blocks
  BY DEF IInv, TypeOK
<1>4. TypeOK'
  <2>1. \A c \in Calls : call'[c].block \in Blocks' \cup {0}
    BY <1>2 DEF IInv, TypeOK
  <2> QED
    BY <1>1, <1>2, <2>1 DEF IInv, TypeOK
<1>5. CallInv'
  <2> SUFFICES ASSUME NEW c \in Calls
               PROVE  /\ call'[c].links \subseteq Blocks'
                      /\ call'[c].stage = "appending" =>
                           \A n \in call'[c].links : blocks'[n].doc = call'[c].doc
                      /\ call'[c].block # 0 => blocks'[call'[c].block].readable
    BY DEF CallInv, Stage
  <2>1. call[c].links \subseteq Blocks /\ call[c].block \in Blocks \cup {0}
    BY CallType DEF IInv, TypeOK
  <2>2. CASE call'[c] = call[c]
    <3>1. /\ call[c].stage = "appending" =>
               \A n \in call[c].links : blocks[n].doc = call[c].doc
          /\ call[c].block # 0 => blocks[call[c].block].readable
      BY DEF IInv, DataStoreInv, CallInv, Stage
    <3>2. call[c].links \subseteq Blocks'
      BY <1>2, <2>1
    <3>3. \A n \in call[c].links : blocks'[n] = blocks[n]
      BY <1>1, <2>1
    <3>4. call[c].block # 0 => blocks'[call[c].block] = blocks[call[c].block]
      BY <1>1, <2>1
    <3> QED
      BY <2>2, <3>1, <3>2, <3>3, <3>4
  <2>3. CASE call'[c] # call[c]
    BY <1>1, <1>2, <2>1, <2>3
  <2> QED
    BY <2>2, <2>3
<1>6. IndexInv'
  BY <1>1, <1>3 DEF IInv, DataStoreInv, IndexInv
<1>7. EmitInv'
  <2>1. \A n \in indexed \cup batch.entries : blocks'[n] = blocks[n]
    BY <1>1, <1>3
  <2>2. idle' => batch'.stage = "none" /\ pendingEmits' = {}
    BY DEF IInv, DataStoreInv, EmitInv
  <2>3. ASSUME listening', NEW n \in indexed' \ told'
        PROVE  \/ blocks'[n].doc \in pendingEmits'
               \/ \E m \in batch'.entries : /\ blocks'[m].readable
                                            /\ blocks'[m].doc = blocks'[n].doc
    <3>1. \/ blocks[n].doc \in pendingEmits
          \/ \E m \in batch.entries : blocks[m].readable /\ blocks[m].doc = blocks[n].doc
      BY <2>3 DEF IInv, DataStoreInv, EmitInv
    <3> QED
      BY <2>1, <2>3, <3>1
  <2> QED
    BY <2>2, <2>3 DEF EmitInv
<1>8. ReturnedIsIndexed'
  BY DEF IInv, DataStoreInv, ReturnedIsIndexed
<1>9. LinksStayInDocument'
  <2> SUFFICES ASSUME NEW n \in Blocks', NEW m \in blocks'[n].links
               PROVE  m < n /\ blocks'[m].doc = blocks'[n].doc
    BY DEF LinksStayInDocument
  <2>1. CASE n \in Blocks
    <3>1. m < n /\ blocks[m].doc = blocks[n].doc
      BY <1>1, <2>1 DEF IInv, DataStoreInv, LinksStayInDocument
    <3>2. m \in Nat \ {0}
      BY <1>1, <2>1, BlockType DEF Block
    <3>3. m \in Blocks
      BY <2>1, <3>1, <3>2 DEF Blocks
    <3> QED
      BY <1>1, <2>1, <3>1, <3>3
  <2>2. CASE n = Len(blocks) + 1
    BY <1>1, <1>2, <2>2
  <2> QED
    BY <1>2, <2>1, <2>2
<1> QED
  BY <1>4, <1>5, <1>6, <1>7, <1>8, <1>9 DEF IInv, DataStoreInv

\* The append of a call's block keeps the invariant.
LEMMA AppendSteps ==
  ASSUME IInv, NEW c \in Calls, AppendBlock(c)
  PROVE  IInv'
<1> DEFINE origins == {blocks[n].origin : n \in call[c].links}
<1>1. PICK origin \in IF origins = {} THEN {Len(blocks) + 1} ELSE origins :
        blocks' = Append(blocks, [doc |-> call[c].doc, links |-> call[c].links,
                                  origin |-> origin,
                                  deleted |-> call[c].deleted, readable |-> TRUE])
  BY DEF AppendBlock
<1> DEFINE new == [doc |-> call[c].doc, links |-> call[c].links,
                   origin |-> origin, deleted |-> call[c].deleted, readable |-> TRUE]
<1>2. origin \in Nat \ {0}
  <2>1. Len(blocks) + 1 \in Nat \ {0}
    BY DEF IInv, TypeOK
  <2>2. origins \subseteq Nat \ {0}
    BY CallType, BlockType
  <2> QED
    BY <2>1, <2>2
<1>3. new \in Block
  BY <1>2, CallType DEF Call, Block
<1>4. /\ Stage(c, "appending")
      /\ call' = [call EXCEPT ![c].stage = "appended", ![c].block = Len(blocks) + 1]
      /\ UNCHANGED <<taken, indexed, pendingAppends, batch, pendingEmits, idle,
                     listening, told, fails>>
  BY DEF AppendBlock
<1>5. \A n \in new.links : blocks[n].doc = new.doc
  BY <1>4, CallType
<1>6. Len(blocks) + 1 \in Nat
  BY DEF IInv, TypeOK
<1> DEFINE newCall == [call[c] EXCEPT !.stage = "appended", !.block = Len(blocks) + 1]
<1>11. newCall \in Call /\ newCall.links = call[c].links
       /\ newCall.stage = "appended" /\ newCall.block = Len(blocks) + 1
  BY <1>6, CallType DEF Call, Stages
<1>12. call' = [call EXCEPT ![c] = newCall]
  BY <1>4
<1> HIDE DEF newCall
<1>7. call' \in [Calls -> Call]
  BY <1>11, <1>12 DEF IInv, TypeOK
<1>8. \A b \in Calls : \/ call'[b] = call[b]
                       \/ /\ call'[b].links = call[b].links
                          /\ call'[b].stage = "appended"
                          /\ call'[b].block = Len(blocks) + 1
  BY <1>11, <1>12 DEF IInv, TypeOK
<1>9. new.links = call[c].links /\ new.links \subseteq Blocks /\ new.readable
  BY CallType
<1>10. blocks' = Append(blocks, new)
  BY <1>1
<1> HIDE DEF new
<1> QED
  BY <1>3, <1>4, <1>5, <1>7, <1>8, <1>9, <1>10, BlockComes

\* So does the arrival of a block of another device.
LEMMA DownloadSteps ==
  ASSUME IInv, NEW d \in Docs, NEW links \in SUBSET Blocks,
         NEW readable \in BOOLEAN, Download(d, links, readable)
  PROVE  IInv'
<1>1. PICK origin \in IF links = {} THEN {Len(blocks) + 1}
                                    ELSE {blocks[n].origin : n \in links},
           deleted \in {FALSE, links # {}} :
        blocks' = Append(blocks, [doc |-> d, links |-> links, origin |-> origin,
                                  deleted |-> deleted, readable |-> readable])
  BY DEF Download
<1> DEFINE new == [doc |-> d, links |-> links, origin |-> origin,
                   deleted |-> deleted, readable |-> readable]
<1>2. origin \in Nat \ {0}
  <2>1. Len(blocks) + 1 \in Nat \ {0}
    BY DEF IInv, TypeOK
  <2>2. {blocks[n].origin : n \in links} \subseteq Nat \ {0}
    BY BlockType
  <2> QED
    BY <2>1, <2>2
<1>3. new \in Block /\ new.links = links /\ new.doc = d
  <2>1. links \in SUBSET (Nat \ {0})
    BY DEF Blocks
  <2>2. deleted \in BOOLEAN
    OBVIOUS
  <2> QED
    BY <1>2, <2>1, <2>2 DEF Block
<1>4. /\ \A n \in links : blocks[n].doc = d
      /\ UNCHANGED <<taken, indexed, call, pendingAppends, batch, pendingEmits,
                     idle, listening, told, fails>>
  BY DEF Download
<1>5. call' \in [Calls -> Call]
  BY <1>4 DEF IInv, TypeOK
<1>6. blocks' = Append(blocks, new)
  BY <1>1
<1> HIDE DEF new
<1> QED
  BY <1>3, <1>4, <1>5, <1>6, BlockComes

-----------------------------------------------------------------------------
(***************************************************************************)
(* The write goes on, the indexer's steps, and the listener's.             *)
(***************************************************************************)
\* The call that goes on to await the index claims nothing yet.
LEMMA AppendedSteps ==
  ASSUME IInv, NEW c \in Calls, Appended(c)
  PROVE  IInv'
<1> DEFINE new == [call[c] EXCEPT !.stage = "indexing"]
<1>1. /\ call' = [call EXCEPT ![c] = new]
      /\ batch' = [batch EXCEPT !.awaits = @ \ {c}]
      /\ pendingAppends' = pendingAppends \ {c}
      /\ UNCHANGED <<blocks, taken, indexed, pendingEmits, idle, listening, told,
                     fails>>
  BY DEF Appended
<1>2. /\ new \in Call /\ new.stage = "indexing" /\ new.links = call[c].links
      /\ new.doc = call[c].doc /\ new.block = call[c].block
  BY CallType DEF Call, Stages
<1> HIDE DEF new
<1>3. \A b \in Calls : call'[b] = IF b = c THEN new ELSE call[b]
  BY <1>1 DEF IInv, TypeOK
<1>4. /\ batch'.stage = batch.stage /\ batch'.entries = batch.entries
      /\ batch' \in [stage : {"none", "indexed", "waiting"},
                     entries : SUBSET taken, awaits : SUBSET Calls]
  BY <1>1 DEF IInv, TypeOK
<1>5. TypeOK'
  <2>1. call' \in [Calls -> Call] /\ pendingAppends' \in SUBSET Calls
    BY <1>1, <1>2 DEF IInv, TypeOK
  <2>2. \A b \in Calls : call'[b].block \in Blocks' \cup {0}
    BY <1>1, <1>2, <1>3 DEF IInv, TypeOK, Blocks
  <2> QED
    BY <1>1, <1>4, <2>1, <2>2 DEF IInv, TypeOK, Blocks
<1>6. CallInv'
  BY <1>1, <1>2, <1>3 DEF IInv, DataStoreInv, CallInv, Stage, Blocks
<1>7. IndexInv' /\ EmitInv' /\ LinksStayInDocument'
  BY <1>1, <1>4 DEF IInv, DataStoreInv, IndexInv, EmitInv, LinksStayInDocument, Blocks
<1>8. ReturnedIsIndexed'
  BY <1>1, <1>2, <1>3 DEF IInv, DataStoreInv, ReturnedIsIndexed
<1> QED
  BY <1>5, <1>6, <1>7, <1>8 DEF IInv, DataStoreInv

\* A batch puts into the tables all it is given that can be read.
LEMMA BatchSteps ==
  ASSUME IInv, NEW entries \in SUBSET (Blocks \ taken), Batch(entries)
  PROVE  IInv'
<1> DEFINE readable == {n \in entries : blocks[n].readable}
<1>1. /\ batch.stage = "none"
      /\ taken' = taken \cup entries
      /\ indexed' = indexed \cup readable
      /\ batch' = [stage |-> "indexed", entries |-> entries, awaits |-> {}]
      /\ idle' = FALSE
      /\ UNCHANGED <<blocks, call, pendingAppends, pendingEmits, listening, told,
                     fails>>
  BY DEF Batch
<1>2. TypeOK'
  BY <1>1 DEF IInv, TypeOK, Blocks
<1>3. CallInv' /\ LinksStayInDocument' /\ ReturnedIsIndexed'
  BY <1>1 DEF IInv, DataStoreInv, CallInv, LinksStayInDocument, ReturnedIsIndexed,
              Blocks, Stage
<1>4. IndexInv'
  BY <1>1 DEF IInv, DataStoreInv, IndexInv
<1>5. EmitInv'
  <2>1. ASSUME listening', NEW n \in indexed' \ told'
        PROVE  \/ blocks'[n].doc \in pendingEmits'
               \/ \E m \in batch'.entries : /\ blocks'[m].readable
                                            /\ blocks'[m].doc = blocks'[n].doc
    <3>1. CASE n \in indexed
      <4>1. batch.entries = {}
        BY <1>1 DEF IInv, DataStoreInv, IndexInv
      <4>2. \/ blocks[n].doc \in pendingEmits
            \/ \E m \in batch.entries : blocks[m].doc = blocks[n].doc
        BY <1>1, <2>1, <3>1 DEF IInv, DataStoreInv, EmitInv
      <4> QED
        BY <1>1, <4>1, <4>2
    <3>2. CASE n \notin indexed
      <4>1. n \in readable
        BY <1>1, <2>1, <3>2
      <4> QED
        BY <1>1, <4>1
    <3> QED
      BY <3>1, <3>2
  <2> QED
    BY <1>1, <2>1 DEF EmitInv
<1> QED
  BY <1>2, <1>3, <1>4, <1>5 DEF IInv, DataStoreInv

\* What a batch awaits is beside the invariant.
LEMMA AwaitSteps ==
  ASSUME IInv, AwaitPendingAppends
  PROVE  IInv'
<1>1. /\ batch' = [batch EXCEPT !.stage = "waiting", !.awaits = pendingAppends]
      /\ batch.stage = "indexed"
      /\ UNCHANGED <<blocks, taken, indexed, call, pendingAppends, pendingEmits,
                     idle, listening, told, fails>>
  BY DEF AwaitPendingAppends
<1>2. /\ batch'.stage = "waiting" /\ batch'.entries = batch.entries
      /\ batch' \in [stage : {"none", "indexed", "waiting"},
                     entries : SUBSET taken, awaits : SUBSET Calls]
  BY <1>1 DEF IInv, TypeOK
<1>3. TypeOK'
  BY <1>1, <1>2 DEF IInv, TypeOK, Blocks
<1>4. CallInv' /\ LinksStayInDocument' /\ ReturnedIsIndexed'
  BY <1>1 DEF IInv, DataStoreInv, CallInv, LinksStayInDocument, ReturnedIsIndexed,
              Blocks, Stage
<1>5. IndexInv' /\ EmitInv'
  BY <1>1, <1>2 DEF IInv, DataStoreInv, IndexInv, EmitInv
<1> QED
  BY <1>3, <1>4, <1>5 DEF IInv, DataStoreInv

\* The calls a batch resolves have their blocks among its entries.
LEMMA HandleSteps ==
  ASSUME IInv, HandleEntries
  PROVE  IInv'
<1>1. /\ ResolvePendingIndex
      /\ pendingEmits' = pendingEmits \cup IndexedDocIds
      /\ batch' = NoBatch
      /\ batch.stage = "waiting"
      /\ UNCHANGED <<blocks, taken, indexed, pendingAppends, idle, listening, told,
                     fails>>
  BY DEF HandleEntries
<1>2. batch.entries \subseteq taken /\ taken \subseteq Blocks
  BY DEF IInv, TypeOK
<1>3. \A c \in Calls :
        \/ call'[c] = call[c]
        \/ /\ call'[c] \in Call /\ call'[c].stage = "reading"
           /\ call'[c].links = call[c].links /\ call'[c].block = call[c].block
           /\ call[c].block \in batch.entries
  <2> SUFFICES ASSUME NEW c \in Calls
               PROVE  \/ call'[c] = call[c]
                      \/ /\ call'[c] \in Call /\ call'[c].stage = "reading"
                         /\ call'[c].links = call[c].links /\ call'[c].block = call[c].block
                         /\ call[c].block \in batch.entries
    OBVIOUS
  <2>1. call'[c] = IF Stage(c, "indexing") /\ call[c].block \in batch.entries
                     THEN [call[c] EXCEPT !.stage = "reading"]
                     ELSE call[c]
    BY <1>1 DEF ResolvePendingIndex
  <2> QED
    BY <2>1, CallType DEF Call, Stages
<1>4. \A c \in Calls : call[c] \in Call
  BY CallType
<1>5. TypeOK'
  <2>1. call' \in [Calls -> Call]
    <3>1. \A c \in Calls : call'[c] \in Call
      <4> SUFFICES ASSUME NEW c \in Calls PROVE call'[c] \in Call
        OBVIOUS
      <4> QED
        BY <1>3, <1>4
    <3>2. call' = [c \in Calls |-> call'[c]]
      BY <1>1 DEF ResolvePendingIndex
    <3> QED
      BY <3>1, <3>2
  <2>2. \A c \in Calls : call'[c].block \in Blocks' \cup {0}
    BY <1>1, <1>3 DEF IInv, TypeOK, Blocks
  <2>3. IndexedDocIds \subseteq Docs
    BY <1>2, BlockType DEF IndexedDocIds
  <2> QED
    BY <1>1, <2>1, <2>2, <2>3 DEF IInv, TypeOK, Blocks, NoBatch
<1>6. CallInv'
  <2> SUFFICES ASSUME NEW c \in Calls
               PROVE  /\ call'[c].links \subseteq Blocks
                      /\ call'[c].stage = "appending" =>
                           \A n \in call'[c].links : blocks[n].doc = call'[c].doc
                      /\ call'[c].block # 0 => blocks[call'[c].block].readable
    BY <1>1 DEF CallInv, Stage, Blocks
  <2> QED
    BY <1>3 DEF IInv, DataStoreInv, CallInv, Stage
<1>7. IndexInv' /\ LinksStayInDocument'
  BY <1>1 DEF IInv, DataStoreInv, IndexInv, LinksStayInDocument, Blocks, NoBatch
<1>8. ReturnedIsIndexed'
  <2> SUFFICES ASSUME NEW c \in Calls, call'[c].stage \in {"reading", "done"}
               PROVE  call'[c].block \in indexed
    BY <1>1 DEF ReturnedIsIndexed
  <2>1. CASE call'[c] = call[c]
    BY <2>1 DEF IInv, DataStoreInv, ReturnedIsIndexed
  <2>2. CASE call'[c] # call[c]
    <3>1. call'[c].block = call[c].block /\ call[c].block \in taken
      BY <1>2, <1>3, <2>2
    <3>2. call[c].block # 0
      BY <1>2, <3>1 DEF Blocks
    <3> QED
      BY <3>1, <3>2 DEF IInv, DataStoreInv, CallInv, IndexInv
  <2> QED
    BY <2>1, <2>2
<1>9. EmitInv'
  <2>1. ~idle
    BY <1>1 DEF IInv, DataStoreInv, EmitInv
  <2>2. ASSUME listening, NEW n \in indexed \ told
        PROVE  blocks[n].doc \in pendingEmits \cup IndexedDocIds
    BY <2>2 DEF IInv, DataStoreInv, EmitInv, IndexedDocIds
  <2> QED
    BY <1>1, <2>1, <2>2 DEF EmitInv
<1> QED
  BY <1>5, <1>6, <1>7, <1>8, <1>9 DEF IInv, DataStoreInv

\* What is reported when the indexer is idle is all there is to report.
LEMMA IdleSteps ==
  ASSUME IInv, HandleIndexerIdle
  PROVE  IInv'
<1>1. /\ batch.stage = "none" /\ idle' = TRUE /\ pendingEmits' = {}
      /\ told' = IF listening
                   THEN told \cup {n \in indexed : blocks[n].doc \in pendingEmits}
                   ELSE told
      /\ UNCHANGED <<blocks, taken, indexed, call, pendingAppends, batch, listening,
                     fails>>
  BY DEF HandleIndexerIdle, HandleDataStoreUpdate
<1>2. TypeOK'
  BY <1>1 DEF IInv, TypeOK, Blocks
<1>3. CallInv' /\ LinksStayInDocument' /\ ReturnedIsIndexed' /\ IndexInv'
  BY <1>1 DEF IInv, DataStoreInv, CallInv, LinksStayInDocument, ReturnedIsIndexed,
              IndexInv, Blocks, Stage
<1>4. EmitInv'
  <2>1. batch.entries = {}
    BY <1>1 DEF IInv, DataStoreInv, IndexInv
  <2>2. listening => indexed \subseteq told'
    BY <1>1, <2>1 DEF IInv, DataStoreInv, EmitInv
  <2> QED
    BY <1>1, <2>2 DEF EmitInv
<1> QED
  BY <1>2, <1>3, <1>4 DEF IInv, DataStoreInv

\* A listener that comes has read everything.
LEMMA ListenerSteps ==
  ASSUME IInv, NewListener \/ RemoveListener
  PROVE  IInv'
<1>1. TypeOK'
  BY DEF NewListener, RemoveListener, IInv, TypeOK, Blocks
<1>2. CallInv' /\ LinksStayInDocument' /\ ReturnedIsIndexed' /\ IndexInv' /\ EmitInv'
  BY DEF NewListener, RemoveListener, IInv, DataStoreInv, CallInv,
         LinksStayInDocument, ReturnedIsIndexed, IndexInv, EmitInv, Blocks, Stage
<1> QED
  BY <1>1, <1>2 DEF IInv, DataStoreInv

-----------------------------------------------------------------------------
(***************************************************************************)
(* The invariant.                                                          *)
(***************************************************************************)
\* The invariant holds at first.
LEMMA InitHolds == Init => IInv
<1> SUFFICES ASSUME Init PROVE IInv
  OBVIOUS
<1>1. \A c \in Calls : /\ call[c] \in Call /\ call[c].stage = "new"
                       /\ call[c].links = {} /\ call[c].block = 0
  <2> SUFFICES ASSUME NEW c \in Calls
               PROVE  /\ call[c] \in Call /\ call[c].stage = "new"
                      /\ call[c].links = {} /\ call[c].block = 0
    OBVIOUS
  <2>1. call[c] \in [stage : {"new"}, doc : Docs, links : {{}},
                     deleted : {FALSE}, block : {0}]
    BY DEF Init
  <2>2. call[c] = [stage |-> "new", doc |-> call[c].doc, links |-> {},
                   deleted |-> FALSE, block |-> 0] /\ call[c].doc \in Docs
    BY <2>1
  <2>3. \A d \in Docs : [stage |-> "new", doc |-> d, links |-> {},
                        deleted |-> FALSE, block |-> 0] \in Call
    BY DEF Call, Stages
  <2>4. call[c] \in Call
    BY <2>2, <2>3
  <2> QED
    BY <2>2, <2>4
<1>2. call \in [Calls -> Call]
  BY <1>1 DEF Init
<1>3. Blocks = {}
  BY DEF Init, Blocks
<1>4. TypeOK
  <2>1. NoBatch \in [stage : {"none", "indexed", "waiting"},
                     entries : SUBSET {}, awaits : SUBSET Calls]
    BY DEF NoBatch
  <2>2. blocks \in Seq(Block) /\ fails \in 0 .. MaxFails
    BY DEF Init
  <2>3. \A c \in Calls : call[c].block \in Blocks \cup {0}
    BY <1>1
  <2> QED
    BY <1>2, <1>3, <2>1, <2>2, <2>3 DEF Init, TypeOK
<1>5. CallInv /\ ReturnedIsIndexed
  BY <1>1 DEF CallInv, ReturnedIsIndexed, Stage
<1>6. IndexInv /\ EmitInv /\ LinksStayInDocument
  BY <1>3 DEF Init, IndexInv, EmitInv, LinksStayInDocument, NoBatch
<1> QED
  BY <1>4, <1>5, <1>6 DEF IInv, DataStoreInv

\* Every step keeps it.
LEMMA StepHolds == IInv /\ [Next]_vars => IInv'
<1> SUFFICES ASSUME IInv, [Next]_vars PROVE IInv'
  OBVIOUS
<1>1. CASE UNCHANGED vars
  BY <1>1 DEF vars, IInv, TypeOK, DataStoreInv, CallInv, IndexInv, EmitInv,
              ReturnedIsIndexed, LinksStayInDocument, Blocks, Stage
<1>2. ASSUME NEW c \in Calls,
             \/ Create(c) \/ CreateWithRandomId(c) \/ Delete(c) \/ AppendRejects(c)
             \/ \E links \in SUBSET indexed : \E first \in links : Update(c, links, first)
      PROVE  IInv'
  BY <1>2, CallSteps
<1>3. ASSUME NEW c \in Calls, Proceed(c) PROVE IInv'
  BY <1>3, CallSteps, AppendSteps, AppendedSteps DEF Proceed
<1>4. CASE Indexer
  BY <1>4, BatchSteps, AwaitSteps, HandleSteps, IdleSteps DEF Indexer
<1>5. CASE NewListener \/ RemoveListener
  BY <1>5, ListenerSteps
<1>6. CASE \E d \in Docs, links \in SUBSET Blocks, readable \in Readable :
             Download(d, links, readable)
  <2>1. Readable \subseteq BOOLEAN
    BY DEF Readable
  <2> QED
    BY <1>6, <2>1, DownloadSteps
<1> QED
  BY <1>1, <1>2, <1>3, <1>4, <1>5, <1>6 DEF Next

\* The inductive invariant holds throughout.
THEOREM InvariantHolds == Spec => []IInv
<1>1. Init => IInv
  BY InitHolds
<1>2. IInv /\ [Next]_vars => IInv'
  BY StepHolds
<1> QED
  BY <1>1, <1>2, PTL DEF Spec

\* Every variable has its type: tables and batches hold known blocks only.
THEOREM TypeCorrect == Spec => []TypeOK
<1>1. IInv => TypeOK
  BY DEF IInv
<1> QED
  BY <1>1, InvariantHolds, PTL

\* datastore/index.js: a write returns only when what it wrote is indexed,
\* whichever way append and batches overlap.
THEOREM WritesAreIndexed == Spec => []ReturnedIsIndexed
<1>1. IInv => ReturnedIsIndexed
  BY DEF IInv, DataStoreInv
<1> QED
  BY <1>1, InvariantHolds, PTL

\* datastore/index.js: no update is lost between batches and idle events.
THEOREM NoUpdateIsLost == Spec => []UpdatesAreTold
<1>1. IInv => UpdatesAreTold
  BY DEF IInv, DataStoreInv, EmitInv, IndexInv, UpdatesAreTold
<1> QED
  BY <1>1, InvariantHolds, PTL

\* mapeo-project.js: each kind of document is written to a store that allows
\* it, whose batches bring it into the database its data type reads.
THEOREM DocumentsReachTheirTable == WrittenIsFound
<1> SUFFICES ASSUME NEW s \in DOMAIN dataTypes, NEW valid \in BOOLEAN
             PROVE  LET type == dataTypes[s]
                        entry == [schemaName |-> s, valid |-> valid]
                    IN /\ IsAllowed(type.dataStore, s)
                       /\ mapDoc(entry) => entry \in IndexedIn(type.dataStore, type.db, {entry})
  BY DEF WrittenIsFound
<1> DEFINE entry == [schemaName |-> s, valid |-> valid]
<1>1. entry.schemaName = s
  OBVIOUS
<1>2. s # "unknown"
  BY DEF dataTypes
<1>3. CASE s \in {"observation", "track"}
  <2>1. dataTypes[s] = DataType("data", "project")
    BY <1>3 DEF dataTypes
  <2> QED
    BY <1>1, <1>2, <1>3, <2>1
       DEF DataType, NAMESPACE_SCHEMAS, IsAllowed, tables, HasIndexer, IndexWriterBatch, IndexedIn
<1>4. CASE s \in {"coreOwnership", "role"}
  <2>1. dataTypes[s] = DataType("auth", "project")
    BY <1>4 DEF dataTypes
  <2> QED
    BY <1>1, <1>2, <1>4, <2>1
       DEF DataType, NAMESPACE_SCHEMAS, IsAllowed, tables, HasIndexer, IndexWriterBatch, IndexedIn
<1>5. CASE s \in {"translation", "preset", "field", "deviceInfo", "icon"}
  <2>1. dataTypes[s] = DataType("config", "project")
    BY <1>5 DEF dataTypes
  <2> QED
    BY <1>1, <1>2, <1>5, <2>1 DEF DataType, NAMESPACE_SCHEMAS, IsAllowed, tables,
       HasIndexer, IndexWriterBatch, IndexedIn, HandleConfigEntries
<1>6. CASE s = "projectSettings"
  <2>1. dataTypes[s] = DataType("config", "shared")
    BY <1>6 DEF dataTypes
  <2> QED
    BY <1>1, <1>2, <1>6, <2>1 DEF DataType, NAMESPACE_SCHEMAS, IsAllowed, tables,
       HasIndexer, IndexWriterBatch, IndexedIn, HandleConfigEntries
<1>7. DOMAIN dataTypes = {"observation", "track", "preset", "field", "projectSettings",
                          "coreOwnership", "role", "deviceInfo", "icon", "translation"}
  BY DEF dataTypes
<1> QED
  BY <1>3, <1>4, <1>5, <1>6, <1>7

\* datatype/index.js: versions never link across documents.
THEOREM DocumentsStayApart == Spec => []LinksStayInDocument
<1>1. IInv => LinksStayInDocument
  BY DEF IInv, DataStoreInv
<1> QED
  BY <1>1, InvariantHolds, PTL
=============================================================================
