--------------------------- MODULE ConfigImportProofs ---------------------------
(***************************************************************************)
(* What holds of imports, for any configurations, numbers of imports and   *)
(* faults: one that goes through leaves one configuration (OneConfigLeft), *)
(* the default presets are served with all they name (SettingsAreServed),  *)
(* and of any variants of an icon the closest one is shown, as far as the  *)
(* comparison they are sorted by allows (AnyClosestIsShown).               *)
(*                                                                         *)
(* The invariant IInv says at each stage of importConfig() which documents *)
(* of this import are written or being written, and that every older one   *)
(* of a kind that was looked up is to be deleted or was late.  On top of   *)
(* it, StoredInv says what the default presets stand on: an import that    *)
(* was written as a whole, and deletes only of older ones.                 *)
(***************************************************************************)
EXTENDS ConfigImport, FiniteSetTheorems, WellFoundedInduction, TLAPS

Others == Kinds \ {"icon"}  \* the kinds that are replaced

\* Batch(), of any archives.
ItemsOf(is, n, kind) == {Doc(n, kind, i) : i \in DOMAIN is[n][kind]}
Own(kind) == ItemsOf(imports, Now, kind)

Looking == {"grabPresets", "grabFields", "grabTranslations", "read"}
Creating == {"icons", "fields", "presets", "translations"}
Grabbed == [idle |-> {}, grabPresets |-> {}, grabFields |-> {"preset"},
            grabTranslations |-> {"preset", "field"}, read |-> Others, icons |-> Others,
            fields |-> Others, presets |-> Others, translations |-> Others, delete |-> Others]
Created == [idle |-> {}, grabPresets |-> {}, grabFields |-> {}, grabTranslations |-> {},
            read |-> {}, icons |-> {}, fields |-> {"field"}, presets |-> {"field", "preset"},
            translations |-> Others, delete |-> Others]

\* What is awaited is of the stage.
PendingInv ==
  /\ stage # "idle" => Now > 0
  /\ stage \in {"idle"} \cup Looking => pending = {}
  /\ stage \in Creating => \A o \in pending :
       o.op = "create" /\ o.doc.by = Now /\ o.doc.kind \in Kinds /\ o.doc \in Own(o.doc.kind)
  /\ stage = "delete" => \A o \in pending : o.op = "delete" /\ o.doc \in toDelete

\* What is there of this import is an item of it, and all of a kind that had
\* its turn is there or awaited.
OwnInv ==
  /\ stage \in Looking => \A d \in docs : d.by # Now
  /\ stage # "idle" => \A d \in docs : d.by = Now => d \in Own(d.kind)
  /\ stage # "idle" => \A d \in LateDocs : d.by # Now
  /\ \A k \in Created[stage] : \A d \in Own(k) :
       d \in docs \/ (stage # "delete" /\ [op |-> "create", doc |-> d] \in pending)

\* An older document of a kind that was looked up is to be deleted, or late.
OldInv ==
  /\ \A d \in docs \ deleted : d.kind \in Grabbed[stage] /\ d.by # Now =>
       d \in toDelete \/ d \in LateDocs
  /\ stage = "delete" => \A d \in toDelete :
       d \in deleted \/ [op |-> "delete", doc |-> d] \in pending

ResultInv == result = "ok" => stage = "idle" /\ OneConfigIsLeft

IInv == TypeOK /\ PendingInv /\ OwnInv /\ OldInv /\ ResultInv

-----------------------------------------------------------------------------
\* A batch is the items of its import, now and after a step.
LEMMA BatchIs ==
  /\ \A n, k : Batch(n, k) = ItemsOf(imports, n, k)
  /\ \A k : Own(k) = ItemsOf(imports, Len(imports), k)
  /\ \A k : Own(k)' = ItemsOf(imports', Len(imports'), k)
  /\ \A k : Batch(Now, k)' = ItemsOf(imports', Len(imports'), k)
BY DEF Batch, Items, ItemsOf, Own, Now

\* Documents of one import and kind differ from those of another.
LEMMA DocParts ==
  ASSUME NEW k, NEW d \in Own(k)
  PROVE  d.by = Now /\ d.kind = k
BY DEF Own, ItemsOf, Doc

\* Archives that were read before stay as they were.
LEMMA AppendKeeps ==
  ASSUME NEW c \in Configs, TypeOK, imports' = Append(imports, Contents(c))
  PROVE  /\ imports' \in Seq({Contents(x) : x \in Configs})
         /\ Now \in Nat /\ Now' = Now + 1
<1> DEFINE S == {Contents(x) : x \in Configs}
<1>1. Contents(c) \in S
  OBVIOUS
<1>2. imports \in Seq(S)
  BY DEF TypeOK
<1> HIDE DEF S
<1>3. /\ Append(imports, Contents(c)) \in Seq(S) /\ Len(imports) \in Nat
      /\ Len(Append(imports, Contents(c))) = Len(imports) + 1
  BY <1>1, <1>2
<1>4. QED
  BY <1>3 DEF Now, S

-----------------------------------------------------------------------------
\* Before the first import there is nothing.
LEMMA InitHolds == Init => IInv
<1> SUFFICES ASSUME Init PROVE IInv
  OBVIOUS
<1> USE DEF Init
<1>1. TypeOK
  <2>1. imports \in Seq({Contents(c) : c \in Configs})
    OBVIOUS
  <2>2. QED
    BY <2>1 DEF TypeOK, LateDocs, Stages
<1>2. PendingInv
  BY DEF PendingInv, Creating
<1>3. OwnInv
  BY DEF OwnInv, Looking, Created, LateDocs
<1>4. OldInv
  BY DEF OldInv
<1>5. ResultInv
  BY DEF ResultInv
<1>6. QED
  BY <1>1, <1>2, <1>3, <1>4, <1>5 DEF IInv

\* What a step that reads no new archive leaves as it is.
LEMMA SameImports ==
  ASSUME TypeOK, UNCHANGED imports
  PROVE  Now \in Nat /\ Now' = Now /\ \A k : Own(k)' = Own(k)
<1>1. Now' = Now /\ \A k : Own(k)' = Own(k)
  BY BatchIs DEF Now
<1> DEFINE S == {Contents(x) : x \in Configs}
<1>2. imports \in Seq(S)
  BY DEF TypeOK
<1> HIDE DEF S
<1>3. Len(imports) \in Nat
  BY <1>2
<1>4. QED
  BY <1>1, <1>3 DEF Now

-----------------------------------------------------------------------------
LEMMA GrabDocsKeeps ==
  ASSUME IInv, GrabDocs
  PROVE  IInv'
<1>1. Now \in Nat /\ Now' = Now /\ \A k : Own(k)' = Own(k)
  BY SameImports DEF IInv, GrabDocs, Grabs, AfterGrab, store
<1>2. TypeOK'
  <2>1. imports' \in Seq({Contents(c) : c \in Configs})
    BY DEF IInv, TypeOK, GrabDocs, Grabs, AfterGrab, store
  <2>2. (\A d \in docs \cup LateDocs : d.by \in 1 .. Now /\ d.kind \in Kinds)'
    BY <1>1 DEF IInv, TypeOK, PendingInv, LateDocs, Creating, GrabDocs, Grabs, AfterGrab, store
  <2>3. (\A d \in deleted \cup toDelete \cup {o.doc : o \in {p \in late : p.op = "delete"}} :
           d.by \in 1 .. Now - 1 /\ d.kind \in Kinds)'
    BY <1>1 DEF IInv, TypeOK, PendingInv, OwnInv, Looking, Creating, GrabDocs, Grabs, AfterGrab, store
  <2>4. QED
    BY <1>1, <2>1, <2>2, <2>3 DEF IInv, TypeOK, PendingInv, OwnInv, Looking, Creating, Created, Stages, Others, Kinds, GrabDocs, Grabs, AfterGrab, store
<1>3. PendingInv'
  BY <1>1 DEF IInv, TypeOK, Stages, PendingInv, Looking, Creating, Kinds, GrabDocs, Grabs, AfterGrab, store
<1>4. OwnInv'
  BY <1>1 DEF IInv, TypeOK, Stages, PendingInv, OwnInv, LateDocs, Looking, Creating, Created, Others, Kinds, GrabDocs, Grabs, AfterGrab, store
<1>5. OldInv'
  BY <1>1 DEF IInv, TypeOK, Stages, PendingInv, OldInv, LateDocs, Looking, Grabbed, Others, Kinds, GrabDocs, Grabs, AfterGrab, store
<1>6. ResultInv'
  BY <1>1 DEF IInv, TypeOK, ResultInv, GrabDocs, Grabs, AfterGrab, store
<1>7. QED
  BY <1>2, <1>3, <1>4, <1>5, <1>6 DEF IInv

LEMMA ReadConfigKeeps ==
  ASSUME IInv, ReadConfig
  PROVE  IInv'
<1>1. Now \in Nat /\ Now' = Now /\ \A k : Own(k)' = Own(k)
  BY SameImports DEF IInv, ReadConfig, Fails, Goto, store
<1>2. TypeOK'
  <2>1. imports' \in Seq({Contents(c) : c \in Configs})
    BY DEF IInv, TypeOK, ReadConfig, Fails, Goto, store
  <2>2. (\A d \in docs \cup LateDocs : d.by \in 1 .. Now /\ d.kind \in Kinds)'
    BY <1>1 DEF IInv, TypeOK, PendingInv, LateDocs, Creating, ReadConfig, Fails, Goto, store
  <2>3. (\A d \in deleted \cup toDelete \cup {o.doc : o \in {p \in late : p.op = "delete"}} :
           d.by \in 1 .. Now - 1 /\ d.kind \in Kinds)'
    BY <1>1 DEF IInv, TypeOK, PendingInv, OwnInv, Looking, Creating, ReadConfig, Fails, Goto, store
  <2>4. QED
    BY <1>1, <2>1, <2>2, <2>3 DEF IInv, TypeOK, PendingInv, OwnInv, Looking, Creating, Created, Stages, Others, Kinds, ReadConfig, Fails, Goto, store
<1>3. PendingInv'
  BY <1>1 DEF IInv, TypeOK, Stages, PendingInv, Looking, Creating, Kinds, ReadConfig, Fails, Goto, store
<1>4. OwnInv'
  BY <1>1 DEF IInv, TypeOK, Stages, PendingInv, OwnInv, LateDocs, Looking, Creating, Created, Others, Kinds, ReadConfig, Fails, Goto, store
<1>5. OldInv'
  BY <1>1 DEF IInv, TypeOK, Stages, PendingInv, OldInv, LateDocs, Looking, Grabbed, Others, Kinds, ReadConfig, Fails, Goto, store
<1>6. ResultInv'
  BY <1>1 DEF IInv, TypeOK, ResultInv, ReadConfig, Fails, Goto, store
<1>7. QED
  BY <1>2, <1>3, <1>4, <1>5, <1>6 DEF IInv

LEMMA CreateIconKeeps ==
  ASSUME IInv, CreateIcon
  PROVE  IInv'
<1>0. \A k : Batch(Now, k) = Own(k) /\ \A d \in Own(k) : d.by = Now /\ d.kind = k
  BY BatchIs, DocParts DEF Own
<1>1. Now \in Nat /\ Now' = Now /\ \A k : Own(k)' = Own(k)
  BY SameImports DEF IInv, CreateIcon, Goto, Continues, Create, store
<1>2. TypeOK'
  <2>1. imports' \in Seq({Contents(c) : c \in Configs})
    BY DEF IInv, TypeOK, CreateIcon, Goto, Continues, Create, store
  <2>2. (\A d \in docs \cup LateDocs : d.by \in 1 .. Now /\ d.kind \in Kinds)'
    BY <1>0, <1>1 DEF IInv, TypeOK, PendingInv, LateDocs, Creating, CreateIcon, Goto, Continues, Create, store
  <2>3. (\A d \in deleted \cup toDelete \cup {o.doc : o \in {p \in late : p.op = "delete"}} :
           d.by \in 1 .. Now - 1 /\ d.kind \in Kinds)'
    BY <1>0, <1>1 DEF IInv, TypeOK, PendingInv, OwnInv, Looking, Creating, CreateIcon, Goto, Continues, Create, store
  <2>4. QED
    BY <1>0, <1>1, <2>1, <2>2, <2>3 DEF IInv, TypeOK, PendingInv, OwnInv, Looking, Creating, Created, Stages, Others, Kinds, CreateIcon, Goto, Continues, Create, store
<1>3. PendingInv'
  BY <1>0, <1>1 DEF IInv, TypeOK, Stages, PendingInv, Looking, Creating, Kinds, CreateIcon, Goto, Continues, Create, store
<1>4. OwnInv'
  BY <1>0, <1>1 DEF IInv, TypeOK, Stages, PendingInv, OwnInv, LateDocs, Looking, Creating, Created, Others, Kinds, CreateIcon, Goto, Continues, Create, store
<1>5. OldInv'
  BY <1>0, <1>1 DEF IInv, TypeOK, Stages, PendingInv, OldInv, LateDocs, Looking, Grabbed, Others, Kinds, CreateIcon, Goto, Continues, Create, store
<1>6. ResultInv'
  BY <1>0, <1>1 DEF IInv, TypeOK, ResultInv, CreateIcon, Goto, Continues, Create, store
<1>7. QED
  BY <1>2, <1>3, <1>4, <1>5, <1>6 DEF IInv

LEMMA CreateFieldsKeeps ==
  ASSUME IInv, CreateFields
  PROVE  IInv'
<1>0. \A k : Batch(Now, k) = Own(k) /\ \A d \in Own(k) : d.by = Now /\ d.kind = k
  BY BatchIs, DocParts DEF Own
<1>1. Now \in Nat /\ Now' = Now /\ \A k : Own(k)' = Own(k)
  BY SameImports DEF IInv, CreateFields, Goto, Continues, Create, store
<1>2. TypeOK'
  <2>1. imports' \in Seq({Contents(c) : c \in Configs})
    BY DEF IInv, TypeOK, CreateFields, Goto, Continues, Create, store
  <2>2. (\A d \in docs \cup LateDocs : d.by \in 1 .. Now /\ d.kind \in Kinds)'
    BY <1>0, <1>1 DEF IInv, TypeOK, PendingInv, LateDocs, Creating, CreateFields, Goto, Continues, Create, store
  <2>3. (\A d \in deleted \cup toDelete \cup {o.doc : o \in {p \in late : p.op = "delete"}} :
           d.by \in 1 .. Now - 1 /\ d.kind \in Kinds)'
    BY <1>0, <1>1 DEF IInv, TypeOK, PendingInv, OwnInv, Looking, Creating, CreateFields, Goto, Continues, Create, store
  <2>4. QED
    BY <1>0, <1>1, <2>1, <2>2, <2>3 DEF IInv, TypeOK, PendingInv, OwnInv, Looking, Creating, Created, Stages, Others, Kinds, CreateFields, Goto, Continues, Create, store
<1>3. PendingInv'
  BY <1>0, <1>1 DEF IInv, TypeOK, Stages, PendingInv, Looking, Creating, Kinds, CreateFields, Goto, Continues, Create, store
<1>4. OwnInv'
  BY <1>0, <1>1 DEF IInv, TypeOK, Stages, PendingInv, OwnInv, LateDocs, Looking, Creating, Created, Others, Kinds, CreateFields, Goto, Continues, Create, store
<1>5. OldInv'
  BY <1>0, <1>1 DEF IInv, TypeOK, Stages, PendingInv, OldInv, LateDocs, Looking, Grabbed, Others, Kinds, CreateFields, Goto, Continues, Create, store
<1>6. ResultInv'
  BY <1>0, <1>1 DEF IInv, TypeOK, ResultInv, CreateFields, Goto, Continues, Create, store
<1>7. QED
  BY <1>2, <1>3, <1>4, <1>5, <1>6 DEF IInv

LEMMA CreatePresetsKeeps ==
  ASSUME IInv, CreatePresets
  PROVE  IInv'
<1>0. \A k : Batch(Now, k) = Own(k) /\ \A d \in Own(k) : d.by = Now /\ d.kind = k
  BY BatchIs, DocParts DEF Own
<1>1. Now \in Nat /\ Now' = Now /\ \A k : Own(k)' = Own(k)
  BY SameImports DEF IInv, CreatePresets, Goto, Create, Fails, store
<1>2. TypeOK'
  <2>1. imports' \in Seq({Contents(c) : c \in Configs})
    BY DEF IInv, TypeOK, CreatePresets, Goto, Create, Fails, store
  <2>2. (\A d \in docs \cup LateDocs : d.by \in 1 .. Now /\ d.kind \in Kinds)'
    BY <1>0, <1>1 DEF IInv, TypeOK, PendingInv, LateDocs, Creating, CreatePresets, Goto, Create, Fails, store
  <2>3. (\A d \in deleted \cup toDelete \cup {o.doc : o \in {p \in late : p.op = "delete"}} :
           d.by \in 1 .. Now - 1 /\ d.kind \in Kinds)'
    BY <1>0, <1>1 DEF IInv, TypeOK, PendingInv, OwnInv, Looking, Creating, CreatePresets, Goto, Create, Fails, store
  <2>4. QED
    <3>1. (\A o \in pending \cup late : o.op \in {"create", "delete"})'
      BY DEF IInv, TypeOK, CreatePresets, Goto, Create, Fails, store
    <3>2. (loading = (stage # "idle") /\ stage \in Stages /\ settings \subseteq docs)'
      BY DEF IInv, TypeOK, Stages, CreatePresets, Goto, Fails, store
    <3>3. (result \in {"none", "ok", "failed"} /\ faults \in Nat)'
      BY DEF IInv, TypeOK, CreatePresets, Goto, Fails, store
    <3>4. QED
      BY <2>1, <2>2, <2>3, <3>1, <3>2, <3>3 DEF TypeOK
<1>3. PendingInv'
  BY <1>0, <1>1 DEF IInv, TypeOK, Stages, PendingInv, Looking, Creating, Kinds, CreatePresets, Goto, Create, Fails, store
<1>4. OwnInv'
  BY <1>0, <1>1 DEF IInv, TypeOK, Stages, PendingInv, OwnInv, LateDocs, Looking, Creating, Created, Others, Kinds, CreatePresets, Goto, Create, Fails, store
<1>5. OldInv'
  BY <1>0, <1>1 DEF IInv, TypeOK, Stages, PendingInv, OldInv, LateDocs, Looking, Grabbed, Others, Kinds, CreatePresets, Goto, Create, Fails, store
<1>6. ResultInv'
  BY <1>0, <1>1 DEF IInv, TypeOK, ResultInv, CreatePresets, Goto, Create, Fails, store
<1>7. QED
  BY <1>2, <1>3, <1>4, <1>5, <1>6 DEF IInv

LEMMA PutTranslationsKeeps ==
  ASSUME IInv, PutTranslations
  PROVE  IInv'
<1> DEFINE Puts(ps) ==
      /\ \A o \in ps : o.op = "create" /\ o.doc.by = Now /\ o.doc.kind = "translation"
      /\ \/ /\ stage' = "translations" /\ pending' = ps /\ ps = Create(Own("translation"))
            /\ UNCHANGED <<loading, toDelete, late, result>>
         \/ Fails(ps)
<1>0. \A k : Batch(Now, k) = Own(k) /\ \A d \in Own(k) : d.by = Now /\ d.kind = k
  BY BatchIs, DocParts DEF Own
<1>1. \E ps : Puts(ps)
  <2> DEFINE all == Items(Now, "translation")
             found == TakeUntil(all, LAMBDA t : t.type = "error" \/ IsMissing(Ref(Now, t.type, t.name)))
             ps == Create({Doc(Now, "translation", i) : i \in DOMAIN found})
  <2>1. \A o \in ps : o.op = "create" /\ o.doc.by = Now /\ o.doc.kind = "translation"
    <3> HIDE DEF all, found
    <3>1. TAKE o \in ps
    <3>2. PICK i \in DOMAIN found : o.op = "create" /\ o.doc = Doc(Now, "translation", i)
      BY DEF Create
    <3>3. QED
      BY <3>2 DEF Doc
  <2>2. found = all => ps = Create(Own("translation"))
    BY DEF Own, ItemsOf, Items
  <2>3. IF found = all THEN Goto("translations", ps) /\ UNCHANGED <<loading, toDelete, late, result>>
                       ELSE Fails(ps)
    BY DEF PutTranslations
  <2> HIDE DEF found, all, ps
  <2>4. Puts(ps)
    BY <2>1, <2>2, <2>3 DEF Goto
  <2>5. QED
    BY <2>4
<1>2. PICK ps : Puts(ps)
  BY <1>1
<1>3. stage = "presets" /\ pending = {} /\ UNCHANGED <<store, imports, faults>>
  BY DEF PutTranslations
<1>4. Now \in Nat /\ Now' = Now /\ \A k : Own(k)' = Own(k)
  BY <1>3, SameImports DEF IInv
<1>5. TypeOK'
  <2>1. imports' \in Seq({Contents(c) : c \in Configs})
    BY <1>3 DEF IInv, TypeOK
  <2>2. (\A d \in docs \cup LateDocs : d.by \in 1 .. Now /\ d.kind \in Kinds)'
    BY <1>2, <1>3, <1>4 DEF IInv, TypeOK, PendingInv, LateDocs, Kinds, Fails, store
  <2>3. (\A d \in deleted \cup toDelete \cup {o.doc : o \in {p \in late : p.op = "delete"}} :
           d.by \in 1 .. Now - 1 /\ d.kind \in Kinds)'
    BY <1>2, <1>3, <1>4 DEF IInv, TypeOK, Fails, store
  <2>4. QED
    BY <1>2, <1>3, <1>4, <2>1, <2>2, <2>3 DEF IInv, TypeOK, Stages, Fails, store
<1>6. PendingInv'
  BY <1>0, <1>2, <1>3, <1>4 DEF IInv, PendingInv, Looking, Creating, Kinds, Create, Fails
<1>7. OwnInv'
  BY <1>0, <1>2, <1>3, <1>4 DEF IInv, OwnInv, LateDocs, Looking, Created, Others, Kinds, Create, Fails, store
<1>8. OldInv'
  BY <1>2, <1>3, <1>4 DEF IInv, OldInv, LateDocs, Grabbed, Others, Kinds, Fails, store
<1>9. ResultInv'
  BY <1>2, <1>3 DEF IInv, ResultInv, Fails
<1>10. QED
  BY <1>5, <1>6, <1>7, <1>8, <1>9 DEF IInv

LEMMA SetSettingsKeeps ==
  ASSUME IInv, SetSettings
  PROVE  IInv'
<1>0. \A k : Batch(Now, k) = Own(k) /\ \A d \in Own(k) : d.by = Now /\ d.kind = k
  BY BatchIs, DocParts DEF Own
<1>1. Now \in Nat /\ Now' = Now /\ \A k : Own(k)' = Own(k)
  BY SameImports DEF IInv, SetSettings, Goto, Continues, Delete, store
<1>2. TypeOK'
  <2>1. imports' \in Seq({Contents(c) : c \in Configs})
    BY DEF IInv, TypeOK, SetSettings, Goto, Continues, Delete, store
  <2>2. (\A d \in docs \cup LateDocs : d.by \in 1 .. Now /\ d.kind \in Kinds)'
    BY <1>0, <1>1 DEF IInv, TypeOK, PendingInv, LateDocs, Creating, SetSettings, Goto, Continues, Delete, store
  <2>3. (\A d \in deleted \cup toDelete \cup {o.doc : o \in {p \in late : p.op = "delete"}} :
           d.by \in 1 .. Now - 1 /\ d.kind \in Kinds)'
    BY <1>0, <1>1 DEF IInv, TypeOK, PendingInv, OwnInv, Looking, Creating, SetSettings, Goto, Continues, Delete, store
  <2>4. QED
    BY <1>0, <1>1, <2>1, <2>2, <2>3 DEF IInv, TypeOK, PendingInv, OwnInv, Looking, Creating, Created, Stages, Others, Kinds, SetSettings, Goto, Continues, Delete, store
<1>3. PendingInv'
  BY <1>0, <1>1 DEF IInv, TypeOK, Stages, PendingInv, Looking, Creating, Kinds, SetSettings, Goto, Continues, Delete, store
<1>4. OwnInv'
  BY <1>0, <1>1 DEF IInv, TypeOK, Stages, PendingInv, OwnInv, LateDocs, Looking, Creating, Created, Others, Kinds, SetSettings, Goto, Continues, Delete, store
<1>5. OldInv'
  BY <1>0, <1>1 DEF IInv, TypeOK, Stages, PendingInv, OldInv, LateDocs, Looking, Grabbed, Others, Kinds, SetSettings, Goto, Continues, Delete, store
<1>6. ResultInv'
  BY <1>0, <1>1 DEF IInv, TypeOK, ResultInv, SetSettings, Goto, Continues, Delete, store
<1>7. QED
  BY <1>2, <1>3, <1>4, <1>5, <1>6 DEF IInv

LEMMA EndImportKeeps ==
  ASSUME IInv, EndImport
  PROVE  IInv'
<1>0. \A k : Batch(Now, k) = Own(k) /\ \A d \in Own(k) : d.by = Now /\ d.kind = k
  BY BatchIs, DocParts DEF Own
<1>1. Now \in Nat /\ Now' = Now /\ \A k : Own(k)' = Own(k)
  BY SameImports DEF IInv, EndImport, store
<1>2. TypeOK'
  <2>1. imports' \in Seq({Contents(c) : c \in Configs})
    BY DEF IInv, TypeOK, EndImport, store
  <2>2. (\A d \in docs \cup LateDocs : d.by \in 1 .. Now /\ d.kind \in Kinds)'
    BY <1>0, <1>1 DEF IInv, TypeOK, PendingInv, LateDocs, Creating, EndImport, store
  <2>3. (\A d \in deleted \cup toDelete \cup {o.doc : o \in {p \in late : p.op = "delete"}} :
           d.by \in 1 .. Now - 1 /\ d.kind \in Kinds)'
    BY <1>0, <1>1 DEF IInv, TypeOK, PendingInv, OwnInv, Looking, Creating, EndImport, store
  <2>4. QED
    BY <1>0, <1>1, <2>1, <2>2, <2>3 DEF IInv, TypeOK, PendingInv, OwnInv, Looking, Creating, Created, Stages, Others, Kinds, EndImport, store
<1>3. PendingInv'
  BY <1>0, <1>1 DEF IInv, TypeOK, Stages, PendingInv, Looking, Creating, Kinds, EndImport, store
<1>4. OwnInv'
  BY <1>0, <1>1 DEF IInv, TypeOK, Stages, PendingInv, OwnInv, LateDocs, Looking, Creating, Created, Others, Kinds, EndImport, store
<1>5. OldInv'
  BY <1>0, <1>1 DEF IInv, TypeOK, Stages, PendingInv, OldInv, LateDocs, Looking, Grabbed, Others, Kinds, EndImport, store
<1>6. ResultInv'
  <2> DEFINE own == UNION {Batch(Now, kind) : kind \in Others}
             left == {d \in docs \ deleted : d.kind # "icon"}
  <2>1. Created["delete"] = Others /\ Grabbed["delete"] = Others
    BY DEF Created, Grabbed
  <2>2. ASSUME NEW d \in own PROVE d \in left
    <3>1. PICK k \in Others : d \in Own(k)
      BY <1>0
    <3>2. d \in docs /\ d.by = Now /\ d.kind = k /\ d.kind # "icon"
      BY <1>0, <2>1, <3>1 DEF IInv, OwnInv, EndImport, Others
    <3>3. d \notin deleted
      BY <1>1, <3>2 DEF IInv, TypeOK
    <3>4. QED
      BY <3>2, <3>3
  <2>3. ASSUME NEW d \in left PROVE d \in own \cup LateDocs
    <3>1. d.kind \in Others
      BY DEF IInv, TypeOK, Others
    <3>2. d.by = Now => d \in own
      BY <1>0, <3>1 DEF IInv, OwnInv, EndImport
    <3>3. d.by # Now => d \in LateDocs
      BY <2>1, <3>1 DEF IInv, OldInv, EndImport
    <3>4. QED
      BY <3>2, <3>3
  <2>4. /\ \A k : Batch(Now, k)' = Batch(Now, k)
        /\ UNCHANGED <<docs, deleted, late>>
    BY <1>0, <1>1, BatchIs DEF EndImport, store
  <2>5. own' = own /\ left' = left /\ LateDocs' = LateDocs
    BY <2>4 DEF LateDocs
  <2> HIDE DEF own, left
  <2>6. (own \subseteq left /\ left \subseteq own \cup LateDocs)'
    BY <2>2, <2>3, <2>5
  <2>7. OneConfigIsLeft'
    BY <2>6 DEF OneConfigIsLeft, own, left, Others
  <2>8. QED
    BY <2>7 DEF ResultInv, EndImport
<1>7. QED
  BY <1>2, <1>3, <1>4, <1>5, <1>6 DEF IInv

LEMMA CrashKeeps ==
  ASSUME IInv, Crash
  PROVE  IInv'
<1>1. Now \in Nat /\ Now' = Now /\ \A k : Own(k)' = Own(k)
  BY SameImports DEF IInv, Crash, IsDone, store
<1>2. TypeOK'
  <2>1. imports' \in Seq({Contents(c) : c \in Configs})
    BY DEF IInv, TypeOK, Crash, IsDone, store
  <2>2. (\A d \in docs \cup LateDocs : d.by \in 1 .. Now /\ d.kind \in Kinds)'
    BY <1>1 DEF IInv, TypeOK, PendingInv, LateDocs, Creating, Crash, IsDone, store
  <2>3. (\A d \in deleted \cup toDelete \cup {o.doc : o \in {p \in late : p.op = "delete"}} :
           d.by \in 1 .. Now - 1 /\ d.kind \in Kinds)'
    BY <1>1 DEF IInv, TypeOK, PendingInv, OwnInv, Looking, Creating, Crash, IsDone, store
  <2>4. QED
    <3>1. (\A o \in pending \cup late : o.op \in {"create", "delete"})'
      BY DEF IInv, TypeOK, Crash
    <3>2. (loading = (stage # "idle") /\ stage \in Stages /\ settings \subseteq docs)'
      BY DEF IInv, TypeOK, Stages, Crash
    <3>3. (result \in {"none", "ok", "failed"} /\ faults \in Nat)'
      BY DEF IInv, TypeOK, Crash
    <3>4. QED
      BY <2>1, <2>2, <2>3, <3>1, <3>2, <3>3 DEF TypeOK
<1>3. PendingInv'
  BY <1>1 DEF IInv, TypeOK, Stages, PendingInv, Looking, Creating, Kinds, Crash, IsDone, store
<1>4. OwnInv'
  BY <1>1 DEF IInv, TypeOK, Stages, PendingInv, OwnInv, LateDocs, Looking, Creating, Created, Others, Kinds, Crash, IsDone, store
<1>5. OldInv'
  BY <1>1 DEF IInv, TypeOK, Stages, PendingInv, OldInv, LateDocs, Looking, Grabbed, Others, Kinds, Crash, IsDone, store
<1>6. ResultInv'
  BY <1>1 DEF IInv, TypeOK, ResultInv, Crash, IsDone, store
<1>7. QED
  BY <1>2, <1>3, <1>4, <1>5, <1>6 DEF IInv

LEMMA ImportConfigKeeps ==
  ASSUME IInv, NEW c \in Configs, ImportConfig(c)
  PROVE  IInv'
<1>1. imports' \in Seq({Contents(x) : x \in Configs}) /\ Now \in Nat /\ Now' = Now + 1
  BY AppendKeeps DEF IInv, ImportConfig
<1>2. stage = "idle" /\ pending = {}
  BY DEF IInv, TypeOK, PendingInv, ImportConfig
<1>3. TypeOK'
  <2>1. (\A d \in docs \cup LateDocs : d.by \in 1 .. Now /\ d.kind \in Kinds)'
    BY <1>1 DEF IInv, TypeOK, LateDocs, ImportConfig, store
  <2>2. (\A d \in deleted \cup toDelete \cup {o.doc : o \in {p \in late : p.op = "delete"}} :
           d.by \in 1 .. Now - 1 /\ d.kind \in Kinds)'
    BY <1>1 DEF IInv, TypeOK, ImportConfig, store
  <2>3. QED
    BY <1>1, <2>1, <2>2 DEF IInv, TypeOK, Stages, ImportConfig, store
<1>4. PendingInv'
  BY <1>1, <1>2 DEF PendingInv, Looking, Creating, ImportConfig
<1>5. OwnInv'
  <2>1. \A d \in docs \cup LateDocs : d.by # Now + 1
    BY <1>1 DEF IInv, TypeOK
  <2>2. UNCHANGED <<docs, LateDocs>> /\ stage' = "grabPresets"
    BY DEF ImportConfig, store, LateDocs
  <2>3. QED
    BY <1>1, <2>1, <2>2 DEF OwnInv, Looking, Created
<1>6. OldInv'
  BY DEF OldInv, Grabbed, ImportConfig
<1>7. ResultInv'
  BY DEF ResultInv, ImportConfig
<1>8. QED
  BY <1>3, <1>4, <1>5, <1>6, <1>7 DEF IInv

\* What an awaited write is of.
LEMMA PendingParts ==
  ASSUME IInv, NEW o \in pending
  PROVE  /\ stage \in Creating \cup {"delete"} /\ Now \in Nat /\ Now > 0
         /\ o.op = "create" => /\ stage \in Creating /\ o.doc \in Own(o.doc.kind)
                               /\ o.doc.by = Now /\ o.doc.kind \in Kinds
         /\ o.op = "delete" => /\ stage = "delete" /\ o.doc \in toDelete
                               /\ o.doc.by \in 1 .. Now - 1 /\ o.doc.kind \in Kinds
         /\ o.op \in {"create", "delete"}
<1>1. stage \in Creating \cup {"delete"} /\ o.op \in {"create", "delete"} /\ Now > 0
  BY DEF IInv, TypeOK, Stages, PendingInv, Looking, Creating
<1> DEFINE S == {Contents(x) : x \in Configs}
<1>2. imports \in Seq(S)
  BY DEF IInv, TypeOK
<1> HIDE DEF S
<1>3. Now \in Nat
  BY <1>2 DEF Now
<1>4. QED
  BY <1>1, <1>3 DEF IInv, TypeOK, PendingInv, Creating

LEMMA WrittenKeeps ==
  ASSUME IInv, NEW o \in pending, Written(o)
  PROVE  IInv'
<1>1. Now \in Nat /\ Now' = Now /\ \A k : Own(k)' = Own(k)
  BY SameImports DEF IInv, Written, Continues
<1>2. /\ pending' = pending \ {o} /\ settings' = settings
      /\ UNCHANGED <<stage, imports, loading, toDelete, late, result, faults>>
  BY DEF Written, Effect, Continues
<1>3. \/ o.op = "create" /\ docs' = docs \cup {o.doc} /\ deleted' = deleted
      \/ o.op = "delete" /\ docs' = docs /\ deleted' = deleted \cup {o.doc}
  BY PendingParts DEF Written, Effect
<1>4. TypeOK'
  <2>1. imports' \in Seq({Contents(c) : c \in Configs})
    BY <1>2 DEF IInv, TypeOK
  <2>2. (\A d \in docs \cup LateDocs : d.by \in 1 .. Now /\ d.kind \in Kinds)'
    <3>1. o.op = "create" => o.doc.by \in 1 .. Now /\ o.doc.kind \in Kinds
      BY PendingParts
    <3>2. LateDocs' = LateDocs
      BY <1>2 DEF LateDocs
    <3>3. QED
      BY <1>1, <1>3, <3>1, <3>2 DEF IInv, TypeOK
  <2>3. (\A d \in deleted \cup toDelete \cup {p.doc : p \in {q \in late : q.op = "delete"}} :
           d.by \in 1 .. Now - 1 /\ d.kind \in Kinds)'
    BY <1>1, <1>2, <1>3, PendingParts DEF IInv, TypeOK
  <2>4. QED
    BY <1>2, <1>3, <2>1, <2>2, <2>3 DEF IInv, TypeOK
<1>5. PendingInv'
  BY <1>1, <1>2 DEF IInv, PendingInv
<1>6. OwnInv'
  <2>1. stage \notin Looking /\ stage \in Creating \cup {"delete"}
    BY PendingParts DEF Looking, Creating
  <2>2. LateDocs' = LateDocs
    BY <1>2 DEF LateDocs
  <2>3. o.op = "create" => o.doc.by = Now /\ o.doc \in Own(o.doc.kind)
    BY PendingParts
  <2>4. (\A d \in docs : d.by = Now => d \in Own(d.kind))'
    BY <1>1, <1>3, <2>1, <2>3 DEF IInv, OwnInv, Creating
  <2>5. stage # "delete" => o.op = "create"
    BY PendingParts
  <2>6. ASSUME NEW k \in Created[stage], NEW d \in Own(k)
        PROVE  d \in docs' \/ (stage # "delete" /\ [op |-> "create", doc |-> d] \in pending')
    <3>1. d \in docs \/ (stage # "delete" /\ [op |-> "create", doc |-> d] \in pending)
      BY DEF IInv, OwnInv
    <3>2. [op |-> "create", doc |-> d] = o => o.doc = d
      OBVIOUS
    <3>3. QED
      BY <1>2, <1>3, <2>5, <3>1, <3>2
  <2>7. QED
    BY <1>1, <1>2, <2>1, <2>2, <2>4, <2>6 DEF IInv, OwnInv
<1>7. OldInv'
  <2>1. LateDocs' = LateDocs
    BY <1>2 DEF LateDocs
  <2>2. o.op = "create" => o.doc.by = Now
    BY PendingParts
  <2>3. stage = "delete" => o.op = "delete"
    BY PendingParts DEF Creating
  <2>4. ASSUME stage = "delete", NEW d \in toDelete
        PROVE  d \in deleted' \/ [op |-> "delete", doc |-> d] \in pending'
    <3>1. d \in deleted \/ [op |-> "delete", doc |-> d] \in pending
      BY <2>4 DEF IInv, OldInv
    <3>2. [op |-> "delete", doc |-> d] = o => o.doc = d
      OBVIOUS
    <3>3. QED
      BY <1>2, <1>3, <2>3, <2>4, <3>1, <3>2
  <2>5. QED
    BY <1>1, <1>2, <1>3, <2>1, <2>2, <2>4 DEF IInv, OldInv
<1>8. ResultInv'
  BY <1>2, PendingParts DEF IInv, ResultInv, Creating
<1>9. QED
  BY <1>4, <1>5, <1>6, <1>7, <1>8 DEF IInv

LEMMA WriteFailsKeeps ==
  ASSUME IInv, NEW o \in pending, WriteFails(o)
  PROVE  IInv'
<1>1. Now \in Nat /\ Now' = Now /\ \A k : Own(k)' = Own(k)
  BY SameImports DEF IInv, WriteFails
<1>2. /\ stage' = "idle" /\ loading' = FALSE /\ result' = "failed" /\ faults' = faults + 1
      /\ toDelete' = {} /\ pending' = {} /\ late' = late \cup (pending \ {o})
      /\ UNCHANGED <<docs, deleted, settings, imports>>
  BY DEF WriteFails, Fails, store
<1>3. \A p \in pending : /\ p.doc.by \in 1 .. Now /\ p.doc.kind \in Kinds
                         /\ p.op = "delete" => p.doc.by \in 1 .. Now - 1
  BY PendingParts
<1>4. TypeOK'
  <2>1. imports' \in Seq({Contents(c) : c \in Configs})
    BY <1>2 DEF IInv, TypeOK
  <2>2. (\A d \in docs \cup LateDocs : d.by \in 1 .. Now /\ d.kind \in Kinds)'
    BY <1>1, <1>2, <1>3 DEF IInv, TypeOK, LateDocs
  <2>3. (\A d \in deleted \cup toDelete \cup {p.doc : p \in {q \in late : q.op = "delete"}} :
           d.by \in 1 .. Now - 1 /\ d.kind \in Kinds)'
    BY <1>1, <1>2, <1>3 DEF IInv, TypeOK
  <2>4. QED
    <3>1. (\A p \in pending \cup late : p.op \in {"create", "delete"})'
      BY <1>2 DEF IInv, TypeOK
    <3>2. (settings \subseteq docs /\ loading = (stage # "idle") /\ stage \in Stages)'
      BY <1>2 DEF IInv, TypeOK, Stages
    <3>3. (result \in {"none", "ok", "failed"} /\ faults \in Nat)'
      BY <1>2 DEF IInv, TypeOK
    <3>4. QED
      BY <2>1, <2>2, <2>3, <3>1, <3>2, <3>3 DEF TypeOK
<1>5. PendingInv' /\ OwnInv'
  BY <1>2 DEF PendingInv, OwnInv, Looking, Creating, Created
<1>6. OldInv' /\ ResultInv'
  BY <1>2 DEF OldInv, Grabbed, ResultInv
<1>7. QED
  BY <1>4, <1>5, <1>6 DEF IInv

LEMMA WrittenLateKeeps ==
  ASSUME IInv, NEW o \in late, WrittenLate(o)
  PROVE  IInv'
<1>1. Now \in Nat /\ Now' = Now /\ \A k : Own(k)' = Own(k)
  BY SameImports DEF IInv, WrittenLate, Continues
<1>2. UNCHANGED <<stage, pending, imports, loading, toDelete, late, result, faults, settings>>
  BY DEF WrittenLate, Effect, Continues
<1>3. o.doc \in LateDocs /\ LateDocs' = LateDocs
  BY <1>2 DEF LateDocs
<1>4. \/ docs' = docs \cup {o.doc} /\ deleted' = deleted
      \/ o.op = "delete" /\ docs' = docs /\ deleted' = deleted \cup {o.doc}
  BY DEF IInv, TypeOK, WrittenLate, Effect
<1>5. o.op = "delete" => o.doc.by \in 1 .. Now - 1 /\ o.doc.kind \in Kinds
  BY DEF IInv, TypeOK
<1>6. TypeOK'
  <2>1. imports' \in Seq({Contents(c) : c \in Configs})
    BY <1>2 DEF IInv, TypeOK
  <2>2. (\A d \in docs \cup LateDocs : d.by \in 1 .. Now /\ d.kind \in Kinds)'
    BY <1>1, <1>3, <1>4 DEF IInv, TypeOK
  <2>3. (\A d \in deleted \cup toDelete \cup {p.doc : p \in {q \in late : q.op = "delete"}} :
           d.by \in 1 .. Now - 1 /\ d.kind \in Kinds)'
    BY <1>1, <1>2, <1>4, <1>5 DEF IInv, TypeOK
  <2>4. QED
    BY <1>2, <1>4, <2>1, <2>2, <2>3 DEF IInv, TypeOK
<1>7. PendingInv'
  BY <1>1, <1>2 DEF IInv, PendingInv
<1>8. OwnInv'
  <2>1. stage # "idle" => o.doc.by # Now
    BY <1>3 DEF IInv, OwnInv
  <2>2. stage \in Looking => stage # "idle"
    BY DEF Looking
  <2>3. QED
    BY <1>1, <1>2, <1>3, <1>4, <2>1, <2>2 DEF IInv, OwnInv
<1>9. OldInv'
  BY <1>1, <1>2, <1>3, <1>4 DEF IInv, OldInv
<1>10. ResultInv'
  <2> DEFINE own == UNION {Batch(Now, kind) : kind \in Others}
             left == {d \in docs \ deleted : d.kind # "icon"}
  <2> SUFFICES ASSUME result = "ok"
               PROVE  OneConfigIsLeft'
    BY <1>2 DEF IInv, ResultInv
  <2>1. own \subseteq left /\ left \subseteq own \cup LateDocs
    BY DEF IInv, ResultInv, OneConfigIsLeft, Others
  <2>2. \A k : Batch(Now, k)' = Batch(Now, k)
    BY <1>1, BatchIs DEF Own
  <2>3. own' = own
    BY <2>2
  <2>4. \A d \in own : d.by = Now
    BY BatchIs, DocParts DEF Own
  <2>5. \A d \in own : d \in left'
    <3>1. TAKE d \in own
    <3>2. d \in docs \ deleted /\ d.kind # "icon" /\ d.by = Now
      BY <2>1, <2>4
    <3>3. QED
      BY <1>1, <1>4, <1>5, <3>2
  <2>6. \A d \in left' : d \in left \/ d \in LateDocs
    BY <1>3, <1>4
  <2> HIDE DEF own, left
  <2>7. own' \subseteq left' /\ left' \subseteq own' \cup LateDocs'
    BY <1>3, <2>1, <2>3, <2>5, <2>6
  <2>8. QED
    BY <2>7 DEF OneConfigIsLeft, own, left, Others
<1>11. QED
  BY <1>6, <1>7, <1>8, <1>9, <1>10 DEF IInv

\* No step breaks the invariant.
LEMMA StepKeeps == IInv /\ [Next]_vars => IInv'
<1> SUFFICES ASSUME IInv, [Next]_vars PROVE IInv'
  OBVIOUS
<1>1. ASSUME NEW c \in Configs, ImportConfig(c) PROVE IInv'
  BY <1>1, ImportConfigKeeps
<1>2. ASSUME NEW o \in pending, Written(o) PROVE IInv'
  BY <1>2, WrittenKeeps
<1>3. ASSUME NEW o \in pending, WriteFails(o) PROVE IInv'
  BY <1>3, WriteFailsKeeps
<1>4. ASSUME NEW o \in late, WrittenLate(o) PROVE IInv'
  BY <1>4, WrittenLateKeeps
<1>5. ASSUME UNCHANGED vars PROVE IInv'
  <2>1. Now \in Nat /\ Now' = Now /\ \A k : Own(k)' = Own(k)
    BY <1>5, SameImports DEF IInv, vars
  <2>2. \A k : Batch(Now, k)' = Batch(Now, k)
    BY <2>1, BatchIs DEF Own
  <2>3. TypeOK' /\ LateDocs' = LateDocs
    BY <1>5, <2>1 DEF IInv, TypeOK, LateDocs, vars, store
  <2>4. PendingInv' /\ OwnInv' /\ OldInv'
    BY <1>5, <2>1, <2>3 DEF IInv, PendingInv, OwnInv, OldInv, vars, store
  <2>5. ResultInv'
    BY <1>5, <2>2, <2>3 DEF IInv, ResultInv, OneConfigIsLeft, vars, store
  <2>6. QED
    BY <2>3, <2>4, <2>5 DEF IInv
<1>6. QED
  BY <1>1, <1>2, <1>3, <1>4, <1>5, GrabDocsKeeps, ReadConfigKeeps, CreateIconKeeps,
     CreateFieldsKeeps, CreatePresetsKeeps, PutTranslationsKeeps, SetSettingsKeeps,
     EndImportKeeps, CrashKeeps DEF Next

-----------------------------------------------------------------------------
\* The inductive invariant holds throughout.
THEOREM InvariantHolds == Spec => []IInv
BY InitHolds, StepKeeps, PTL DEF Spec

\* Every variable has its type, the default presets are documents, and only
\* documents of earlier imports are deleted.
THEOREM TypeCorrect == Spec => []TypeOK
<1>1. IInv => TypeOK
  BY DEF IInv
<1>2. QED
  BY InvariantHolds, <1>1, PTL

\* mapeo-project.js: an import that goes through leaves its own presets, fields
\* and translations and no others but those a failed import was still writing.
THEOREM OneConfigLeft == Spec => []OneConfigIsLeft
<1>1. IInv => OneConfigIsLeft
  BY DEF IInv, ResultInv, OneConfigIsLeft
<1>2. QED
  BY InvariantHolds, <1>1, PTL

-----------------------------------------------------------------------------
(***************************************************************************)
(* The default presets hold.  What they stand on is said of the import     *)
(* they are of: it was written as a whole, what its presets refer to was   *)
(* found, and everything that was deleted, or is to be, is older.          *)
(***************************************************************************)
AllFound(n) == \A p \in Range(Items(n, "preset")) : \A r \in PresetRefs(n, p) : ~ IsMissing(r)
Served(d) ==
  /\ d \in Batch(d.by, "preset") /\ AllFound(d.by)
  /\ \A kind \in Kinds : Batch(d.by, kind) \subseteq docs

Deletes == deleted \cup {o.doc : o \in {p \in late : p.op = "delete"}}
WithIcons == {"fields", "presets", "translations", "delete"}
WithPresets == WithIcons \ {"fields"}

StoredInv ==
  /\ Index(docs \ deleted) \subseteq translated
  /\ stage \in WithIcons => Own("icon") \subseteq docs
  /\ stage \in WithPresets => AllFound(Now)
  /\ \A d \in settings : Served(d) /\ \A e \in Deletes : e.by < d.by
  /\ stage = "delete" => \A d \in settings : d.by = Now

\* Ref(), of any items.
RefIn(items, n, kind, name) ==
  LET named == Indices(items, LAMBDA x : x.name = name)
  IN Doc(n, kind, IF named = {} THEN 0 ELSE CHOOSE i \in named : \A j \in named : j <= i)

LEMMA RefIs ==
  \A n, kind, name : /\ Ref(n, kind, name) = RefIn(Items(n, kind), n, kind, name)
                     /\ Ref(n, kind, name)' = RefIn(Items(n, kind)', n, kind, name)
BY DEF Ref, RefIn, Indices, Items

\* Finitely many numbers have a largest.
LEMMA LargestExists ==
  ASSUME NEW len \in Nat, NEW S, S \subseteq 1 .. len, S # {}
  PROVE  \E i \in S : \A j \in S : j <= i
<1> DEFINE T == {len - i : i \in S}
<1>1. T \subseteq Nat /\ T # {}
  <2>1. PICK i \in S : TRUE
    OBVIOUS
  <2>2. len - i \in T
    OBVIOUS
  <2>3. QED
    BY <2>2
<1>2. PICK t \in T : \A u \in T : ~ (<<u, t>> \in OpToRel(<, Nat))
  <2> HIDE DEF T
  <2>1. QED
    BY <1>1, WFMin, NatLessThanWellFounded
<1>3. PICK i \in S : t = len - i
  OBVIOUS
<1>4. ASSUME NEW j \in S PROVE j <= i
  <2>1. len - j \in T /\ len - j \in Nat /\ t \in Nat
    BY <1>1
  <2>2. ~ (len - j < t)
    BY <1>2, <2>1 DEF OpToRel
  <2>3. QED
    BY <1>3, <2>2
<1>5. QED
  BY <1>4

\* What there is of an earlier import, or of this one.
LEMMA ItemsAreList ==
  ASSUME TypeOK, NEW n \in 1 .. Now, NEW kind \in Kinds
  PROVE  Len(Items(n, kind)) \in Nat /\ DOMAIN Items(n, kind) = 1 .. Len(Items(n, kind))
<1> DEFINE S == {Contents(c) : c \in Configs}
<1>1. imports \in Seq(S)
  BY DEF TypeOK
<1>2. \A x \in S : Len(x[kind]) \in Nat /\ DOMAIN x[kind] = 1 .. Len(x[kind])
  BY ArchivesAreFinite
<1> HIDE DEF S
<1>3. imports[n] \in S
  BY <1>1 DEF Now
<1>4. QED
  BY <1>2, <1>3 DEF Items

\* A document that was found by its name is one of the import's.
LEMMA FoundIsItem ==
  ASSUME TypeOK, NEW n \in 1 .. Now, NEW kind \in Kinds, NEW name,
         ~ IsMissing(Ref(n, kind, name))
  PROVE  Ref(n, kind, name) \in Batch(n, kind)
<1> DEFINE items == Items(n, kind)
           named == {i \in 1 .. Len(items) : items[i].name = name}
           no == IF named = {} THEN 0 ELSE CHOOSE i \in named : \A j \in named : j <= i
<1>1. Len(items) \in Nat /\ DOMAIN items = 1 .. Len(items)
  BY ItemsAreList
<1>2. Ref(n, kind, name) = Doc(n, kind, no)
  BY DEF Ref, Indices
<1>3. named # {}
  BY <1>2 DEF IsMissing, Doc
<1>4. \E i \in named : \A j \in named : j <= i
  <2>1. named \subseteq 1 .. Len(items)
    OBVIOUS
  <2> HIDE DEF named, items
  <2>2. QED
    BY <1>1, <1>3, <2>1, LargestExists
<1>5. no \in named
  <2> HIDE DEF named
  <2>1. QED
    BY <1>3, <1>4
<1>6. no \in DOMAIN items
  BY <1>1, <1>5
<1> HIDE DEF no
<1>7. QED
  BY <1>2, <1>6 DEF Batch

\* What is indexed is of the documents that are given, each for itself.
LEMMA IndexIs ==
  /\ \A S, T : Index(S \cup T) = Index(S) \cup Index(T)
  /\ \A S, T : S \subseteq T => Index(S) \subseteq Index(T)
  /\ \A S : \A d \in S : d.kind = "translation" => <<Item(d).language, Item(d).type>> \in Index(S)
BY DEF Index

\* The settings hold where the invariant does.
LEMMA StoredIsEnough == TypeOK /\ StoredInv => SettingsHold
<1> SUFFICES ASSUME TypeOK, StoredInv, NEW d \in settings
             PROVE  LET used == {d} \cup PresetRefs(d.by, Item(d))
                    IN /\ used \subseteq docs \ deleted
                       /\ \A t \in Range(Items(d.by, "translation")) :
                            Ref(d.by, t.type, t.name) \in used
                              => \E found \in Translate(Ref(d.by, t.type, t.name), t.language, t.region) :
                                   found \notin deleted /\ Item(found) = t
  BY DEF SettingsHold
<1> DEFINE n == d.by
           used == {d} \cup PresetRefs(n, Item(d))
<1>1. n \in 1 .. Now /\ \A e \in deleted : e.by # n
  <2>1. n \in Nat /\ n \in 1 .. Now /\ \A e \in deleted : e.by \in Nat /\ e.by < n
    BY DEF TypeOK, StoredInv, Deletes
  <2>2. QED
    BY <2>1
<1>2. d \in Batch(n, "preset") /\ AllFound(n) /\ \A kind \in Kinds : Batch(n, kind) \subseteq docs \ deleted
  <2>1. \A kind : \A e \in Batch(n, kind) : e.by = n
    BY DEF Batch, Doc
  <2>2. QED
    BY <1>1, <2>1 DEF StoredInv, Served
<1>3. Item(d) \in Range(Items(n, "preset")) /\ d.kind = "preset"
  BY <1>2 DEF Batch, Doc, Item, Range
<1>4. \A r \in PresetRefs(n, Item(d)) : r \in docs \ deleted
  <2> TAKE r \in PresetRefs(n, Item(d))
  <2>1. PICK kind, name : kind \in {"icon", "field"} /\ r = Ref(n, kind, name)
    BY DEF PresetRefs
  <2>2. ~ IsMissing(r)
    BY <1>2, <1>3 DEF AllFound
  <2>3. kind \in Kinds
    BY <2>1 DEF Kinds
  <2>4. r \in Batch(n, kind)
    BY <1>1, <2>1, <2>2, <2>3, FoundIsItem
  <2>5. QED
    BY <1>2, <2>3, <2>4
<1>5. used \subseteq docs \ deleted
  BY <1>2, <1>4 DEF Kinds
<1>6. ASSUME NEW t \in Range(Items(n, "translation"))
      PROVE  \E found \in Translate(Ref(n, t.type, t.name), t.language, t.region) :
               found \notin deleted /\ Item(found) = t
  <2>1. PICK i \in DOMAIN Items(n, "translation") : t = Items(n, "translation")[i]
    BY <1>6 DEF Range
  <2> DEFINE found == Doc(n, "translation", i)
             of == Ref(n, t.type, t.name)
  <2>2. found \in docs \ deleted
    BY <1>2 DEF Batch, Kinds
  <2>3. Item(found) = t /\ found.by = n /\ found.kind = "translation"
    BY <2>1 DEF Item, Doc
  <2>4. of.kind = t.type
    BY DEF Ref, Doc
  <2>5. <<t.language, t.type>> \in translated
    <3> HIDE DEF found
    <3>1. QED
      BY <2>2, <2>3, IndexIs DEF StoredInv
  <2> HIDE DEF found, of
  <2>6. found \in GetTranslations(of, t.language, t.region)
    BY <2>2, <2>3, <2>4, <2>5 DEF GetTranslations, of
  <2>7. found \in Translate(of, t.language, t.region)
    BY <2>6 DEF Translate
  <2>8. QED
    BY <2>2, <2>3, <2>7 DEF of
<1>7. QED
  BY <1>5, <1>6

-----------------------------------------------------------------------------
\* What was read of an archive stays what it was.
LEMMA ItemsStay ==
  ASSUME IInv, [Next]_vars
  PROVE  /\ Now \in Nat /\ Now <= Now' /\ Now' \in Nat
         /\ UNCHANGED imports => Now' = Now
         /\ \A n \in 1 .. Now : \A kind : Items(n, kind)' = Items(n, kind)
<1> DEFINE S == {Contents(c) : c \in Configs}
<1>1. imports \in Seq(S)
  BY DEF IInv, TypeOK
<1>2. Now \in Nat
  <2> HIDE DEF S
  <2>1. QED
    BY <1>1 DEF Now
<1>3. ASSUME UNCHANGED imports
      PROVE  Now' = Now /\ \A n \in 1 .. Now : \A kind : Items(n, kind)' = Items(n, kind)
  BY <1>3 DEF Now, Items
<1>4. ASSUME NEW c \in Configs, ImportConfig(c)
      PROVE  Now' = Now + 1 /\ \A n \in 1 .. Now : \A kind : Items(n, kind)' = Items(n, kind)
  <2>1. Contents(c) \in S /\ imports' = Append(imports, Contents(c))
    BY <1>4 DEF ImportConfig
  <2> HIDE DEF S
  <2>2. Now' = Now + 1 /\ \A n \in 1 .. Now : imports'[n] = imports[n]
    BY <1>1, <2>1 DEF Now
  <2>3. QED
    BY <2>2 DEF Items
<1>5. UNCHANGED imports \/ \E c \in Configs : ImportConfig(c)
  BY DEF Next, vars, GrabDocs, ReadConfig, CreateIcon, CreateFields, CreatePresets, PutTranslations,
         SetSettings, EndImport, Crash, Written, WriteFails, WrittenLate, Continues
<1>6. QED
  BY <1>2, <1>3, <1>4, <1>5

\* And so does what is found in it.
LEMMA FoundStays ==
  ASSUME IInv, [Next]_vars, NEW n \in 1 .. Now
  PROVE  /\ \A kind : Batch(n, kind)' = Batch(n, kind)
         /\ AllFound(n)' = AllFound(n)
<1>1. \A kind : Items(n, kind)' = Items(n, kind)
  BY ItemsStay
<1>2. \A kind : Batch(n, kind)' = Batch(n, kind)
  BY <1>1 DEF Batch
<1>3. \A kind, name : Ref(n, kind, name)' = Ref(n, kind, name)
  BY <1>1, RefIs
<1>4. \A p : PresetRefs(n, p)' = PresetRefs(n, p)
  BY <1>3 DEF PresetRefs
<1>5. AllFound(n)' = AllFound(n)
  BY <1>1, <1>4 DEF AllFound, IsMissing
<1>6. QED
  BY <1>2, <1>5

LEMMA ServedStays ==
  ASSUME IInv, [Next]_vars, NEW d, d.by \in 1 .. Now, Served(d), docs \subseteq docs'
  PROVE  Served(d)'
<1>1. /\ \A kind : Batch(d.by, kind)' = Batch(d.by, kind)
      /\ AllFound(d.by)' = AllFound(d.by)
  BY FoundStays
<1>2. QED
  BY <1>1 DEF Served

\* Of the documents none is lost.
LEMMA DocsStay ==
  ASSUME [Next]_vars
  PROVE  docs \subseteq docs' /\ deleted \subseteq deleted'
BY DEF Next, vars, store, ImportConfig, GrabDocs, ReadConfig, CreateIcon, CreateFields, CreatePresets,
       PutTranslations, SetSettings, EndImport, Crash, Written, WriteFails, WrittenLate, Effect

\* Of a step that puts translations, whichever they are.
LEMMA PutsAreCreates ==
  ASSUME PutTranslations
  PROVE  /\ stage = "presets" /\ UNCHANGED <<store, imports>>
         /\ \E ps : /\ \A o \in ps : o.op = "create"
                    /\ (Goto("translations", ps) /\ UNCHANGED late) \/ Fails(ps)
<1> DEFINE all == Items(Now, "translation")
           found == TakeUntil(all, LAMBDA t : t.type = "error" \/ IsMissing(Ref(Now, t.type, t.name)))
           ps == Create({Doc(Now, "translation", i) : i \in DOMAIN found})
<1>1. IF found = all THEN Goto("translations", ps) /\ UNCHANGED <<loading, toDelete, late, result>>
                     ELSE Fails(ps)
  BY DEF PutTranslations
<1>2. stage = "presets" /\ UNCHANGED <<store, imports>>
  BY DEF PutTranslations
<1> HIDE DEF found, all
<1>3. \A o \in ps : o.op = "create"
  BY DEF Create
<1> HIDE DEF ps
<1>4. QED
  BY <1>1, <1>2, <1>3

\* What is deleted, or will be by a write of before, is older than this import.
LEMMA DeletesAreOld ==
  ASSUME IInv, [Next]_vars
  PROVE  \A e \in Deletes' : e \in Deletes \/ (stage = "delete" /\ e.by < Now)
<1>1. ASSUME NEW o \in pending, Written(o) PROVE Deletes' \subseteq Deletes \cup (IF o.op = "delete" THEN {o.doc} ELSE {})
  BY <1>1 DEF Written, Effect, Continues, Deletes
<1>2. ASSUME NEW o \in pending, WriteFails(o)
      PROVE  Deletes' \subseteq Deletes \cup {p.doc : p \in {q \in pending : q.op = "delete"}}
  BY <1>2 DEF WriteFails, Fails, store, Deletes
<1>3. ASSUME NEW o \in late, WrittenLate(o) PROVE Deletes' \subseteq Deletes
  BY <1>3, PendingParts DEF IInv, TypeOK, WrittenLate, Effect, Continues, Deletes
<1>4. ASSUME NEW c \in Configs, ImportConfig(c) PROVE Deletes' = Deletes
  BY <1>4 DEF ImportConfig, store, Deletes
<1>5. ASSUME GrabDocs \/ CreateIcon \/ CreateFields \/ SetSettings \/ EndImport \/ UNCHANGED vars PROVE Deletes' = Deletes
  BY <1>5 DEF GrabDocs, CreateIcon, CreateFields, SetSettings, EndImport, Continues, vars, store, Deletes
<1>6. ASSUME ReadConfig \/ CreatePresets \/ PutTranslations PROVE Deletes' = Deletes
  <2>1. late' = late \/ \E ps : late' = late \cup ps /\ \A o \in ps : o.op = "create"
    <3>1. CASE PutTranslations
      BY <3>1, PutsAreCreates DEF Goto, Fails
    <3>2. CASE ReadConfig \/ CreatePresets
      BY <3>2 DEF ReadConfig, CreatePresets, Goto, Fails
    <3>3. QED
      BY <1>6, <3>1, <3>2
  <2>2. deleted' = deleted
    BY <1>6 DEF ReadConfig, CreatePresets, PutTranslations, store
  <2>3. QED
    BY <2>1, <2>2 DEF Deletes
<1>7. ASSUME Crash PROVE Deletes' \subseteq Deletes
  BY <1>7 DEF Crash, Deletes
<1>8. \A o \in pending : o.op = "delete" => stage = "delete" /\ o.doc.by < Now
  BY PendingParts
<1>9. QED
  BY <1>1, <1>2, <1>3, <1>4, <1>5, <1>6, <1>7, <1>8 DEF Next

\* Where the settings and the later stages come from.
LEMMA WhereFrom ==
  ASSUME [Next]_vars
  PROVE  /\ settings' = settings \/ SetSettings
         /\ stage' = "delete" => SetSettings \/ (stage = "delete" /\ UNCHANGED imports)
         /\ stage' \in WithPresets =>
              \/ stage \in WithPresets /\ UNCHANGED imports
              \/ CreatePresets /\ stage' = "presets"
         /\ stage' \in WithIcons =>
              \/ stage \in WithIcons /\ UNCHANGED imports
              \/ CreateFields
<1> USE DEF WithIcons, WithPresets
<1>1. CASE PutTranslations
  BY <1>1, PutsAreCreates DEF store, Goto, Fails
<1>2. CASE GrabDocs
  BY <1>2 DEF GrabDocs, AfterGrab, Grabs, store
<1>3. CASE ReadConfig \/ CreateIcon \/ CreateFields \/ CreatePresets
  BY <1>3 DEF ReadConfig, CreateIcon, CreateFields, CreatePresets, Continues, Goto, Fails, store
<1>4. CASE SetSettings \/ EndImport \/ Crash
  BY <1>4 DEF SetSettings, EndImport, Crash, Continues, Goto, store
<1>5. CASE \E o \in pending : Written(o) \/ WriteFails(o)
  BY <1>5 DEF Written, WriteFails, Effect, Continues, Fails, store
<1>6. CASE (\E o \in late : WrittenLate(o)) \/ UNCHANGED vars \/ \E c \in Configs : ImportConfig(c)
  BY <1>6 DEF WrittenLate, ImportConfig, Effect, Continues, vars, store
<1>7. QED
  BY <1>1, <1>2, <1>3, <1>4, <1>5, <1>6 DEF Next

-----------------------------------------------------------------------------
\* Index(), of any archives.
IndexIn(is, ds) == {<<t.language, t.type>> : t \in {is[d.by][d.kind][d.no] : d \in {e \in ds : e.kind = "translation"}}}

\* What is indexed after a step: the documents of before, and new ones.
LEMMA IndexGrows ==
  ASSUME IInv, [Next]_vars, NEW New, (docs \ deleted)' \subseteq (docs \ deleted) \cup New, \A d \in New : d.by \in 1 .. Now
  PROVE  Index(docs \ deleted)' \subseteq Index(docs \ deleted) \cup Index(New)
<1> DEFINE old == docs \ deleted
           S == old \cup New
<1>1. \A d \in S : imports'[d.by][d.kind] = imports[d.by][d.kind]
  BY ItemsStay DEF IInv, TypeOK, Items
<1>2. IndexIn(imports', S) = IndexIn(imports, S)
  <2> HIDE DEF S
  <2>1. {imports'[d.by][d.kind][d.no] : d \in {e \in S : e.kind = "translation"}}
          = {imports[d.by][d.kind][d.no] : d \in {e \in S : e.kind = "translation"}}
    BY <1>1
  <2>2. QED
    BY <2>1 DEF IndexIn
<1>3. Index(docs \ deleted)' = IndexIn(imports', docs' \ deleted')
  BY DEF Index, IndexIn, Item, Items
<1>4. IndexIn(imports', docs' \ deleted') \subseteq IndexIn(imports', S)
  BY DEF IndexIn
<1>5. IndexIn(imports, S) = Index(old) \cup Index(New)
  BY DEF Index, IndexIn, Item, Items
<1>6. QED
  BY <1>2, <1>3, <1>4, <1>5

LEMMA IndexKeeps ==
  ASSUME IInv, Index(docs \ deleted) \subseteq translated, [Next]_vars
  PROVE  (Index(docs \ deleted) \subseteq translated)'
<1>1. ASSUME NEW o \in pending \cup late, Effect(o), o \in pending => o.doc.by \in 1 .. Now, o \in late => o.doc.by \in 1 .. Now
      PROVE  (Index(docs \ deleted) \subseteq translated)'
  <2> DEFINE New == IF o.op = "create" THEN {o.doc} ELSE {}
  <2>1. (docs \ deleted)' \subseteq (docs \ deleted) \cup New /\ \A d \in New : d.by \in 1 .. Now
    BY <1>1 DEF Effect
  <2>2. translated' = translated \cup Index(New)
    BY <1>1 DEF Effect
  <2> HIDE DEF New
  <2>3. QED
    BY <2>1, <2>2, IndexGrows
<1>2. ASSUME UNCHANGED <<docs, deleted, translated>>
      PROVE  (Index(docs \ deleted) \subseteq translated)'
  <2>1. Index({}) = {}
    BY DEF Index
  <2>2. QED
    BY <1>2, <2>1, IndexGrows
<1>3. CASE Crash
  <2>1. Index(docs \ deleted)' \subseteq Index(docs \ deleted) \cup Index({})
    BY <1>3, IndexGrows DEF Crash
  <2>2. Index({}) = {}
    BY DEF Index
  <2>3. QED
    BY <1>3, <2>1, <2>2 DEF Crash
<1>4. CASE \E o \in pending : Written(o)
  <2>1. PICK o \in pending : Written(o)
    BY <1>4
  <2>2. o.doc.by \in 1 .. Now
    BY PendingParts
  <2>3. o \in late => o.doc.by \in 1 .. Now
    BY DEF IInv, TypeOK, LateDocs
  <2>4. QED
    BY <1>1, <2>1, <2>2, <2>3 DEF Written
<1>5. CASE \E o \in late : WrittenLate(o)
  <2>1. PICK o \in late : WrittenLate(o)
    BY <1>5
  <2>2. o \in pending => o.doc.by \in 1 .. Now
    BY PendingParts
  <2>3. o.doc.by \in 1 .. Now
    BY DEF IInv, TypeOK, LateDocs
  <2>4. QED
    BY <1>1, <2>1, <2>2, <2>3 DEF WrittenLate
<1>6. CASE \E o \in pending : WriteFails(o)
  BY <1>2, <1>6 DEF WriteFails, store
<1>7. CASE SetSettings \/ EndImport \/ CreateIcon \/ CreateFields \/ GrabDocs
  BY <1>2, <1>7 DEF SetSettings, EndImport, CreateIcon, CreateFields, GrabDocs, store
<1>8. CASE ReadConfig \/ CreatePresets \/ PutTranslations \/ UNCHANGED vars
  BY <1>2, <1>8 DEF ReadConfig, CreatePresets, PutTranslations, vars, store
<1>9. CASE \E c \in Configs : ImportConfig(c)
  BY <1>2, <1>9 DEF ImportConfig, store
<1>10. QED
  BY <1>3, <1>4, <1>5, <1>6, <1>7, <1>8, <1>9 DEF Next

\* The settings are of an import that was written as a whole.
LEMMA SetSettingsStores ==
  ASSUME IInv, StoredInv, SetSettings
  PROVE  /\ \A d \in settings' : Served(d)' /\ \A e \in Deletes' : e.by < d.by
         /\ \A d \in settings' : d.by = Now'
<1> SUFFICES ASSUME NEW d \in settings'
             PROVE  Served(d)' /\ d.by = Now' /\ \A e \in Deletes' : e.by < d.by
  OBVIOUS
<1>1. Now' = Now /\ Now \in 1 .. Now /\ docs' = docs /\ Deletes' = Deletes
  <2>1. stage = "translations" /\ UNCHANGED <<imports, docs, deleted, late>>
    BY DEF SetSettings, Continues
  <2>2. Now \in Nat /\ Now' = Now
    BY <2>1, SameImports DEF IInv
  <2>3. QED
    BY <2>1, <2>2 DEF IInv, PendingInv, Deletes
<1>2. d \in Batch(Now, "preset") /\ d.by = Now
  BY DEF SetSettings, Batch, Doc
<1>3. \A kind \in Kinds : Batch(Now, kind) \subseteq docs
  <2>1. stage = "translations" /\ pending = {}
    BY DEF SetSettings
  <2>2. Created[stage] = Others
    BY <2>1 DEF Created
  <2>3. \A kind \in Others : Own(kind) \subseteq docs
    BY <2>1, <2>2 DEF IInv, OwnInv
  <2>4. Own("icon") \subseteq docs
    BY <2>1 DEF StoredInv, WithIcons
  <2>5. \A kind : Batch(Now, kind) = Own(kind)
    BY BatchIs DEF Own
  <2>6. QED
    BY <2>3, <2>4, <2>5 DEF Others
<1>4. Served(d)
  BY <1>2, <1>3 DEF Served, StoredInv, SetSettings, WithPresets, WithIcons
<1>5. Served(d)'
  BY <1>1, <1>2, <1>4, ServedStays DEF Next
<1>6. \A e \in Deletes : e.by < Now
  BY <1>1 DEF IInv, TypeOK, Deletes
<1>7. QED
  BY <1>1, <1>2, <1>5, <1>6

\* No step breaks what the settings stand on.
LEMMA StoredKeeps == IInv /\ StoredInv /\ [Next]_vars => StoredInv'
<1> SUFFICES ASSUME IInv, StoredInv, [Next]_vars PROVE StoredInv'
  OBVIOUS
<1>1. (Index(docs \ deleted) \subseteq translated)'
  BY IndexKeeps DEF StoredInv
<1>2. (stage \in WithIcons => Own("icon") \subseteq docs)'
  <2> SUFFICES ASSUME stage' \in WithIcons PROVE (Own("icon") \subseteq docs)'
    BY DEF WithIcons
  <2>1. UNCHANGED imports /\ Own("icon") \subseteq docs
    <3>1. CASE CreateFields
      BY <3>1, BatchIs DEF CreateFields, Continues, Own
    <3>2. CASE stage \in WithIcons /\ UNCHANGED imports
      BY <3>2 DEF StoredInv
    <3>3. QED
      BY <3>1, <3>2, WhereFrom
  <2>2. Own("icon")' = Own("icon") /\ docs \subseteq docs'
    BY <2>1, SameImports, DocsStay DEF IInv
  <2>3. QED
    BY <2>1, <2>2
<1>3. (stage \in WithPresets => AllFound(Now))'
  <2> SUFFICES ASSUME stage' \in WithPresets PROVE AllFound(Now)'
    BY DEF WithPresets
  <2>1. UNCHANGED imports /\ AllFound(Now) /\ Now \in 1 .. Now
    <3>1. Now \in Nat /\ (stage # "idle" => Now > 0)
      BY ItemsStay DEF IInv, PendingInv
    <3>2. CASE CreatePresets /\ stage' = "presets"
      <4>1. UNCHANGED imports /\ stage # "idle"
        BY <3>2 DEF CreatePresets
      <4>2. AllFound(Now)
        BY <3>2 DEF CreatePresets, Fails, AllFound
      <4>3. QED
        BY <3>1, <4>1, <4>2
    <3>3. CASE stage \in WithPresets /\ UNCHANGED imports
      BY <3>1, <3>3 DEF StoredInv, WithPresets, WithIcons
    <3>4. QED
      BY <3>2, <3>3, WhereFrom
  <2>2. Now' = Now
    BY <2>1, ItemsStay
  <2>3. AllFound(Now)' = AllFound(Now)
    <3>1. \A n \in 1 .. Now : AllFound(n)' = AllFound(n)
      BY FoundStays
    <3>2. AllFound(Now)' = AllFound(Now)
      BY <2>1, <2>2, <3>1 DEF AllFound, Items, PresetRefs, Ref, Indices
    <3>3. QED
      BY <3>2
  <2>4. QED
    BY <2>1, <2>3
<1>4. /\ (\A d \in settings : Served(d) /\ \A e \in Deletes : e.by < d.by)'
      /\ (stage = "delete" => \A d \in settings : d.by = Now)'
  <2>1. CASE SetSettings
    BY <2>1, SetSettingsStores
  <2>2. CASE settings' = settings /\ (stage' = "delete" => stage = "delete" /\ UNCHANGED imports)
    <3>1. ASSUME NEW d \in settings PROVE Served(d)' /\ \A e \in Deletes' : e.by < d.by
      <4>1. d.by \in 1 .. Now
        BY DEF IInv, TypeOK
      <4>2. Served(d)'
        BY <4>1, ServedStays, DocsStay DEF StoredInv
      <4>3. \A e \in Deletes' : e.by < d.by
        BY DeletesAreOld DEF StoredInv
      <4>4. QED
        BY <4>2, <4>3
    <3>2. (stage = "delete" => \A d \in settings : d.by = Now)'
      BY <2>2, ItemsStay DEF StoredInv
    <3>3. QED
      BY <2>2, <3>1, <3>2
  <2>3. QED
    BY <2>1, <2>2, WhereFrom
<1>5. QED
  BY <1>1, <1>2, <1>3, <1>4 DEF StoredInv

LEMMA StoredAtFirst == Init => StoredInv
BY DEF Init, StoredInv, WithIcons, WithPresets, Index

\* What the settings stand on holds throughout.
THEOREM StoredHolds == Spec => []StoredInv
<1>1. IInv /\ StoredInv /\ [Next]_vars => StoredInv'
  BY StoredKeeps
<1>2. QED
  BY StoredAtFirst, <1>1, InvariantHolds, PTL DEF Spec

\* mapeo-project.js, translation-api.js: the default presets are there, with
\* the icons and fields they refer to and the translations of them all, however
\* imports fail, are cut off and follow each other.
THEOREM SettingsAreServed == Spec => []SettingsHold
<1>1. IInv /\ StoredInv => SettingsHold
  BY StoredIsEnough DEF IInv
<1>2. QED
  BY InvariantHolds, StoredHolds, <1>1, PTL

-----------------------------------------------------------------------------
(***************************************************************************)
(* The variant that is shown, of any number of them.  Each value has a rank*)
(* (how far it is from the one that is wanted, larger ones after all       *)
(* smaller ones), and of two neighbours of the sorted list the first is not*)
(* of the greater rank: also where the comparison contradicts itself, since*)
(* it does so for equal ranks only.                                        *)
(***************************************************************************)
Rank(target, x) == IF x = target THEN 0 ELSE IF x < target THEN target - x ELSE target + x
VariantRank(wanted, v) ==
  IF Size(v) = Size(wanted) THEN (IF wanted.type = "png" THEN Rank(wanted.density, v.density) ELSE 0)
  ELSE 10 + Rank(Size(wanted), Size(v))

LEMMA VariantTypes ==
  ASSUME NEW v \in Variants
  PROVE  /\ Size(v) \in 1 .. 3 /\ v.density \in 1 .. 3 /\ v.type \in {"png", "svg"}
         /\ v.type = "svg" => v.density = 1
         /\ \A w \in Variants : Size(v) = Size(w) <=> v.size = w.size
BY DEF Variants, Sizes, Size, SizeAsNumeric

LEMMA SortsByRank ==
  ASSUME NEW target \in 1 .. 3, NEW a \in 1 .. 3, NEW b \in 1 .. 3
  PROVE  /\ SortValue(target, a, b) <= 0 \/ SortValue(target, b, a) >= 0
              <=> Rank(target, a) <= Rank(target, b)
         /\ Rank(target, a) \in 0 .. 6 /\ (a = target <=> Rank(target, a) = 0)
BY DEF SortValue, Rank

LEMMA NeighboursByRank ==
  ASSUME NEW wanted \in Variants, NEW v \in Variants, NEW w \in Variants
  PROVE  /\ VariantRank(wanted, v) \in Nat
         /\ MayPrecede(wanted, v, w) <=> VariantRank(wanted, v) <= VariantRank(wanted, w)
<1> DEFINE rv == Rank(Size(wanted), Size(v))
           rw == Rank(Size(wanted), Size(w))
           dv == Rank(wanted.density, v.density)
           dw == Rank(wanted.density, w.density)
<1>0. /\ Size(v) \in 1 .. 3 /\ Size(w) \in 1 .. 3 /\ Size(wanted) \in 1 .. 3
      /\ v.density \in 1 .. 3 /\ w.density \in 1 .. 3 /\ wanted.density \in 1 .. 3
      /\ wanted.type \in {"png", "svg"}
  BY VariantTypes
<1>1. /\ rv \in 0 .. 6 /\ rw \in 0 .. 6 /\ dv \in 0 .. 6 /\ dw \in 0 .. 6
      /\ Size(v) = Size(wanted) <=> rv = 0
      /\ Size(w) = Size(wanted) <=> rw = 0
      /\ wanted.type = "svg" \/ wanted.type = "png"
  BY <1>0, SortsByRank
<1>2. /\ VariantRank(wanted, v) = IF rv = 0 THEN (IF wanted.type = "png" THEN dv ELSE 0) ELSE 10 + rv
      /\ VariantRank(wanted, w) = IF rw = 0 THEN (IF wanted.type = "png" THEN dw ELSE 0) ELSE 10 + rw
  BY <1>1 DEF VariantRank
<1>3. CASE rv = 0 /\ rw = 0 /\ wanted.type = "png"
  <2>1. MayPrecede(wanted, v, w) <=> \/ SortValue(wanted.density, v.density, w.density) <= 0
                                    \/ SortValue(wanted.density, w.density, v.density) >= 0
    BY <1>1, <1>3 DEF MayPrecede, Compare
  <2>2. MayPrecede(wanted, v, w) <=> dv <= dw
    BY <1>0, <2>1, SortsByRank
  <2> HIDE DEF rv, rw, dv, dw
  <2>3. QED
    BY <1>1, <1>2, <1>3, <2>2
<1>4. CASE rv = 0 /\ rw = 0 /\ wanted.type = "svg"
  <2>1. MayPrecede(wanted, v, w)
    BY <1>1, <1>4 DEF MayPrecede, Compare
  <2> HIDE DEF rv, rw, dv, dw
  <2>2. QED
    BY <1>1, <1>2, <1>4, <2>1
<1>5. CASE ~ (rv = 0 /\ rw = 0)
  <2>1. MayPrecede(wanted, v, w) <=> \/ SortValue(Size(wanted), Size(v), Size(w)) <= 0
                                    \/ SortValue(Size(wanted), Size(w), Size(v)) >= 0
    BY <1>1, <1>5 DEF MayPrecede, Compare
  <2>2. MayPrecede(wanted, v, w) <=> rv <= rw
    BY <1>0, <2>1, SortsByRank
  <2> HIDE DEF rv, rw, dv, dw
  <2>3. QED
    BY <1>1, <1>2, <1>5, <2>2
<1>6. QED
  BY <1>1, <1>3, <1>4, <1>5

\* Induction: what 0 is in, and with every number the next, all are in.
LEMMA SetInduction ==
  ASSUME NEW S, 0 \in S, \A n \in Nat : n \in S => n + 1 \in S
  PROVE  \A n \in Nat : n \in S
<1> DEFINE T == Nat \ S
<1> SUFFICES ASSUME T # {} PROVE FALSE
  OBVIOUS
<1>1. PICK t \in T : \A u \in T : ~ (<<u, t>> \in OpToRel(<, Nat))
  <2>1. T \subseteq Nat
    OBVIOUS
  <2> HIDE DEF T
  <2>2. QED
    BY <2>1, WFMin, NatLessThanWellFounded
<1>2. t \in Nat /\ t # 0
  OBVIOUS
<1>3. t - 1 \in Nat /\ t = (t - 1) + 1
  BY <1>2
<1>4. <<t - 1, t>> \in OpToRel(<, Nat)
  BY <1>2, <1>3 DEF OpToRel
<1>5. QED
  BY <1>1, <1>2, <1>3, <1>4

\* Along a sorted list the ranks do not fall, so its first has the least.
LEMMA FirstIsLeast ==
  ASSUME NEW wanted \in Variants, NEW variants \in Seq(Variants), OfType(variants, wanted) # {},
         NEW best \in BestVariants(variants, wanted)
  PROVE  /\ best \in OfType(variants, wanted) /\ OfType(variants, wanted) \subseteq Variants
         /\ \A v \in OfType(variants, wanted) : VariantRank(wanted, best) <= VariantRank(wanted, v)
<1> DEFINE matching == {i \in DOMAIN variants : variants[i].type = wanted.type}
           n == Cardinality(matching)
           rank(v) == VariantRank(wanted, v)
<1>1. PICK order \in SortedMatching(variants, wanted) : best = variants[order[1]]
  BY DEF BestVariants
<1>2. /\ order \in [1 .. n -> matching] /\ \A m \in matching : \E i \in 1 .. n : order[i] = m
      /\ \A i \in 1 .. n - 1 : MayPrecede(wanted, variants[order[i]], variants[order[i + 1]])
  BY <1>1 DEF SortedMatching, Bijection, Surjection
<1>3. n \in Nat
  <2>1. matching \subseteq 1 .. Len(variants) /\ Len(variants) \in Nat
    OBVIOUS
  <2>2. IsFiniteSet(1 .. Len(variants))
    BY <2>1, FS_Interval
  <2> HIDE DEF matching
  <2>3. QED
    BY <2>1, <2>2, FS_Subset, FS_CardinalityType
<1>4. /\ OfType(variants, wanted) = {variants[i] : i \in matching}
      /\ \A i \in matching : variants[i] \in Variants
  BY DEF OfType, Range
<1> HIDE DEF n, matching
<1>5. 1 \in 1 .. n
  BY <1>2, <1>3, <1>4
<1> DEFINE S == {i \in Nat : i + 1 \in 1 .. n => rank(best) <= rank(variants[order[i + 1]])}
<1>6. \A i \in 1 .. n : variants[order[i]] \in Variants /\ rank(variants[order[i]]) \in Nat
  BY <1>2, <1>4, NeighboursByRank
<1>7. 0 \in S
  BY <1>1, <1>5, <1>6
<1>8. ASSUME NEW i \in Nat, i \in S PROVE i + 1 \in S
  <2> SUFFICES ASSUME (i + 1) + 1 \in 1 .. n
               PROVE  rank(best) <= rank(variants[order[(i + 1) + 1]])
    OBVIOUS
  <2>1. i + 1 \in 1 .. n - 1 /\ i + 1 \in 1 .. n
    BY <1>3
  <2>2. rank(best) <= rank(variants[order[i + 1]])
    BY <1>8, <2>1
  <2>3. rank(variants[order[i + 1]]) <= rank(variants[order[(i + 1) + 1]])
    <3>1. MayPrecede(wanted, variants[order[i + 1]], variants[order[(i + 1) + 1]])
      BY <1>2, <2>1
    <3>2. variants[order[i + 1]] \in Variants /\ variants[order[(i + 1) + 1]] \in Variants
      BY <1>6, <2>1
    <3>3. QED
      BY <3>1, <3>2, NeighboursByRank
  <2>4. /\ rank(best) \in Nat /\ rank(variants[order[i + 1]]) \in Nat
        /\ rank(variants[order[(i + 1) + 1]]) \in Nat
    BY <1>1, <1>5, <1>6, <2>1
  <2> HIDE DEF rank
  <2>5. QED
    BY <2>2, <2>3, <2>4
<1>9. \A i \in Nat : i \in S
  <2> HIDE DEF S
  <2>1. QED
    BY <1>7, <1>8, SetInduction
<1>10. ASSUME NEW v \in OfType(variants, wanted) PROVE rank(best) <= rank(v)
  <2>1. PICK i \in 1 .. n : v = variants[order[i]]
    BY <1>2, <1>4
  <2>2. i - 1 \in Nat /\ (i - 1) + 1 = i
    BY <1>3
  <2>3. i - 1 \in S
    BY <1>9, <2>2
  <2>4. rank(best) <= rank(variants[order[(i - 1) + 1]])
    BY <2>2, <2>3
  <2>5. QED
    BY <2>1, <2>2, <2>4
<1>11. best \in OfType(variants, wanted) /\ OfType(variants, wanted) \subseteq Variants
  BY <1>1, <1>2, <1>4, <1>5
<1>12. QED
  BY <1>10, <1>11

\* Of small numbers, the one of the least rank is the closest.
LEMMA ClosestByRank ==
  ASSUME NEW target \in 1 .. 3, NEW values \in SUBSET (1 .. 3), NEW x \in values,
         \A y \in values : Rank(target, x) <= Rank(target, y)
  PROVE  x = Closest(target, values)
<1>1. CASE target \in values
  BY <1>1 DEF Rank, Closest
<1>2. CASE target \notin values
  <2> DEFINE smaller == {y \in values : y < target}
  <2>1. CASE smaller = {}
    <3>1. \A y \in values : x <= y
      BY <1>2, <2>1 DEF Rank
    <3>2. \A z \in values : (\A y \in values : z <= y) => z = x
      BY <3>1
    <3>3. x = CHOOSE z \in values : \A y \in values : z <= y
      BY <3>1, <3>2
    <3>4. QED
      BY <1>2, <2>1, <3>3 DEF Closest
  <2>2. CASE smaller # {}
    <3>1. x \in smaller /\ \A y \in smaller : y <= x
      <4>1. PICK s \in smaller : TRUE
        BY <2>2
      <4>2. x < target
        BY <1>2, <4>1 DEF Rank
      <4>3. QED
        BY <1>2, <4>2 DEF Rank
    <3>2. \A z \in smaller : (\A y \in smaller : y <= z) => z = x
      BY <3>1
    <3>3. x = CHOOSE z \in smaller : \A y \in smaller : y <= z
      <4> HIDE DEF smaller
      <4>1. QED
        BY <3>1, <3>2
    <3>4. QED
      BY <1>2, <2>2, <3>3 DEF Closest
  <2>3. QED
    BY <2>1, <2>2
<1>3. QED
  BY <1>1, <1>2

\* icon-api.js: of any number of variants, and however the sort takes two equal
\* ones, the one that is shown is of the size closest to the wanted one, and
\* if it is of the wanted size of the closest density.
THEOREM AnyClosestIsShown ==
  \A wanted \in Variants, variants \in Seq(Variants) : ShowsClosest(variants, wanted)
<1> SUFFICES ASSUME NEW wanted \in Variants, NEW variants \in Seq(Variants)
             PROVE  ShowsClosest(variants, wanted)
  OBVIOUS
<1> DEFINE same == OfType(variants, wanted)
<1> SUFFICES ASSUME same # {}, NEW best \in BestVariants(variants, wanted)
             PROVE  /\ best \in same
                    /\ Size(best) = Closest(Size(wanted), {Size(v) : v \in same})
                    /\ best.size = wanted.size
                         => best.density = Closest(wanted.density,
                                                   {v.density : v \in {w \in same : w.size = best.size}})
  BY DEF ShowsClosest
<1>1. best \in same /\ same \subseteq Variants /\ \A v \in same : VariantRank(wanted, best) <= VariantRank(wanted, v)
  BY FirstIsLeast
<1>2. \A v \in same : v.type = wanted.type
  BY DEF OfType
<1> HIDE DEF same
<1>3. ASSUME NEW v \in same PROVE Rank(Size(wanted), Size(best)) <= Rank(Size(wanted), Size(v))
  <2> DEFINE rb == Rank(Size(wanted), Size(best))
             rv == Rank(Size(wanted), Size(v))
             db == Rank(wanted.density, best.density)
             dv == Rank(wanted.density, v.density)
  <2>1. /\ rb \in 0 .. 6 /\ rv \in 0 .. 6 /\ db \in 0 .. 6 /\ dv \in 0 .. 6
        /\ Size(best) = Size(wanted) <=> rb = 0
        /\ Size(v) = Size(wanted) <=> rv = 0
    BY <1>1, VariantTypes, SortsByRank
  <2>2. /\ VariantRank(wanted, best) = IF rb = 0 THEN (IF wanted.type = "png" THEN db ELSE 0) ELSE 10 + rb
        /\ VariantRank(wanted, v) = IF rv = 0 THEN (IF wanted.type = "png" THEN dv ELSE 0) ELSE 10 + rv
    BY <2>1 DEF VariantRank
  <2>3. VariantRank(wanted, best) <= VariantRank(wanted, v)
    BY <1>1
  <2> HIDE DEF rb, rv, db, dv
  <2>4. rb <= rv
    BY <2>1, <2>2, <2>3
  <2>5. QED
    BY <2>4 DEF rb, rv
<1>4. Size(best) = Closest(Size(wanted), {Size(v) : v \in same})
  <2> DEFINE values == {Size(v) : v \in same}
  <2>1. values \in SUBSET (1 .. 3) /\ Size(best) \in values /\ Size(wanted) \in 1 .. 3
    BY <1>1, VariantTypes
  <2>2. \A y \in values : Rank(Size(wanted), Size(best)) <= Rank(Size(wanted), y)
    BY <1>3
  <2> HIDE DEF values
  <2>3. QED
    BY <2>1, <2>2, ClosestByRank DEF values
<1>5. ASSUME best.size = wanted.size
      PROVE  best.density = Closest(wanted.density, {v.density : v \in {w \in same : w.size = best.size}})
  <2> DEFINE values == {v.density : v \in {w \in same : w.size = best.size}}
  <2>1. values \in SUBSET (1 .. 3) /\ best.density \in values /\ wanted.density \in 1 .. 3
    BY <1>1, VariantTypes
  <2>2. ASSUME NEW v \in same, v.size = best.size
        PROVE  Rank(wanted.density, best.density) <= Rank(wanted.density, v.density)
    <3>1. /\ v \in Variants /\ best \in Variants
          /\ Size(v) = Size(wanted) /\ Size(best) = Size(wanted)
      BY <1>1, <1>5, <2>2, VariantTypes
    <3>2. CASE wanted.type = "png"
      <4>1. VariantRank(wanted, best) <= VariantRank(wanted, v)
        BY <1>1
      <4>2. QED
        BY <3>1, <3>2, <4>1 DEF VariantRank
    <3>3. CASE wanted.type = "svg"
      <4>1. v.density = 1 /\ best.density = 1
        BY <1>1, <1>2, <3>1, <3>3, VariantTypes
      <4>2. QED
        BY <2>1, <4>1 DEF Rank
    <3>4. QED
      BY <3>2, <3>3, VariantTypes
  <2>3. \A y \in values : Rank(wanted.density, best.density) <= Rank(wanted.density, y)
    BY <2>2
  <2> HIDE DEF values
  <2>4. QED
    BY <2>1, <2>3, ClosestByRank DEF values
<1>6. QED
  BY <1>1, <1>4, <1>5

\* And so of the three of the run.
THEOREM ThreeClosestAreShown == Spec => []ClosestIsShown
<1>1. ClosestIsShown
  <2>1. ASSUME NEW variants \in [1 .. 3 -> Variants] PROVE variants \in Seq(Variants)
    <3>1. variants[1] \in Variants /\ variants[2] \in Variants /\ variants[3] \in Variants
      OBVIOUS
    <3>2. <<variants[1], variants[2], variants[3]>> \in Seq(Variants)
      BY <3>1
    <3>3. variants = <<variants[1], variants[2], variants[3]>>
      OBVIOUS
    <3> HIDE DEF Variants
    <3>4. QED
      BY <3>2, <3>3
  <2>2. QED
    BY <2>1, AnyClosestIsShown DEF ClosestIsShown
<1>2. QED
  BY <1>1, PTL

=============================================================================
