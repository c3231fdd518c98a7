----------------------------- MODULE ConfigImport ------------------------------
(***************************************************************************)
(* The import of a configuration into a project: what an archive stands    *)
(* for (config-import.js), the documents that are written for it and the   *)
(* ones that are deleted (importConfig of mapeo-project.js), how a document*)
(* is translated (translation-api.js), and which variant of an icon is     *)
(* shown (icon-api.js).                                                    *)
(*                                                                         *)
(* Of an archive only what decides on the course of an import is kept: the *)
(* entries of icons in the order they are sorted in, whether a field or a  *)
(* preset is valid, and what refers to what.  A document is the number of  *)
(* an item among those of its kind in one import.                          *)
(*                                                                         *)
(* External are the archive, the writes of documents (see DataStore), and  *)
(* the sort() of the engine.                                               *)
(* A definition commented as a mutant is used nowhere (see Invites.tla).   *)
(***************************************************************************)
EXTENDS Integers, Sequences, FiniteSets, SequencesExt

CONSTANTS Configs,    \* what may be imported, see Config
          NoIcon,     \* the icon of a preset that names none
          NoRegion,   \* the region of a language that names none
          MaxImports, \* bound: imports
          MaxFaults   \* bound: writes that fail and ends of the program

Sizes == {"small", "medium", "large"}
Pick(s, Test(_)) == SelectSeq(s, Test)
TakeUntil(s, End(_)) == \* the items of s before the first of which End holds
  SubSeq(s, 1, Cardinality({i \in 1 .. Len(s) : \A j \in 1 .. i : ~ End(s[j])}))
Indices(s, Test(_)) == {i \in 1 .. Len(s) : Test(s[i])}

-----------------------------------------------------------------------------
(***************************************************************************)
(* What is read of an archive c.                                           *)
(***************************************************************************)
SUPPORTED_CONFIG_VERSION == 1
IsValidConfigFile(c) == c.fileVersion >= SUPPORTED_CONFIG_VERSION

\* The files there must be, and a version that is supported.
IsValid(c) == c.presetsFile /\ c.metadataFile /\ IsValidConfigFile(c)

\* parseIcon(): what cannot be parsed is left out, with a warning.
IsIcon(e) == e.size \in Sizes /\ e.density \in 1 .. 3 /\ e.extension \in {"png", "svg"} /\ ~ e.tooBig

\* icons(): entries that follow each other and have one name are one icon.
Icons(c) ==
  LET add(icons, e) ==
        IF icons # <<>> /\ Last(icons).name = e.name
          THEN [icons EXCEPT ![Len(icons)].variants = Append(@, [size |-> e.size, density |-> e.density])]
          ELSE Append(icons, [name |-> e.name, variants |-> <<[size |-> e.size, density |-> e.density]>>])
  IN FoldLeft(add, <<>>, Pick(c.icons, IsIcon))

Fields(c) == Pick(c.fields, LAMBDA f : f.valid)

\* presets(): in the order of their sort, and none after one whose icon has no
\* file; that an icon can be parsed is not asked for.
Presets(c) ==
  LET before(i, j) == \/ c.presets[i].sort < c.presets[j].sort
                      \/ c.presets[i].sort = c.presets[j].sort /\ i < j
      sorted == SetToSortSeq(DOMAIN c.presets, before)
      presets == [i \in 1 .. Len(sorted) |-> c.presets[sorted[i]]]
      files == {e.name : e \in Range(c.icons)}
  IN Pick(TakeUntil(presets, LAMBDA p : p.icon \notin files), LAMBDA p : p.valid)

\* translateMessageObject(): the reference of an option is put after that of
\* the one before.
OptionRefs(options) ==
  LET keys == FlattenSeq([i \in 1 .. Len(options) |-> [k \in 1 .. Len(options[i]) |-> <<i - 1, options[i][k]>>]])
  IN [n \in 1 .. Len(keys) |-> SubSeq(keys, 1, n)]

\* translationForValue(): a message is a text, the options of a field, or invalid.
ValueRefs(p) == CASE p.message = "text" -> << <<p.ref>> >>
                  [] p.message = "options" -> OptionRefs(p.options)
                  [] OTHER -> <<>>

\* translationsForLanguage(): what is not of a language or a type is passed over.
IsTranslated(s) == s.language # "invalid" /\ s.type \in {"field", "preset"}

\* translationsForDocType(): what there is before a document that is invalid.
TranslationsForDocType(s) ==
  LET docs == TakeUntil(s.docs, LAMBDA d : ~ d.valid)
      ofDoc(d) == LET refs == FlattenSeq([i \in 1 .. Len(d.messages) |-> ValueRefs(d.messages[i])])
                  IN [i \in 1 .. Len(refs) |-> [language |-> s.language, region |-> s.region, type |-> s.type, name |-> d.name, ref |-> refs[i]]]
  IN FlattenSeq([i \in 1 .. Len(docs) |-> ofDoc(docs[i])])

\* translations(): a language that is no object stands as an item for the error.
Translations(c) ==
  LET sections == Pick(c.translations, LAMBDA s : s.type = "error" \/ IsTranslated(s))
  IN FlattenSeq([i \in 1 .. Len(sections) |->
       IF sections[i].type = "error" THEN <<[type |-> "error"]>> ELSE TranslationsForDocType(sections[i])])

-----------------------------------------------------------------------------
VARIABLES
  docs,    \* the documents
  deleted, \* those that were deleted
  translated, \* the languages and types of which there are translations
  settings,\* the default presets of the project settings
  imports, \* what the archives of all imports contain
  loading, \* #loadingConfig
  stage,   \* where importConfig() is
  toDelete,\* the documents to be deleted
  pending, \* the writes that are awaited
  late,    \* those that were, when an import failed
  result,  \* of the last import: "none", "ok", "failed"
  faults

store == <<docs, deleted, translated, settings>>
vars == <<store, imports, loading, stage, toDelete, pending, late, result, faults>>

Kinds == {"icon", "field", "preset", "translation"}
Doc(n, kind, i) == [by |-> n, kind |-> kind, no |-> i]
Now == Len(imports)

\* readConfig(); the items of a kind are read when it is their turn.
Contents(c) == [isValid |-> IsValid(c), icon |-> Icons(c), field |-> Fields(c),
                preset |-> Presets(c), translation |-> Translations(c)]

\* What is read of one are finite lists.
ASSUME ArchivesAreFinite ==
  \A c \in Configs : \A kind \in Kinds :
    LET items == Contents(c)[kind] IN Len(items) \in Nat /\ DOMAIN items = 1 .. Len(items)

Items(n, kind) == imports[n][kind]
Batch(n, kind) == {Doc(n, kind, i) : i \in DOMAIN Items(n, kind)}
Item(d) == Items(d.by, d.kind)[d.no]
Create(ds) == {[op |-> "create", doc |-> d] : d \in ds}
Delete(ds) == {[op |-> "delete", doc |-> d] : d \in ds}

\* The document of a name (iconNameToRef, fieldNameToRef, presetNameToRef):
\* the last one; number 0 is none.
Ref(n, kind, name) ==
  LET named == Indices(Items(n, kind), LAMBDA x : x.name = name)
  IN Doc(n, kind, IF named = {} THEN 0 ELSE CHOOSE i \in named : \A j \in named : j <= i)
IsMissing(d) == d.no = 0

PresetRefs(n, p) == {Ref(n, "icon", p.icon)} \cup {Ref(n, "field", f) : f \in Range(p.fields)}

LateDocs == {o.doc : o \in late}
Stages == {"idle", "grabPresets", "grabFields", "grabTranslations", "read", "icons", "fields", "presets", "translations", "delete"}

\* Type correctness; only documents of earlier imports are deleted.
TypeOK ==
  /\ imports \in Seq({Contents(c) : c \in Configs})
  /\ \A d \in docs \cup LateDocs : d.by \in 1 .. Now /\ d.kind \in Kinds
  /\ \A d \in deleted \cup toDelete \cup {o.doc : o \in {p \in late : p.op = "delete"}} :
       d.by \in 1 .. Now - 1 /\ d.kind \in Kinds
  /\ \A o \in pending \cup late : o.op \in {"create", "delete"}
  /\ settings \subseteq docs
  /\ loading = (stage # "idle") /\ stage \in Stages
  /\ result \in {"none", "ok", "failed"} /\ faults \in Nat

Init ==
  /\ docs = {} /\ deleted = {} /\ translated = {} /\ settings = {} /\ imports = <<>>
  /\ loading = FALSE /\ stage = "idle" /\ toDelete = {} /\ pending = {} /\ late = {}
  /\ result = "none" /\ faults = 0

Goto(next, ops) == stage' = next /\ pending' = ops
Continues == UNCHANGED <<imports, loading, toDelete, late, result, faults>>

\* The catch clause; writes that were begun go on.
Fails(ops) ==
  /\ stage' = "idle" /\ loading' = FALSE /\ result' = "failed"
  /\ toDelete' = {} /\ pending' = {} /\ late' = late \cup ops

-----------------------------------------------------------------------------
(***************************************************************************)
(* importConfig(), from one await to the next.                             *)
(***************************************************************************)
ImportConfig(c) ==
  /\ ~ loading /\ Len(imports) < MaxImports
  /\ imports' = Append(imports, Contents(c))
  /\ loading' = TRUE /\ result' = "none" /\ stage' = "grabPresets"
  /\ UNCHANGED <<store, toDelete, pending, late, faults>>

Grabs == [grabPresets |-> "preset", grabFields |-> "field", grabTranslations |-> "translation"]
AfterGrab == [grabPresets |-> "grabFields", grabFields |-> "grabTranslations", grabTranslations |-> "read"]

\* Mutant: of the presets only the default ones are grabbed.
GrabDocsOfSettings ==
  /\ stage \in DOMAIN Grabs
  /\ toDelete' = toDelete \cup {d \in docs \ deleted : d.kind = Grabs[stage] /\ (d.kind = "preset" => d \in settings)}
  /\ stage' = AfterGrab[stage]
  /\ UNCHANGED <<store, imports, loading, pending, late, result, faults>>

\* grabDocsToDelete() and grabTranslationsToDelete(); what a translation
\* refers to is found also if it was deleted.
GrabDocs ==
  /\ stage \in DOMAIN Grabs
  /\ toDelete' = toDelete \cup {d \in docs \ deleted : d.kind = Grabs[stage]}
  /\ stage' = AfterGrab[stage]
  /\ UNCHANGED <<store, imports, loading, pending, late, result, faults>>

ReadConfig ==
  /\ stage = "read"
  /\ IF imports[Now].isValid
       THEN Goto("icons", {}) /\ UNCHANGED <<loading, toDelete, late, result>>
       ELSE Fails({})
  /\ UNCHANGED <<store, imports, faults>>

\* Icons are written one after the other ...
CreateIcon ==
  LET next == Doc(Now, "icon", 1 + Cardinality(Batch(Now, "icon") \cap docs))
  IN /\ stage = "icons" /\ pending = {} /\ next \in Batch(Now, "icon")
     /\ Goto("icons", Create({next}))
     /\ Continues /\ UNCHANGED store

\* ... and everything else of one kind at once.
CreateFields ==
  /\ stage = "icons" /\ pending = {} /\ Batch(Now, "icon") \subseteq docs
  /\ Goto("fields", Create(Batch(Now, "field")))
  /\ Continues /\ UNCHANGED store

\* Mutant: that a field or an icon is missing is not noted.
CreatePresetsUnchecked ==
  /\ stage = "fields" /\ pending = {}
  /\ Goto("presets", Create(Batch(Now, "preset")))
  /\ Continues /\ UNCHANGED store

CreatePresets ==
  /\ stage = "fields" /\ pending = {}
  /\ IF \E p \in Range(Items(Now, "preset")) : \E d \in PresetRefs(Now, p) : IsMissing(d)
       THEN Fails({})
       ELSE /\ Goto("presets", Create(Batch(Now, "preset")))
            /\ UNCHANGED <<loading, toDelete, late, result>>
  /\ UNCHANGED <<store, imports, faults>>

\* put() of each translation, up to an error or one whose document is missing.
PutTranslations ==
  /\ stage = "presets" /\ pending = {}
  /\ LET all == Items(Now, "translation")
         found == TakeUntil(all, LAMBDA t : t.type = "error" \/ IsMissing(Ref(Now, t.type, t.name)))
         puts == Create({Doc(Now, "translation", i) : i \in DOMAIN found})
     IN IF found = all
          THEN Goto("translations", puts) /\ UNCHANGED <<loading, toDelete, late, result>>
          ELSE Fails(puts)
  /\ UNCHANGED <<store, imports, faults>>

\* $setProjectSettings(); after it the old documents are deleted.
SetSettings ==
  /\ stage = "translations" /\ pending = {}
  /\ settings' = Batch(Now, "preset")
  /\ Goto("delete", Delete(toDelete))
  /\ Continues /\ UNCHANGED <<docs, deleted, translated>>

EndImport ==
  /\ stage = "delete" /\ pending = {}
  /\ stage' = "idle" /\ loading' = FALSE /\ result' = "ok" /\ toDelete' = {}
  /\ UNCHANGED <<store, imports, pending, late, faults>>

-----------------------------------------------------------------------------
\* TranslationApi.index() of the translations among ds.
Index(ds) == LET ts == {Item(d) : d \in {e \in ds : e.kind = "translation"}}
             IN {<<t.language, t.type>> : t \in ts}

IsDone(o) == IF o.op = "create" THEN o.doc \in docs ELSE o.doc \in deleted
Effect(o) ==
  /\ translated' = translated \cup Index(IF o.op = "create" THEN {o.doc} ELSE {})
  /\ docs' = IF o.op = "create" THEN docs \cup {o.doc} ELSE docs
  /\ deleted' = IF o.op = "delete" THEN deleted \cup {o.doc} ELSE deleted
  /\ UNCHANGED settings

Written(o) ==
  /\ o \in pending
  /\ Effect(o)
  /\ pending' = pending \ {o}
  /\ UNCHANGED stage /\ Continues

WrittenLate(o) ==
  /\ o \in late /\ ~ IsDone(o)
  /\ Effect(o)
  /\ UNCHANGED <<stage, pending>> /\ Continues

WriteFails(o) ==
  /\ o \in pending /\ faults < MaxFaults
  /\ faults' = faults + 1
  /\ Fails(pending \ {o})
  /\ UNCHANGED <<store, imports>>

\* The constructor of TranslationApi indexes what was not deleted.
Crash ==
  /\ translated' = Index(docs \ deleted)
  /\ faults < MaxFaults
  /\ faults' = faults + 1
  /\ loading' = FALSE /\ stage' = "idle" /\ result' = "none" /\ toDelete' = {} /\ pending' = {}
  /\ late' = {o \in late : IsDone(o)}
  /\ UNCHANGED <<docs, deleted, settings, imports>>

Next ==
  \/ \E c \in Configs : ImportConfig(c)
  \/ GrabDocs \/ ReadConfig \/ CreateIcon \/ CreateFields \/ CreatePresets \/ PutTranslations
  \/ SetSettings \/ EndImport \/ Crash
  \/ \E o \in pending : Written(o) \/ WriteFails(o)
  \/ \E o \in late : WrittenLate(o)

Spec == Init /\ [][Next]_vars

-----------------------------------------------------------------------------
(***************************************************************************)
(* How a document is translated.                                           *)
(***************************************************************************)
\* TranslationApi.get(): also what was deleted; without a region that of any.
GetTranslations(d, language, region) ==
  {t \in docs :
     /\ t.kind = "translation" /\ <<language, d.kind>> \in translated
     /\ Item(t).language = language
     /\ region # NoRegion => Item(t).region = region
     /\ Item(t).type = d.kind /\ Ref(t.by, d.kind, Item(t).name) = d}

\* #translate(): if there are none of the region, those of any are taken.
Translate(d, language, region) ==
  LET ofRegion == GetTranslations(d, language, region)
  IN IF ofRegion = {} THEN GetTranslations(d, language, NoRegion) ELSE ofRegion

-----------------------------------------------------------------------------
(***************************************************************************)
(* Which variant of an icon is shown.                                      *)
(***************************************************************************)
SizeAsNumeric == [small |-> 1, medium |-> 2, large |-> 3]

\* Mutant: of a smaller and a larger value the larger comes first.
SortValueLarger(target, a, b) ==
  IF a = target /\ b = target THEN 0
  ELSE IF a = target THEN -1 ELSE IF b = target THEN 1
  ELSE IF a > target /\ b > target THEN IF a < b THEN -1 ELSE 1
  ELSE IF a < b THEN 1 ELSE -1

\* determineSortValue(): of two equal values that are not the target either is
\* before the other if smaller than the target, and after it if larger.
SortValue(target, a, b) ==
  IF a = target /\ b = target THEN 0
  ELSE IF a = target THEN -1 ELSE IF b = target THEN 1
  ELSE IF a < target /\ b < target THEN IF a < b THEN 1 ELSE -1
  ELSE IF a < b THEN -1 ELSE 1

\* What getBestVariant() sorts by: the density only counts for two of the
\* wanted size, and of two SVGs of that size neither comes first.
Size(v) == SizeAsNumeric[v.size]
Compare(wanted, v, w) ==
  IF Size(v) = Size(wanted) /\ Size(w) = Size(wanted)
    THEN IF wanted.type = "svg" THEN 0 ELSE SortValue(wanted.density, v.density, w.density)
    ELSE SortValue(Size(wanted), Size(v), Size(w))

\* sort() of a list by a comparison that need not be consistent leaves the order
\* to the engine.  Of V8's, which inserts and merges, this much is used: two
\* that end up side by side were compared, in the one or the other order, and
\* stand as that said.
MayPrecede(wanted, v, w) == Compare(wanted, v, w) <= 0 \/ Compare(wanted, w, v) >= 0

SortedMatching(variants, wanted) ==
  LET matching == {i \in DOMAIN variants : variants[i].type = wanted.type}
      n == Cardinality(matching)
  IN {order \in Bijection(1 .. n, matching) :
        \A i \in 1 .. n - 1 : MayPrecede(wanted, variants[order[i]], variants[order[i + 1]])}

\* getBestVariant(), if there is one of the wanted type: what may come first.
BestVariants(variants, wanted) == {variants[order[1]] : order \in SortedMatching(variants, wanted)}

-----------------------------------------------------------------------------
(***************************************************************************)
(* Properties.                                                             *)
(***************************************************************************)
\* The default presets of the project are there, with the icons and fields
\* they refer to and the translations of them all, however imports fail, are
\* cut off by an end of the program and follow each other: nothing they name is
\* deleted before others take their place (importConfig, #translate).
SettingsHold ==
  \A d \in settings :
    LET used == {d} \cup PresetRefs(d.by, Item(d))
    IN /\ used \subseteq docs \ deleted
       /\ \A t \in Range(Items(d.by, "translation")) :
            Ref(d.by, t.type, t.name) \in used
              => \E found \in Translate(Ref(d.by, t.type, t.name), t.language, t.region) :
                   found \notin deleted /\ Item(found) = t

\* After an import that went through, the presets, fields and translations are
\* its own and no others, whatever imports before it left, but for what a
\* failed one was still writing (grabDocsToDelete, the deletes at the end).
OneConfigIsLeft ==
  result = "ok" =>
    LET own == UNION {Batch(Now, kind) : kind \in Kinds \ {"icon"}}
        left == {d \in docs \ deleted : d.kind # "icon"}
    IN own \subseteq left /\ left \subseteq own \cup LateDocs

Variants == [type : {"png"}, size : Sizes, density : 1 .. 3] \cup [type : {"svg"}, size : Sizes, density : {1}]

\* The rule at getBestVariant(), of sizes and of densities.
Closest(wanted, values) ==
  IF wanted \in values THEN wanted
  ELSE LET smaller == {x \in values : x < wanted}
       IN IF smaller # {} THEN CHOOSE x \in smaller : \A y \in smaller : y <= x
          ELSE CHOOSE x \in values : \A y \in values : x <= y

OfType(variants, wanted) == {v \in Range(variants) : v.type = wanted.type}

ShowsClosest(variants, wanted) ==
  LET same == OfType(variants, wanted)
  IN same # {} => \A best \in BestVariants(variants, wanted) :
       /\ best \in same
       /\ Size(best) = Closest(Size(wanted), {Size(v) : v \in same})
       /\ best.size = wanted.size
            => best.density = Closest(wanted.density, {v.density : v \in {w \in same : w.size = best.size}})

\* Of up to three variants the one shown is of the wanted size, else of the
\* closest smaller one, else of the closest larger; and if it is of the wanted
\* size its density is the closest alike: whichever way the sort takes where the
\* comparison contradicts itself (rules 1 and 2 at getBestVariant(), and rule 3
\* as far as it is kept).
ClosestIsShown ==
  Init => \A wanted \in Variants, variants \in [1 .. 3 -> Variants] : ShowsClosest(variants, wanted)
=============================================================================
