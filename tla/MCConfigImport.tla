---------------------------- MODULE MCConfigImport -----------------------------
(* Instances of ConfigImport for TLC. *)
EXTENDS ConfigImport

CONSTANTS a, an, f, g, p, q, en, us, none

Icon(name, size) == [name |-> name, size |-> size, density |-> 1, extension |-> "png", tooBig |-> FALSE]
Field(name, valid) == [name |-> name, valid |-> valid]
Preset(name, sort, icon, fields) == [name |-> name, sort |-> sort, icon |-> icon, fields |-> fields, valid |-> TRUE]
Text(ref) == [ref |-> ref, message |-> "text", options |-> <<>>]
Options(options) == [ref |-> "options", message |-> "options", options |-> options]
Section(type, region, docs_) == [language |-> en, region |-> region, type |-> type, docs |-> docs_]
Messages(name, messages) == [name |-> name, messages |-> messages, valid |-> TRUE]

Archive == [presetsFile |-> TRUE, metadataFile |-> TRUE, fileVersion |-> 1,
            icons |-> <<Icon(a, "large"), Icon(an, "small"), Icon(a, "small"), Icon(a, "huge")>>,
            fields |-> <<Field(f, TRUE)>>,
            presets |-> <<Preset(q, 2, NoIcon, <<>>), Preset(p, 1, a, <<f>>)>>,
            translations |-> <<Section("field", us, <<Messages(f, <<Options(<< <<"label", "value">> >>)>>)>>),
                               Section("preset", none, <<Messages(p, <<Text("name")>>)>>)>>]

\* One that goes through, though its presets end at the first without an icon;
\* one with a preset of a field that is invalid; one with a translation but
\* no presets; one whose language is no object; and one that is of no
\* supported version.
MCConfigs ==
  {Archive,
   [Archive EXCEPT !.fields = <<Field(f, TRUE), Field(g, FALSE)>>, !.presets = <<Preset(p, 1, a, <<f, g>>)>>],
   [Archive EXCEPT !.presets = <<>>],
   [Archive EXCEPT !.icons = <<>>, !.fields = <<>>, !.presets = <<>>, !.translations = <<Section("error", none, <<>>)>>],
   [Archive EXCEPT !.fileVersion = 0]}

\* A sort ends in some order, so there always is a variant to speak of.
ASSUME SortEnds ==
  \A wanted \in Variants, variants \in [1 .. 3 -> Variants] :
    OfType(variants, wanted) # {} => BestVariants(variants, wanted) # {}
=============================================================================
