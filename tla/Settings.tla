------------------------------ MODULE Settings ------------------------------
(***************************************************************************)
(* From the golangci-lint settings block to an analysis (plugin/funcs.go,  *)
(* analyzer/funcs.go, funcs.go): the keys are renamed from kebab case to   *)
(* snake case while the map is ranged over in an order Go leaves open, the *)
(* result is decoded strictly, New checks it, and the analysis that runs   *)
(* later checks the configuration made of it once more, with code of its   *)
(* own.  The same block is read twice, as two runs of the linter read it.  *)
(***************************************************************************)
EXTENDS Integers, Sequences, FiniteSets

CONSTANT Inputs \* settings blocks: functions from keys to [typed, value]

\* A key is a field and the separator its words are joined with.  Of the
\* fields New looks at, three have one word or two; "other" is no field.
MultiWord == {"dependency_scope", "field_usage", "reusability_weights"}
Fields == MultiWord \cup {"patterns", "rules"}
Keys == MultiWord \X {"-", "_"} \cup {"patterns", "rules", "other"} \X {"_"}

\* settingsReusabilityWeights: the default weights, in twentieths.
DefaultWeights ==
  [cohesion |-> 6, coupling |-> 7, testability |-> 4, documentation |-> 3]

\* What a well typed value of two of the fields looks like: the weights map
\* components to integers, and a rule has as its minimum the empty sequence (the
\* block gives none) or one number in twentieths.
OfType(f, v) ==
  /\ f = "reusability_weights" =>
       DOMAIN v \subseteq DOMAIN DefaultWeights /\ \A c \in DOMAIN v : v[c] \in Int
  /\ f = "rules" => \A k \in DOMAIN v : v[k].min \in Seq(Int) /\ Len(v[k].min) <= 1

ASSUME SettingsAssumption ==
  \A raw \in Inputs :
    /\ DOMAIN raw \subseteq Keys
    /\ \A k \in DOMAIN raw :
         raw[k].typed \in BOOLEAN /\ (raw[k].typed => OfType(k[1], raw[k].value))

Runs == {1, 2}

VARIABLES
  raw,       \* the settings block; never changes
  run, pc,   \* the run, and what it does next
  out, done, \* the renamed map, and the keys of the block it has been given
  config,    \* the settings decoded, then completed with defaults
  result     \* per run the verdict and the settings it is about

settingsVars == <<raw, run, pc, out, done, config, result>>

-----------------------------------------------------------------------------
\* marshalRemappedKeys: the name a key is stored under (mutant: the kebab key
\* is copied as it is).
Renamed_AsItIs(key) == IF key[2] = "-" THEN "other" ELSE key[1]
Renamed(key) == key[1]

\* The zero value of each field of Settings.
ZeroSettings ==
  [dependency_scope |-> "", field_usage |-> "", reusability_weights |-> <<>>,
   patterns |-> <<>>, rules |-> <<>>]

\* decodeSettings: an unknown key and a value of the wrong type are refused; a
\* field without a key keeps its zero value.
Decodable(m) == DOMAIN m \subseteq Fields /\ \A f \in DOMAIN m : m[f].typed
Decoded(m) == [f \in Fields |-> IF f \in DOMAIN m THEN m[f].value ELSE ZeroSettings[f]]

\* settingsWithDefaults.
WithDefaults(s) ==
  [s EXCEPT !.patterns = IF @ = <<>> THEN <<"./...">> ELSE @,
            !.dependency_scope = IF @ = "" THEN "module" ELSE @,
            !.field_usage = IF @ = "" THEN "direct" ELSE @]

Scopes == {"project", "module", "all"}
Usages == {"direct", "transitive"}

\* validateSettingsModes, the linter's check of the two modes (mutant: it leaves
\* one of them to the analysis).
ModesAccepted_ScopeOnly(s) == s.dependency_scope \in Scopes
ModesAccepted(s) == s.dependency_scope \in Scopes /\ s.field_usage \in Usages

\* validateConfigEnums, the analysis' own check of them.
ConfigModes(s) == s.dependency_scope \in Scopes /\ s.field_usage \in Usages

\* settingsReusabilityWeights: the overrides laid over the defaults.
WeightsOf(s) ==
  [c \in DOMAIN DefaultWeights |->
    IF c \in DOMAIN s.reusability_weights THEN s.reusability_weights[c] ELSE DefaultWeights[c]]

\* Validate of the weights: none is negative and one is not zero.
ValidWeights(w) ==
  (\A c \in DOMAIN w : w[c] >= 0) /\ (\E c \in DOMAIN w : w[c] > 0)

\* parseSettingsRules and validateRule: a rule has a pattern and a minimum.
ValidRule(r) == r.pattern # "" /\ r.min # <<>> /\ r.min[1] \in 0 .. 20

\* validateSettings: the modes, the weights, the rules; with no rules the
\* recommended ones apply and are valid.
SettingsAccepted(s) ==
  /\ ModesAccepted(s)
  /\ ValidWeights(WeightsOf(s))
  /\ \A k \in DOMAIN s.rules : ValidRule(s.rules[k])

\* validateConfig.
ConfigAccepted(s) ==
  /\ ConfigModes(s)
  /\ \A k \in DOMAIN s.patterns : s.patterns[k] # ""
  /\ ValidWeights(WeightsOf(s))

-----------------------------------------------------------------------------
SettingsInit ==
  /\ raw \in Inputs
  /\ run = 1 /\ pc = "remap"
  /\ out = <<>> /\ done = {}
  /\ config = ZeroSettings
  /\ result = [r \in Runs |-> [verdict |-> "pending", settings |-> ZeroSettings]]

\* One round of the loop of marshalRemappedKeys: any key that is left.
Remap(key) ==
  /\ pc = "remap" /\ key \in DOMAIN raw \ done
  /\ done' = done \cup {key}
  /\ out' = [f \in DOMAIN out \cup {Renamed(key)} |->
               IF f = Renamed(key) THEN raw[key] ELSE out[f]]
  /\ UNCHANGED <<raw, run, pc, config, result>>

Conclude(verdict, s) ==
  /\ pc' = "end"
  /\ result' = [result EXCEPT ![run] = [verdict |-> verdict, settings |-> s]]

\* decodePluginSettings, once the map is complete.
Decode ==
  /\ pc = "remap" /\ done = DOMAIN raw
  /\ IF Decodable(out)
       THEN config' = Decoded(out) /\ pc' = "new" /\ UNCHANGED result
       ELSE Conclude("undecodable", ZeroSettings) /\ UNCHANGED config
  /\ UNCHANGED <<raw, run, out, done>>

\* New.
BuildAnalyzer ==
  /\ pc = "new"
  /\ config' = WithDefaults(config)
  /\ IF SettingsAccepted(config')
       THEN pc' = "analyze" /\ UNCHANGED result
       ELSE Conclude("refused", config')
  /\ UNCHANGED <<raw, run, out, done>>

\* The first pass asks for the analysis, which checks its configuration.
Analyze ==
  /\ pc = "analyze"
  /\ Conclude(IF ConfigAccepted(config) THEN "runs" ELSE "fails", config)
  /\ UNCHANGED <<raw, run, out, done, config>>

\* The linter is run again on the same block.
RunAgain ==
  /\ pc = "end" /\ run = 1
  /\ run' = 2 /\ pc' = "remap" /\ out' = <<>> /\ done' = {} /\ config' = ZeroSettings
  /\ UNCHANGED <<raw, result>>

SettingsNext == (\E key \in Keys : Remap(key)) \/ Decode \/ BuildAnalyzer \/ Analyze \/ RunAgain

SettingsSpec == SettingsInit /\ [][SettingsNext]_settingsVars

-----------------------------------------------------------------------------
Verdicts == {"pending", "undecodable", "refused", "fails", "runs"}

\* What a key may be stored under and what a mode may be once decoded, whatever
\* the order of the renaming: only the blocks that pass the strict decoder give
\* settings, and no analysis starts with a mode the code does not know.
SettingsTypeOK ==
  /\ DOMAIN raw \subseteq Keys /\ run \in Runs /\ pc \in {"remap", "new", "analyze", "end"}
  /\ done \subseteq DOMAIN raw /\ DOMAIN out \subseteq Fields \cup {"other"}
  /\ DOMAIN config = Fields
  /\ \A r \in Runs : result[r].verdict \in Verdicts
  /\ pc = "analyze" => config.dependency_scope \in Scopes /\ config.field_usage \in Usages

\* The blocks that keep one spelling of every field.
OneSpellingEach ==
  {keys \in SUBSET DOMAIN raw :
     /\ \A k, l \in keys : k[1] = l[1] => k = l
     /\ \A k \in DOMAIN raw : \E l \in keys : l[1] = k[1]}

\* The value a field has in the block, given one spelling of every field.
ValueOf(keys, f) ==
  IF \E k \in keys : k[1] = f THEN raw[CHOOSE k \in keys : k[1] = f].value ELSE ZeroSettings[f]

\* What the verdict on a block with one spelling of every field should be.
Expected(keys) ==
  LET value(f) == ValueOf(keys, f) IN
  IF \E k \in keys : k[1] = "other" \/ ~raw[k].typed THEN {"undecodable"}
  ELSE IF /\ value("dependency_scope") \in Scopes \cup {""}
          /\ value("field_usage") \in Usages \cup {""}
          /\ \A c \in DOMAIN value("reusability_weights") : value("reusability_weights")[c] >= 0
          /\ DOMAIN value("reusability_weights") = DOMAIN DefaultWeights
                => \E c \in DOMAIN DefaultWeights : value("reusability_weights")[c] # 0
          /\ \A k \in DOMAIN value("rules") :
               /\ value("rules")[k].pattern # ""
               /\ \E m \in 0 .. 20 : value("rules")[k].min = <<m>>
       THEN {"fails", "runs"} ELSE {"refused"}

\* Whatever the order the keys are renamed in, a run comes out as the block with
\* one spelling of every field does: no field is lost, none is mixed from two
\* spellings, and a dashed key is neither refused nor ignored where the
\* underscored one counts.
OutcomeIsOfOneSpelling ==
  \A r \in Runs : result[r].verdict # "pending" =>
    \E keys \in OneSpellingEach :
      /\ result[r].verdict \in Expected(keys)
      /\ result[r].verdict # "undecodable" =>
           \A f \in Fields : ValueOf(keys, f) # ZeroSettings[f] =>
             result[r].settings[f] = ValueOf(keys, f)

\* The two checks are written twice, in two packages; settings the linter was
\* built with fail later, in every pass, for one reason alone: a package pattern
\* that is empty, which only the analysis looks at.
LateFailureIsAnEmptyPattern ==
  \A r \in Runs : result[r].verdict = "fails" =>
    \E k \in DOMAIN result[r].settings.patterns : result[r].settings.patterns[k] = ""

\* Two runs over the same source and settings agree.  They need not: which of the
\* two spellings of a field wins hangs on the order of the map.
RunsAgree ==
  (\A r \in Runs : result[r].verdict # "pending") => result[1] = result[2]

=============================================================================
