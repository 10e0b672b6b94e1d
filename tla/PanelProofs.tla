------------------------------- MODULE PanelProofs -------------------------------
(***************************************************************************)
(* The panel.  Panel.tla with the settings it saves and the process it        *)
(* supervises, for any catalogue of settings, any texts and any pids: what is  *)
(* saved is kept, what is killed is ours, and at most one child runs.  Then    *)
(* PanelLogin.tla and PanelFeeds.tla for any limits and any number of threads. *)
(***************************************************************************)
EXTENDS Panel, PanelFeeds, FiniteSetTheorems, TLAPS

(***************************************************************************)
(* The settings file.                                                        *)
(***************************************************************************)

LEMMA StrippedTwice ==
    ASSUME NEW t
    PROVE  Strip(Strip(t)) = Strip(t)
BY StoreAssumption DEF Strip

LEMMA StrippedConstants ==
    /\ Strip("") = "" /\ Strip("on") = "on" /\ Strip("off") = "off"
    /\ Strip(MASK) = MASK /\ Strip(CLEAR) = CLEAR
BY StoreAssumption DEF Strip

LEMMA CanonicalNumber ==
    ASSUME NEW t \in DOMAIN Number
    PROVE  LET c == CHOOSE u \in DOMAIN Number : Number[u] = Number[t] /\ u \notin DOMAIN Stripped
           IN  c \in DOMAIN Number /\ Number[c] = Number[t] /\ Strip(c) = c
<1> DEFINE c == CHOOSE u \in DOMAIN Number : Number[u] = Number[t] /\ u \notin DOMAIN Stripped
<1>1. \E u \in DOMAIN Number : Number[u] = Number[t] /\ u \notin DOMAIN Stripped
  BY StoreAssumption
<1>2. c \in DOMAIN Number /\ Number[c] = Number[t] /\ c \notin DOMAIN Stripped
  BY <1>1
<1> QED BY <1>2 DEF Strip

(* What validation has made of a text, it leaves as it is.                      *)
LEMMA ValidatedTwice ==
    ASSUME NEW k, NEW raw, Validate(k, raw) # Invalid
    PROVE  Validate(k, Validate(k, raw)) = Validate(k, raw)
<1> DEFINE spec == SETTINGS[k]
           t == Strip(raw)
           v == Canonical(spec, t)
<1>1. Accepts(spec, t) /\ Validate(k, raw) = v
  BY DEF Validate
<1> SUFFICES Validate(k, v) = v
  BY <1>1
<1> SUFFICES Strip(v) = v /\ Accepts(spec, v) /\ Canonical(spec, v) = v
  BY DEF Validate
<1> HIDE DEF spec
<1>2. CASE spec.type = "bool"
  <2>1. v = Lower(t) /\ v \in {"on", "off"}
    BY <1>1, <1>2 DEF Canonical, Accepts
  <2>2. Lower(v) = v /\ Strip(v) = v
    BY <2>1, StrippedConstants DEF Lower
  <2> HIDE DEF v
  <2> QED BY <1>2, <2>1, <2>2 DEF Canonical, Accepts
<1>3. CASE spec.type = "int"
  <2> DEFINE c == CHOOSE u \in DOMAIN Number : Number[u] = Number[t] /\ u \notin DOMAIN Stripped
  <2>1. t \in DOMAIN Number /\ WithinBounds(spec, Number[t]) /\ v = c
    BY <1>1, <1>3 DEF Canonical, Accepts
  <2>2. v \in DOMAIN Number /\ Number[v] = Number[t] /\ Strip(v) = v
    BY <2>1, CanonicalNumber
  <2>3. Canonical(spec, v) = CHOOSE u \in DOMAIN Number : Number[u] = Number[v] /\ u \notin DOMAIN Stripped
    BY <1>3 DEF Canonical
  <2>4. Canonical(spec, v) = v
    BY <2>1, <2>2, <2>3
  <2>5. Accepts(spec, v)
    <3> HIDE DEF v
    <3> QED BY <1>3, <2>1, <2>2 DEF Accepts
  <2> QED BY <2>2, <2>4, <2>5
<1>4. CASE spec.type \notin {"bool", "int"}
  <2>1. v = t /\ Canonical(spec, v) = v
    BY <1>4 DEF Canonical
  <2>2. Strip(v) = v
    BY <2>1, StrippedTwice
  <2> QED BY <1>1, <2>1, <2>2
<1> QED BY <1>2, <1>3, <1>4

(* A loaded value is one that loads as itself.                                 *)
LEMMA LoadedTwice ==
    ASSUME NEW stored, NEW k \in Key
    PROVE  /\ Validated(stored)[k] = SETTINGS[k].default \/ Validate(k, Validated(stored)[k]) # Invalid
           /\ Validate(k, Validated(stored)[k]) \in {Validated(stored)[k], Invalid}
<1>1. CASE k \in DOMAIN stored /\ Validate(k, stored[k]) # Invalid
  BY <1>1, ValidatedTwice DEF Validated
<1>2. CASE ~(k \in DOMAIN stored /\ Validate(k, stored[k]) # Invalid)
  <2>1. Validated(stored)[k] = SETTINGS[k].default
    BY <1>2 DEF Validated
  <2> QED BY <2>1, DefaultsAssumption
<1> QED BY <1>1, <1>2

LEMMA LoadsAsItself ==
    ASSUME NEW stored, NEW values, DOMAIN values = Key,
           \A k \in Key : \/ Validate(k, values[k]) = values[k] /\ values[k] # Invalid
                          \/ values[k] = Validated(stored)[k]
    PROVE  \A k \in Key : Validated(values)[k] = values[k]
<1> SUFFICES ASSUME NEW k \in Key
             PROVE  Validated(values)[k] = values[k]
  OBVIOUS
<1>1. Validated(values)[k] = IF Validate(k, values[k]) # Invalid THEN Validate(k, values[k])
                             ELSE SETTINGS[k].default
  BY DEF Validated
<1>2. CASE Validate(k, values[k]) = Invalid
  BY <1>1, <1>2, LoadedTwice
<1>3. CASE Validate(k, values[k]) # Invalid
  BY <1>1, <1>3, LoadedTwice
<1> QED BY <1>2, <1>3

(* A change is of a key that was given, to a valid value; and a box is filled in  *)
(* just when what it gives is not left alone, nor the mask of a secret.         *)
LEMMA ChangesAre ==
    ASSUME NEW values, NEW sub, ~Refused(sub), NEW k \in DOMAIN Changes(values, sub)
    PROVE  LET v == Changes(values, sub)[k]
           IN  /\ k \in Key /\ v # Invalid /\ Validate(k, v) = v
               /\ Masked(k, v) <=> k \notin FilledIn(sub)
<1> DEFINE v == Changes(values, sub)[k]
           raw == sub[k]
<1>1. k \in Given(sub) /\ k \in Key /\ k \in DOMAIN sub /\ v = Validate(k, Candidate(raw))
  BY DEF Changes, Given
<1>2. v # Invalid
  BY <1>1 DEF Refused
<1>3. Validate(k, v) = v
  BY <1>1, <1>2, ValidatedTwice
<1>4. k \in FilledIn(sub) <=> ~(SETTINGS[k].type = "secret" /\ Strip(raw) \in {"", MASK})
  BY <1>1 DEF FilledIn
<1>5. CASE SETTINGS[k].type = "secret"
  <2>0. \A t : Accepts(SETTINGS[k], t) /\ Canonical(SETTINGS[k], t) = t
    BY <1>5 DEF Accepts, Canonical
  <2>1. v = Strip(Candidate(raw))
    BY <1>1, <2>0 DEF Validate
  <2>2. Strip(raw) # ""
    BY <1>1, <1>5 DEF Given, LeftAlone
  <2> HIDE DEF v, raw
  <2>3. raw = CLEAR => v = "" /\ Strip(raw) = CLEAR
    BY <2>1, StrippedConstants DEF Candidate
  <2>4. raw # CLEAR => v = Strip(raw)
    BY <2>1 DEF Candidate
  <2>5. Masked(k, v) <=> k \notin FilledIn(sub)
    BY <1>4, <1>5, <2>2, <2>3, <2>4 DEF Masked, MASK, CLEAR
  <2> QED BY <1>1, <1>2, <1>3, <2>5 DEF v
<1>6. CASE SETTINGS[k].type # "secret"
  <2>1. ~Masked(k, v) /\ k \in FilledIn(sub)
    BY <1>4, <1>6 DEF Masked
  <2> QED BY <1>1, <1>2, <1>3, <2>1
<1> QED BY <1>5, <1>6

(* What a save carries is what a form changes: valid values, of which it masks the *)
(* boxes that were not filled in.                                              *)
Submitted(q) ==
    \A k \in DOMAIN q.values :
        /\ k \in Key /\ q.values[k] # Invalid /\ Validate(k, q.values[k]) = q.values[k]
        /\ Masked(k, q.values[k]) <=> k \notin q.meant

(* What a save writes, read back: the values it changed, and for every other key  *)
(* the value that was stored.                                                  *)
LEMMA MergeKeeps ==
    ASSUME NEW stored, NEW q, Submitted(q), NEW k \in Key
    PROVE  Validated(Merged(stored, q.values))[k] =
              IF k \in DOMAIN q.values \intersect q.meant THEN q.values[k]
              ELSE Validated(stored)[k]
<1> DEFINE clean == Merged(stored, q.values)
<1>1. ASSUME NEW l \in Key
      PROVE  clean[l] = IF l \in DOMAIN q.values \intersect q.meant THEN q.values[l]
                        ELSE Validated(stored)[l]
  <2>1. clean[l] = IF l \in DOMAIN q.values /\ ~Masked(l, q.values[l])
                   THEN Validate(l, q.values[l]) ELSE Validated(stored)[l]
    BY DEF Merged
  <2> HIDE DEF clean
  <2> QED BY <2>1 DEF Submitted
<1>2. \A l \in Key : \/ Validate(l, clean[l]) = clean[l] /\ clean[l] # Invalid
                     \/ clean[l] = Validated(stored)[l]
  <2> HIDE DEF clean
  <2> QED BY <1>1 DEF Submitted
<1>3. DOMAIN clean = Key
  BY DEF Merged
<1> HIDE DEF clean
<1>4. \A l \in Key : Validated(clean)[l] = clean[l]
  BY <1>2, <1>3, LoadsAsItself
<1> QED BY <1>1, <1>4 DEF clean

-----------------------------------------------------------------------------
SavingFields == {"pc", "values", "clean", "meant", "missed"}

StoreShapes ==
    /\ DOMAIN file = {"ok", "stored"} /\ file.ok \in BOOLEAN /\ mended \in BOOLEAN
    /\ DOMAIN saving = Saver
    /\ \A s \in Saver : DOMAIN saving[s] = SavingFields /\ saving[s].pc \in {"idle", "read", "write"}

Carried == \A s \in Saver : saving[s].pc # "idle" => Submitted(saving[s])

(* What a save is about to write is what it will acknowledge, and for the keys     *)
(* that are not its own what was acknowledged, unless it was after it had read.   *)
Knows(q) ==
    \A k \in Key :
        IF k \in DOMAIN q.values \intersect q.meant THEN Validated(q.clean)[k] = q.values[k]
        ELSE k \in q.missed \union undone \/ Validated(q.clean)[k] = acked[k]

Prepared == \A s \in Saver : saving[s].pc = "write" => Knows(saving[s])

StoreInv == StoreShapes /\ Carried /\ Prepared /\ SettingsStick

LEMMA IdleIs == DOMAIN Idle = SavingFields /\ Idle.pc = "idle"
BY DEF Idle, SavingFields

(* A thread that is done with its save, or dies with it.                        *)
LEMMA StoreRests ==
    ASSUME StoreInv, UNCHANGED <<file, acked, undone, mended>>,
           DOMAIN saving' = Saver, \A s \in Saver : saving'[s] \in {saving[s], Idle}
    PROVE  StoreInv'
<1>1. StoreShapes'
  BY IdleIs DEF StoreInv, StoreShapes
<1>2. ASSUME NEW s \in Saver, saving'[s].pc # "idle"
      PROVE  saving'[s] = saving[s] /\ saving[s].pc # "idle"
  BY <1>2, IdleIs
<1>3. Carried'
  BY <1>2 DEF StoreInv, Carried, Submitted
<1>4. Prepared'
  BY <1>2 DEF StoreInv, Prepared, Knows
<1>5. SettingsStick'
  BY DEF StoreInv, SettingsStick, Load
<1> QED BY <1>1, <1>3, <1>4, <1>5 DEF StoreInv

LEMMA SubmitKeeps ==
    ASSUME StoreInv, NEW s \in Saver, NEW sub \in Submission, Submit(s, sub)
    PROVE  StoreInv'
<1> DEFINE values == Changes(Load(file), sub)
           q == [Idle EXCEPT !.pc = "read", !.values = values, !.meant = FilledIn(sub)]
<1>1. UNCHANGED <<file, acked, undone, mended>>
  BY DEF Submit
<1>2. CASE saving' = saving
  BY <1>1, <1>2, StoreRests DEF StoreInv, StoreShapes
<1>3. CASE ~Refused(sub) /\ saving' = [saving EXCEPT ![s] = q]
  <2>1. /\ DOMAIN saving' = Saver
        /\ \A t \in Saver : saving'[t] = IF t = s THEN q ELSE saving[t]
    BY <1>3 DEF StoreInv, StoreShapes
  <2>2. q.pc = "read" /\ q.values = values /\ q.meant = FilledIn(sub) /\ DOMAIN q = SavingFields
    BY DEF Idle, SavingFields
  <2>3. ASSUME NEW k \in DOMAIN values
        PROVE  /\ k \in Key /\ values[k] # Invalid /\ Validate(k, values[k]) = values[k]
               /\ Masked(k, values[k]) <=> k \notin FilledIn(sub)
    BY <1>3, ChangesAre
  <2> HIDE DEF q, values
  <2>4. Submitted(q)
    BY <2>2, <2>3 DEF Submitted
  <2>5. StoreShapes'
    BY <1>1, <2>1, <2>2 DEF StoreInv, StoreShapes
  <2>6. Carried'
    <3>1. ASSUME NEW t \in Saver, saving'[t].pc # "idle"
          PROVE  Submitted(saving'[t])
      BY <2>1, <2>4, <3>1 DEF StoreInv, Carried
    <3> QED BY <3>1 DEF Carried, Submitted
  <2>7. Prepared'
    BY <1>1, <2>1, <2>2 DEF StoreInv, Prepared, Knows
  <2>8. SettingsStick'
    BY <1>1 DEF StoreInv, SettingsStick, Load
  <2> QED BY <2>5, <2>6, <2>7, <2>8 DEF StoreInv
<1> QED BY <1>2, <1>3 DEF Submit

LEMMA ReadKeeps ==
    ASSUME StoreInv, NEW s \in Saver, ReadStored(s)
    PROVE  StoreInv'
<1>1. UNCHANGED <<file, acked, undone, mended>> /\ saving[s].pc = "read"
  BY DEF ReadStored
<1>2. CASE ~file.ok
  <2>1. saving' = [saving EXCEPT ![s] = Idle]
    BY <1>2 DEF ReadStored
  <2> QED BY <1>1, <2>1, StoreRests DEF StoreInv, StoreShapes
<1>3. CASE file.ok
  <2> DEFINE q == [saving[s] EXCEPT !.pc = "write", !.clean = Merged(file.stored, saving[s].values)]
  <2>1. /\ DOMAIN saving' = Saver
        /\ \A t \in Saver : saving'[t] = IF t = s THEN q ELSE saving[t]
    BY <1>3 DEF ReadStored, StoreInv, StoreShapes
  <2>2. DOMAIN saving[s] = SavingFields
    BY DEF StoreInv, StoreShapes
  <2>3. /\ q.pc = "write" /\ q.values = saving[s].values /\ q.meant = saving[s].meant
        /\ q.clean = Merged(file.stored, saving[s].values)
        /\ DOMAIN q = SavingFields
    BY <2>2 DEF SavingFields
  <2> HIDE DEF q
  <2>4. Submitted(saving[s])
    BY <1>1 DEF StoreInv, Carried
  <2>5. Submitted(q)
    BY <2>3, <2>4 DEF Submitted
  <2>6. StoreShapes'
    BY <1>1, <2>1, <2>3 DEF StoreInv, StoreShapes
  <2>7. Carried'
    <3>1. ASSUME NEW t \in Saver, saving'[t].pc # "idle"
          PROVE  Submitted(saving'[t])
      BY <2>1, <2>5, <3>1 DEF StoreInv, Carried
    <3> QED BY <3>1 DEF Carried, Submitted
  <2>8. Knows(q)
    <3>1. ASSUME NEW k \in Key
          PROVE  Validated(q.clean)[k] = IF k \in DOMAIN q.values \intersect q.meant THEN q.values[k]
                                         ELSE Load(file)[k]
      BY <1>3, <2>3, <2>4, MergeKeeps DEF Load
    <3>2. \A k \in Key \ undone : Load(file)[k] = acked[k]
      BY <1>3 DEF StoreInv, SettingsStick
    <3> QED BY <3>1, <3>2 DEF Knows
  <2>9. Prepared'
    <3>1. ASSUME NEW t \in Saver, saving'[t].pc = "write"
          PROVE  Knows(saving'[t])
      BY <2>1, <2>8, <3>1 DEF StoreInv, Prepared
    <3> QED BY <1>1, <3>1 DEF Prepared, Knows
  <2>10. SettingsStick'
    BY <1>1 DEF StoreInv, SettingsStick, Load
  <2> QED BY <2>6, <2>7, <2>9, <2>10 DEF StoreInv
<1> QED BY <1>2, <1>3 DEF StoreInv, StoreShapes

(* A save leaves in the file the values it acknowledges, and what was acknowledged  *)
(* of every other key that it, or a save before it, did not take back.            *)
LEMMA ReplaceLeaves ==
    ASSUME StoreInv, NEW s \in Saver, Replace(s), NEW k \in Key
    PROVE  /\ acked'[k] = IF k \in Acknowledges(s) THEN saving[s].values[k] ELSE acked[k]
           /\ k \in Acknowledges(s) => Load(file')[k] = saving[s].values[k]
           /\ k \notin Acknowledges(s) \union undone' =>
                 k \notin undone /\ Load(file')[k] = acked[k]
<1>1. /\ saving[s].pc = "write" /\ file' = [ok |-> TRUE, stored |-> saving[s].clean]
      /\ undone' = (undone \union saving[s].missed) \ Acknowledges(s)
      /\ acked' = [l \in Key |-> IF l \in Acknowledges(s) THEN saving[s].values[l] ELSE acked[l]]
  BY DEF Replace
<1>2. Knows(saving[s])
  BY <1>1 DEF StoreInv, Prepared
<1>3. Load(file') = Validated(saving[s].clean)
  BY <1>1 DEF Load
<1>4. Acknowledges(s) = DOMAIN saving[s].values \intersect saving[s].meant
  BY DEF Acknowledges
<1> QED BY <1>1, <1>2, <1>3, <1>4 DEF Knows

(* What another save knows of the file, once this one is acknowledged.            *)
LEMMA MissesKeeps ==
    ASSUME StoreInv, NEW s \in Saver, Replace(s), NEW t \in Saver,
           saving'[t].pc # "idle"
    PROVE  /\ Submitted(saving'[t])
           /\ saving'[t].pc = "write" => Knows(saving[t]) /\ saving[t].pc = "write"
                 /\ saving'[t].values = saving[t].values /\ saving'[t].clean = saving[t].clean
                 /\ saving'[t].meant = saving[t].meant
                 /\ saving'[t].missed = saving[t].missed \union Acknowledges(s)
<1>1. saving'[t] = IF t = s THEN Idle ELSE Misses(t, Acknowledges(s))
  BY DEF Replace
<1>2. t # s /\ saving'[t] = Misses(t, Acknowledges(s))
  BY <1>1, IdleIs
<1>3. DOMAIN saving[t] = SavingFields
  BY DEF StoreInv, StoreShapes
<1>4. CASE saving[t].pc = "write"
  <2>1. saving'[t] = [saving[t] EXCEPT !.missed = @ \union Acknowledges(s)]
    BY <1>2, <1>4 DEF Misses
  <2>2. /\ saving'[t].values = saving[t].values /\ saving'[t].clean = saving[t].clean
        /\ saving'[t].meant = saving[t].meant
        /\ saving'[t].missed = saving[t].missed \union Acknowledges(s)
    BY <1>3, <2>1 DEF SavingFields
  <2>3. Submitted(saving[t]) /\ Knows(saving[t])
    BY <1>4 DEF StoreInv, Carried, Prepared
  <2>4. Submitted(saving'[t])
    BY <2>2, <2>3 DEF Submitted
  <2> QED BY <1>4, <2>2, <2>3, <2>4
<1>5. CASE saving[t].pc # "write"
  <2>1. saving'[t] = saving[t]
    BY <1>2, <1>5 DEF Misses
  <2>2. Submitted(saving[t])
    BY <2>1 DEF StoreInv, Carried
  <2> QED BY <1>5, <2>1, <2>2
<1> QED BY <1>4, <1>5

LEMMA ReplaceKeeps ==
    ASSUME StoreInv, NEW s \in Saver, Replace(s)
    PROVE  StoreInv'
<1>1. /\ file' = [ok |-> TRUE, stored |-> saving[s].clean]
      /\ mended' = (mended \/ ~file.ok)
      /\ undone' = (undone \union saving[s].missed) \ Acknowledges(s)
      /\ saving' = [t \in Saver |-> IF t = s THEN Idle ELSE Misses(t, Acknowledges(s))]
  BY DEF Replace
<1>2. StoreShapes'
  <2>1. DOMAIN file' = {"ok", "stored"} /\ file'.ok = TRUE /\ mended' \in BOOLEAN
    BY <1>1 DEF StoreInv, StoreShapes
  <2>2. ASSUME NEW t \in Saver
        PROVE  DOMAIN saving'[t] = SavingFields /\ saving'[t].pc \in {"idle", "read", "write"}
    <3>1. DOMAIN saving[t] = SavingFields /\ saving[t].pc \in {"idle", "read", "write"}
      BY DEF StoreInv, StoreShapes
    <3>2. LET m == [saving[t] EXCEPT !.missed = @ \union Acknowledges(s)]
          IN  DOMAIN m = SavingFields /\ m.pc = saving[t].pc
      BY <3>1 DEF SavingFields
    <3> QED BY <1>1, <3>1, <3>2, IdleIs DEF Misses
  <2> QED BY <1>1, <2>1, <2>2 DEF StoreShapes
<1>3. Carried'
  <2>1. ASSUME NEW t \in Saver, saving'[t].pc # "idle"
        PROVE  Submitted(saving'[t])
    BY <2>1, MissesKeeps
  <2> QED BY <2>1 DEF Carried, Submitted
<1>4. Prepared'
  <2> SUFFICES ASSUME NEW t \in Saver, saving'[t].pc = "write", NEW k \in Key
               PROVE  IF k \in DOMAIN saving'[t].values \intersect saving'[t].meant
                      THEN Validated(saving'[t].clean)[k] = saving'[t].values[k]
                      ELSE \/ k \in saving'[t].missed \union undone'
                           \/ Validated(saving'[t].clean)[k] = acked'[k]
    BY DEF Prepared, Knows
  <2>1. /\ Knows(saving[t])
        /\ saving'[t].values = saving[t].values /\ saving'[t].clean = saving[t].clean
        /\ saving'[t].meant = saving[t].meant
        /\ saving'[t].missed = saving[t].missed \union Acknowledges(s)
    BY MissesKeeps
  <2>2. acked'[k] = IF k \in Acknowledges(s) THEN saving[s].values[k] ELSE acked[k]
    BY ReplaceLeaves
  <2> QED BY <1>1, <2>1, <2>2 DEF Knows
<1>5. SettingsStick'
  <2>1. ASSUME NEW k \in Key \ undone'
        PROVE  Load(file')[k] = acked'[k]
    BY ReplaceLeaves
  <2> QED BY <2>1 DEF SettingsStick, Load
<1> QED BY <1>2, <1>3, <1>4, <1>5 DEF StoreInv

LEMMA DamageKeeps ==
    ASSUME StoreInv, DamageFile
    PROVE  StoreInv'
<1>1. /\ file' = [file EXCEPT !.ok = FALSE]
      /\ UNCHANGED <<saving, acked, undone, mended>>
  BY DEF DamageFile
<1>2. DOMAIN file' = {"ok", "stored"} /\ file'.ok = FALSE
  BY <1>1 DEF StoreInv, StoreShapes
<1>3. StoreShapes'
  BY <1>1, <1>2 DEF StoreInv, StoreShapes
<1>4. Carried'
  BY <1>1 DEF StoreInv, Carried, Submitted
<1>5. Prepared'
  BY <1>1 DEF StoreInv, Prepared, Knows
<1>6. SettingsStick'
  BY <1>2 DEF SettingsStick
<1> QED BY <1>3, <1>4, <1>5, <1>6 DEF StoreInv

LEMMA StoreStep ==
    ASSUME StoreInv, [PanelNext]_panelVars
    PROVE  StoreInv'
<1>1. CASE UNCHANGED storeVars
  BY <1>1, StoreRests DEF storeVars, StoreInv, StoreShapes
<1>2. ASSUME NEW s \in Saver, NEW sub \in Submission, Submit(s, sub)
      PROVE  StoreInv'
  BY <1>2, SubmitKeeps
<1>3. ASSUME NEW s \in Saver, ReadStored(s)
      PROVE  StoreInv'
  BY <1>3, ReadKeeps
<1>4. ASSUME NEW s \in Saver, WriteRaises(s)
      PROVE  StoreInv'
  BY <1>4, StoreRests DEF WriteRaises, StoreInv, StoreShapes
<1>5. CASE DamageFile
  BY <1>5, DamageKeeps
<1>6. ASSUME NEW s \in Saver, SaveReplies(s)
      PROVE  StoreInv'
  BY <1>6, ReplaceKeeps DEF SaveReplies
<1>7. ASSUME NEW hasPassword \in BOOLEAN, PanelRestart(hasPassword)
      PROVE  StoreInv'
  BY <1>7, StoreRests DEF PanelRestart
<1> QED
  BY <1>1, <1>2, <1>3, <1>4, <1>5, <1>6, <1>7 DEF PanelNext, SettingsStep, panelVars

LEMMA StoreStarts == PanelInit => StoreInv
<1> SUFFICES ASSUME PanelInit
             PROVE  StoreInv
  OBVIOUS
<1>1. /\ file \in [ok : {TRUE}, stored : InitialStored] /\ saving = [s \in Saver |-> Idle]
      /\ acked = Load(file) /\ undone = {} /\ mended = FALSE
  BY DEF PanelInit, StoreInit
<1>2. StoreShapes
  BY <1>1, IdleIs DEF StoreShapes
<1>3. Carried /\ Prepared
  BY <1>1, IdleIs DEF Carried, Prepared
<1>4. SettingsStick
  BY <1>1 DEF SettingsStick
<1> QED BY <1>2, <1>3, <1>4 DEF StoreInv

(* What the panel acknowledged is what it reads back, through any series of forms,  *)
(* failed writes and damaged files and any number of saves at once, but for the     *)
(* keys that a save which knew nothing of them has taken back.                    *)
THEOREM SettingsAreKept == PanelSpec => []SettingsStick
<1>1. StoreInv /\ [PanelNext]_panelVars => StoreInv'
  BY StoreStep
<1>2. StoreInv => SettingsStick
  BY DEF StoreInv
<1> QED BY <1>1, <1>2, StoreStarts, PTL DEF PanelSpec
-----------------------------------------------------------------------------
(***************************************************************************)
(* The processes.                                                            *)
(***************************************************************************)
ProcFields == {"image", "born", "name", "port", "env", "ending", "told"}
ReqFields  == {"op", "name", "pc", "rec", "child", "killed", "values", "told"}
Ops        == {"start", "stop", "restart", "status"}
Starting   == {"check", "checked", "port", "clearing", "spawn"}
Pcs        == {"idle", "look", "looked", "find", "found", "settle", "stopping"} \union Starting

IsRequest(q) ==
    /\ DOMAIN q = ReqFields
    /\ q.op \in Ops /\ q.pc \in Pcs /\ (q.pc # "idle" => q.name \in Name)
    /\ q.op = "status" => q.pc \in {"idle", "look", "looked"}
    /\ q.pc \in Starting \union {"settle"} => q.op = "start"

PanelShapes ==
    /\ born \in Nat
    /\ \A p \in DOMAIN os : DOMAIN os[p] = ProcFields /\ os[p].born \in 1..born
    /\ DOMAIN req = Req /\ \A r \in Req : IsRequest(req[r])

(* What a step of one request leaves of the others, and of its own fields.      *)
Others(r) == DOMAIN req' = Req /\ \A s \in Req : s # r => req'[s] = req[s]
Advances(r, pc) ==
    /\ Others(r) /\ DOMAIN req'[r] = ReqFields /\ req'[r].pc = pc
    /\ req'[r].op = req[r].op /\ req'[r].name = req[r].name
    /\ req'[r].values = req[r].values /\ req'[r].told = req[r].told
Ends(r) == Others(r) /\ req'[r] = IdleReq
Starts(r, n) ==
    /\ Others(r) /\ DOMAIN req'[r] = ReqFields /\ req'[r].pc = "check"
    /\ req'[r].op = "start" /\ req'[r].name = n
    /\ req'[r].rec = NoPid /\ req'[r].child = NoPid /\ req'[r].values = Load(file)

LEMMA IdleReqIs ==
    /\ IsRequest(IdleReq) /\ IdleReq.pc = "idle" /\ IdleReq.op = "status"
    /\ IdleReq.rec = NoPid /\ IdleReq.child = NoPid
BY DEF IdleReq, IsRequest, ReqFields, Ops, Pcs, Starting

LEMMA DoneEnds ==
    ASSUME PanelShapes, NEW r \in Req, Done(r)
    PROVE  Ends(r)
BY DEF PanelShapes, Done, Ends, Others

LEMMA GotoAdvances ==
    ASSUME PanelShapes, NEW r \in Req, NEW pc, Goto(r, pc)
    PROVE  Advances(r, pc) /\ req'[r].rec = req[r].rec /\ req'[r].child = req[r].child
<1>1. req' = [req EXCEPT ![r].pc = pc] /\ DOMAIN req[r] = ReqFields /\ DOMAIN req = Req
  BY DEF Goto, PanelShapes, IsRequest
<1> QED BY <1>1 DEF Advances, Others, ReqFields

LEMMA BeginStartStarts ==
    ASSUME PanelShapes, NEW r \in Req, NEW n, BeginStart(r, n)
    PROVE  Starts(r, n) \/ Ends(r)
<1> DEFINE q == [IdleReq EXCEPT !.op = "start", !.name = n, !.pc = "check", !.values = Load(file)]
<1>1. req' = [req EXCEPT ![r] = q] \/ req' = [req EXCEPT ![r] = IdleReq]
  BY DEF BeginStart
<1>2. /\ DOMAIN q = ReqFields /\ q.pc = "check" /\ q.op = "start" /\ q.name = n
      /\ q.rec = NoPid /\ q.child = NoPid /\ q.values = Load(file)
  BY DEF IdleReq, ReqFields
<1> HIDE DEF q
<1> QED BY <1>1, <1>2 DEF PanelShapes, Starts, Ends, Others

LEMMA BeginMoves ==
    ASSUME PanelShapes, NEW r \in Req, NEW op \in Ops, NEW n \in Name, Begin(r, op, n)
    PROVE  /\ req[r].pc = "idle"
           /\ \/ Ends(r)
              \/ op = "start" /\ Starts(r, n)
              \/ /\ Others(r) /\ DOMAIN req'[r] = ReqFields /\ op # "start"
                 /\ req'[r].op = op /\ req'[r].name = n
                 /\ req'[r].pc = IF op = "status" THEN "look" ELSE "find"
                 /\ req'[r].rec = NoPid /\ req'[r].child = NoPid
<1>1. CASE op = "start"
  BY <1>1, BeginStartStarts DEF Begin, At
<1>2. CASE op # "start"
  <2> DEFINE pc == IF op = "status" THEN "look" ELSE "find"
             q == [IdleReq EXCEPT !.op = op, !.name = n, !.pc = pc]
  <2>1. req' = [req EXCEPT ![r] = q] /\ req[r].pc = "idle"
    BY <1>2 DEF Begin, At
  <2>2. /\ DOMAIN q = ReqFields /\ q.pc = pc /\ q.op = op /\ q.name = n
        /\ q.rec = NoPid /\ q.child = NoPid
    BY DEF IdleReq, ReqFields
  <2> HIDE DEF q
  <2> QED BY <1>2, <2>1, <2>2 DEF PanelShapes, Others
<1> QED BY <1>1, <1>2

LEMMA ReadPidMoves ==
    ASSUME PanelShapes, NEW r \in Req, ReadPid(r)
    PROVE  /\ \/ req[r].pc = "look" /\ Advances(r, "looked")
              \/ req[r].pc = "check" /\ Advances(r, "checked")
              \/ req[r].pc = "find" /\ Advances(r, "found")
           /\ req'[r].rec = ReadPidFile(req[r].name) /\ req'[r].child = req[r].child
<1> DEFINE pc == Looks[req[r].pc]
<1>1. /\ req' = [req EXCEPT ![r].rec = ReadPidFile(req[r].name), ![r].pc = pc]
      /\ req[r].pc \in {"look", "check", "find"}
  BY DEF ReadPid, Looks, PanelShapes
<1>2. DOMAIN req[r] = ReqFields /\ DOMAIN req = Req
  BY DEF PanelShapes, IsRequest
<1>3. pc = CASE req[r].pc = "look" -> "looked" [] req[r].pc = "check" -> "checked"
             [] req[r].pc = "find" -> "found"
  BY <1>1 DEF Looks
<1> HIDE DEF pc
<1>4. Advances(r, pc) /\ req'[r].rec = ReadPidFile(req[r].name) /\ req'[r].child = req[r].child
  BY <1>1, <1>2 DEF Advances, Others, ReqFields
<1> QED BY <1>1, <1>3, <1>4

LEMMA LookMoves ==
    ASSUME PanelShapes, NEW r \in Req, Look(r)
    PROVE  /\ req[r].pc = "looked" /\ (Ends(r) \/ (req[r].op = "restart" /\ Starts(r, req[r].name)))
           /\ ClearStale(req[r].name, req[r].rec)
           /\ UNCHANGED <<os, born, place, counts, crossed>>
BY DoneEnds, BeginStartStarts DEF Look, At

LEMMA CheckMoves ==
    ASSUME PanelShapes, NEW r \in Req, CheckStopped(r)
    PROVE  /\ req[r].pc = "checked" /\ ClearStale(req[r].name, req[r].rec)
           /\ IF IsLive(req[r].rec) THEN Ends(r)
              ELSE Advances(r, "port") /\ req'[r].rec = req[r].rec /\ req'[r].child = req[r].child
           /\ UNCHANGED <<os, born, place, counts, crossed>>
BY DoneEnds, GotoAdvances DEF CheckStopped, At

(* What a process is known by stays, whatever else is noted of it.              *)
SameProcesses == DOMAIN os' = DOMAIN os /\
    \A p \in DOMAIN os : /\ os'[p].image = os[p].image /\ os'[p].born = os[p].born
                         /\ os'[p].name = os[p].name /\ os'[p].env = os[p].env
                         /\ DOMAIN os'[p] = DOMAIN os[p]

LEMMA TerminatedSame ==
    ASSUME PanelShapes, NEW p \in DOMAIN os, Terminated(p)
    PROVE  /\ SameProcesses
           /\ \A q \in DOMAIN os : q # p => os'[q] = os[q]
           /\ \A q \in DOMAIN os : os'[q].told = os[q].told
<1>1. os' = [os EXCEPT ![p].ending = TRUE] /\ \A q \in DOMAIN os : DOMAIN os[q] = ProcFields
  BY DEF Terminated, PanelShapes
<1> QED BY <1>1 DEF SameProcesses, ProcFields

LEMMA ClearPortMoves ==
    ASSUME PanelShapes, NEW r \in Req, ClearPort(r)
    PROVE  /\ req[r].pc = "port" /\ UNCHANGED <<born, pidFile, place, counts, crossed>>
           /\ \/ UNCHANGED os /\ Ends(r)
              \/ /\ UNCHANGED os /\ Advances(r, "spawn")
                 /\ req'[r].rec = req[r].rec /\ req'[r].child = req[r].child
              \/ \E p \in DOMAIN os :
                    /\ os[p].image = Ours /\ os[p].port = PortFor(req[r].name, req[r].values)
                    /\ Terminated(p) /\ Advances(r, "clearing")
                    /\ req'[r].rec = req[r].rec /\ req'[r].child = Identity(p)
<1> DEFINE L == Listeners(PortFor(req[r].name, req[r].values))
<1>1. req[r].pc = "port" /\ UNCHANGED <<born, pidFile, place, counts, crossed>>
  BY DEF ClearPort, At
<1>2. CASE L = {} /\ Goto(r, "spawn") /\ UNCHANGED os
  BY <1>1, <1>2, GotoAdvances
<1>3. ASSUME NEW p \in L, os[p].image # Ours, Done(r), UNCHANGED os
      PROVE  UNCHANGED os /\ Ends(r)
  BY <1>3, DoneEnds
<1>4. ASSUME NEW p \in L, os[p].image = Ours, Terminated(p),
             req' = [req EXCEPT ![r].pc = "clearing", ![r].child = Identity(p)]
      PROVE  /\ p \in DOMAIN os /\ os[p].port = PortFor(req[r].name, req[r].values)
             /\ Advances(r, "clearing")
             /\ req'[r].rec = req[r].rec /\ req'[r].child = Identity(p)
  <2>1. p \in DOMAIN os /\ os[p].port = PortFor(req[r].name, req[r].values)
    BY <1>4 DEF Listeners
  <2>2. DOMAIN req[r] = ReqFields /\ DOMAIN req = Req
    BY DEF PanelShapes, IsRequest
  <2> QED BY <1>4, <2>1, <2>2 DEF Advances, Others, ReqFields
<1> QED BY <1>1, <1>2, <1>3, <1>4 DEF ClearPort

LEMMA SpawnMoves ==
    ASSUME PanelShapes, NEW r \in Req, Spawn(r)
    PROVE  /\ req[r].pc = "spawn" /\ born' = born + 1 /\ UNCHANGED <<pidFile, place, counts, crossed>>
           /\ Advances(r, "settle") /\ req'[r].rec = req[r].rec
           /\ \E p \in Pid : /\ p \notin DOMAIN os /\ DOMAIN os' = DOMAIN os \union {p}
                             /\ \A q \in DOMAIN os : os'[q] = os[q]
                             /\ DOMAIN os'[p] = ProcFields /\ os'[p].born = born + 1
                             /\ os'[p].image = Ours /\ os'[p].name = req[r].name
                             /\ os'[p].env = EnvFor(req[r].name, req[r].values)
                             /\ os'[p].told = req[r].told /\ ~os'[p].ending
                             /\ req'[r].child = [pid |-> p, image |-> Ours, born |-> born + 1]
<1>1. PICK p \in Pid \ DOMAIN os :
          /\ os' = Put(os, p, [image |-> Ours, born |-> born + 1, name |-> req[r].name,
                               port |-> Unbound, env |-> EnvFor(req[r].name, req[r].values),
                               ending |-> FALSE, told |-> req[r].told])
          /\ req' = [req EXCEPT ![r].pc = "settle",
                       ![r].child = [pid |-> p, image |-> Ours, born |-> born + 1]]
  BY DEF Spawn
<1>2. req[r].pc = "spawn" /\ born' = born + 1 /\ UNCHANGED <<pidFile, place, counts, crossed>>
  BY DEF Spawn, At
<1>3. DOMAIN req[r] = ReqFields /\ DOMAIN req = Req
  BY DEF PanelShapes, IsRequest
<1>4. Advances(r, "settle") /\ req'[r].rec = req[r].rec
      /\ req'[r].child = [pid |-> p, image |-> Ours, born |-> born + 1]
  BY <1>1, <1>3 DEF Advances, Others, ReqFields
<1> DEFINE x == [image |-> Ours, born |-> born + 1, name |-> req[r].name,
                 port |-> Unbound, env |-> EnvFor(req[r].name, req[r].values),
                 ending |-> FALSE, told |-> req[r].told]
<1>5. /\ DOMAIN x = ProcFields /\ x.born = born + 1 /\ x.image = Ours /\ x.name = req[r].name
      /\ x.env = EnvFor(req[r].name, req[r].values) /\ x.told = req[r].told /\ ~x.ending
  BY DEF ProcFields
<1>6. os' = Put(os, p, x)
  BY <1>1
<1> HIDE DEF x
<1>7. DOMAIN os' = DOMAIN os \union {p} /\ os'[p] = x /\ \A q \in DOMAIN os : os'[q] = os[q]
  BY <1>6 DEF Put
<1> QED BY <1>2, <1>4, <1>5, <1>7

LEMMA SettleMoves ==
    ASSUME PanelShapes, NEW r \in Req, Settle(r)
    PROVE  /\ req[r].pc = "settle" /\ UNCHANGED <<os, born, place, counts>>
           /\ IF ~IsLive(req[r].child) THEN Ends(r) /\ UNCHANGED <<pidFile, crossed>>
              ELSE /\ Advances(r, "look") /\ req'[r].rec = req[r].rec /\ req'[r].child = req[r].child
                   /\ pidFile' = Put(pidFile, PidFileOf(req[r].name), req[r].child)
                   /\ crossed' = IF AboutToUnlink(req[r].name) THEN crossed \union {req[r].name}
                                 ELSE crossed
BY DoneEnds, GotoAdvances DEF Settle, At

LEMMA FindMoves ==
    ASSUME PanelShapes, NEW r \in Req, FindToStop(r)
    PROVE  /\ req[r].pc = "found" /\ UNCHANGED <<born, place, counts, crossed>>
           /\ IF IsLive(req[r].rec)
              THEN /\ req[r].rec.pid \in DOMAIN os /\ Terminated(req[r].rec.pid)
                   /\ UNCHANGED pidFile /\ Advances(r, "stopping")
                   /\ req'[r].rec = req[r].rec /\ req'[r].child = req[r].rec
              ELSE /\ pidFile' = Unlinked(req[r].name) /\ UNCHANGED os
                   /\ Ends(r) \/ (req[r].op = "restart" /\ Starts(r, req[r].name))
<1>1. req[r].pc = "found" /\ UNCHANGED <<born, place, counts, crossed>>
  BY DEF FindToStop, At
<1>2. CASE IsLive(req[r].rec)
  <2>1. /\ Terminated(req[r].rec.pid) /\ UNCHANGED pidFile
        /\ req' = [req EXCEPT ![r].pc = "stopping", ![r].child = req[r].rec]
    BY <1>2 DEF FindToStop
  <2>2. DOMAIN req[r] = ReqFields /\ DOMAIN req = Req
    BY DEF PanelShapes, IsRequest
  <2>3. Advances(r, "stopping") /\ req'[r].rec = req[r].rec /\ req'[r].child = req[r].rec
    BY <2>1, <2>2 DEF Advances, Others, ReqFields
  <2> QED BY <1>1, <1>2, <2>1, <2>3 DEF IsLive
<1>3. CASE ~IsLive(req[r].rec)
  BY <1>1, <1>3, DoneEnds, BeginStartStarts DEF FindToStop
<1> QED BY <1>2, <1>3

LEMMA WaitMoves ==
    ASSUME PanelShapes, NEW r \in Req, WaitEnds(r) \/ WaitTimesOut(r)
    PROVE  /\ req[r].pc \in {"stopping", "clearing"} /\ UNCHANGED <<os, born, place, crossed>>
           /\ \/ /\ ~IsLive(req[r].child) /\ req[r].pc = "stopping"
                 /\ pidFile' = Unlinked(req[r].name) /\ Advances(r, "look")
                 /\ req'[r].rec = req[r].rec /\ req'[r].child = req[r].child
              \/ /\ ~IsLive(req[r].child) /\ req[r].pc = "clearing"
                 /\ UNCHANGED pidFile /\ Advances(r, "spawn")
                 /\ req'[r].rec = req[r].rec /\ req'[r].child = req[r].child
              \/ UNCHANGED pidFile /\ Ends(r)
              \/ /\ UNCHANGED pidFile /\ Advances(r, req[r].pc)
                 /\ req'[r].rec = req[r].rec /\ req'[r].child = req[r].child
<1>1. CASE WaitEnds(r)
  BY <1>1, GotoAdvances DEF WaitEnds, At
<1>2. CASE WaitTimesOut(r)
  <2>1. /\ req[r].pc \in {"stopping", "clearing"} /\ UNCHANGED <<os, born, pidFile, place, crossed>>
        /\ Done(r) \/ req' = [req EXCEPT ![r].killed = TRUE]
    BY <1>2 DEF WaitTimesOut
  <2>2. CASE req' = [req EXCEPT ![r].killed = TRUE]
    <3>1. DOMAIN req[r] = ReqFields /\ DOMAIN req = Req
      BY DEF PanelShapes, IsRequest
    <3>2. Advances(r, req[r].pc) /\ req'[r].rec = req[r].rec /\ req'[r].child = req[r].child
      BY <2>2, <3>1 DEF Advances, Others, ReqFields
    <3> QED BY <2>1, <3>2
  <2> QED BY <2>1, <2>2, DoneEnds
<1> QED BY <1>1, <1>2
-----------------------------------------------------------------------------
(* How the processes change: those that live on are what they were, and a new one *)
(* is born after all of them.                                                  *)
LivesOn(p) ==
    /\ p \in DOMAIN os /\ os'[p].image = os[p].image /\ os'[p].born = os[p].born
    /\ os'[p].name = os[p].name /\ os'[p].env = os[p].env
Succession ==
    /\ born' \in Nat /\ born <= born'
    /\ \A p \in DOMAIN os' : DOMAIN os'[p] = ProcFields
                             /\ (LivesOn(p) \/ (os'[p].born = born + 1 /\ born' = born + 1))

LEMMA SameSucceeds ==
    ASSUME PanelShapes, SameProcesses, born' = born
    PROVE  Succession
BY DEF PanelShapes, SameProcesses, Succession, LivesOn

LEMMA UnchangedSame == ASSUME UNCHANGED os PROVE SameProcesses
BY DEF SameProcesses

LEMMA RequestSucceeds ==
    ASSUME PanelShapes, NEW r \in Req, RequestStep(r)
    PROVE  Succession
<1>1. CASE Spawn(r)
  <2>1. PICK p \in Pid : /\ p \notin DOMAIN os /\ DOMAIN os' = DOMAIN os \union {p}
                         /\ \A q \in DOMAIN os : os'[q] = os[q]
                         /\ DOMAIN os'[p] = ProcFields /\ os'[p].born = born + 1
    BY <1>1, SpawnMoves
  <2>2. born' = born + 1 /\ born \in Nat
    BY <1>1, SpawnMoves DEF PanelShapes
  <2> QED BY <2>1, <2>2 DEF PanelShapes, Succession, LivesOn
<1>2. CASE ClearPort(r)
  BY <1>2, ClearPortMoves, TerminatedSame, UnchangedSame, SameSucceeds
<1>3. CASE FindToStop(r)
  BY <1>3, FindMoves, TerminatedSame, UnchangedSame, SameSucceeds
<1>4. ASSUME NEW op, NEW n, Begin(r, op, n)
      PROVE  UNCHANGED <<os, born>>
  BY <1>4 DEF Begin
<1>5. CASE ReadPid(r) \/ Look(r) \/ CheckStopped(r) \/ Settle(r) \/ WaitEnds(r) \/ WaitTimesOut(r)
  BY <1>5, UnchangedSame, SameSucceeds DEF ReadPid, Look, CheckStopped, Settle, WaitEnds, WaitTimesOut
<1> QED BY <1>1, <1>2, <1>3, <1>4, <1>5, UnchangedSame, SameSucceeds DEF RequestStep

LEMMA ExitMoves ==
    ASSUME PanelShapes, NEW p, Exit(p)
    PROVE  /\ p \in DOMAIN os /\ DOMAIN os' = DOMAIN os \ {p} /\ \A q \in DOMAIN os' : os'[q] = os[q]
           /\ UNCHANGED <<born, pidFile, place, req, counts, crossed>>
BY DEF Exit, Gone

LEMMA BindMoves ==
    ASSUME PanelShapes, NEW p, Bind(p)
    PROVE  /\ SameProcesses /\ \A q \in DOMAIN os : os'[q].ending = os[q].ending
           /\ \A q \in DOMAIN os : os'[q].told = os[q].told
           /\ UNCHANGED <<born, pidFile, place, req, counts, crossed>>
<1>1. PICK port : os' = [os EXCEPT ![p].port = port]
  BY DEF Bind
<1>2. \A q \in DOMAIN os : DOMAIN os[q] = ProcFields
  BY DEF PanelShapes
<1>3. \A q \in DOMAIN os : os'[q].ending = os[q].ending /\ os'[q].told = os[q].told
  BY <1>1, <1>2 DEF ProcFields
<1> QED BY <1>1, <1>2, <1>3 DEF SameProcesses, ProcFields, Bind

LEMMA StrangerMoves ==
    ASSUME PanelShapes, NEW p, NEW image, NEW port, Stranger(p, image, port)
    PROVE  /\ p \notin DOMAIN os /\ DOMAIN os' = DOMAIN os \union {p}
           /\ \A q \in DOMAIN os : os'[q] = os[q]
           /\ DOMAIN os'[p] = ProcFields /\ os'[p].born = born + 1 /\ os'[p].name = "stranger"
           /\ ~os'[p].ending /\ born' = born + 1
           /\ UNCHANGED <<pidFile, place, req, crossed>>
<1> DEFINE x == [image |-> image, born |-> born + 1, name |-> "stranger",
                 port |-> port, env |-> <<>>, ending |-> FALSE, told |-> FALSE]
<1>1. /\ os' = Put(os, p, x) /\ p \notin DOMAIN os /\ born' = born + 1
      /\ UNCHANGED <<pidFile, place, req, crossed>>
  BY DEF Stranger
<1>2. DOMAIN x = ProcFields /\ x.born = born + 1 /\ x.name = "stranger" /\ ~x.ending
  BY DEF ProcFields
<1> HIDE DEF x
<1>3. DOMAIN os' = DOMAIN os \union {p} /\ os'[p] = x /\ \A q \in DOMAIN os : os'[q] = os[q]
  BY <1>1 DEF Put
<1> QED BY <1>1, <1>2, <1>3

LEMMA RepliesMoves ==
    ASSUME PanelShapes, NEW s, SaveReplies(s)
    PROVE  /\ Replace(s) /\ SameProcesses /\ \A q \in DOMAIN os : os'[q].ending = os[q].ending
           /\ \A q \in DOMAIN os : os'[q].told <=> (os[q].told \/ os[q].name \in RestartNeeded(s))
           /\ DOMAIN req' = Req
           /\ \A r \in Req : /\ DOMAIN req'[r] = ReqFields
                             /\ req'[r].op = req[r].op /\ req'[r].name = req[r].name
                             /\ req'[r].pc = req[r].pc /\ req'[r].rec = req[r].rec
                             /\ req'[r].child = req[r].child /\ req'[r].values = req[r].values
                             /\ req'[r].told <=> (req[r].told \/ (req[r].op = "start"
                                                    /\ req[r].name \in RestartNeeded(s)))
           /\ panelTold' = (panelTold \/ "panel" \in RestartNeeded(s))
           /\ UNCHANGED <<born, pidFile, logDir, bindHost, crossed>>
<1> DEFINE T == RestartNeeded(s)
<1>1. /\ Replace(s) /\ os' = [p \in DOMAIN os |-> [os[p] EXCEPT !.told = @ \/ os[p].name \in T]]
      /\ req' = [r \in Req |-> [req[r] EXCEPT !.told = @ \/ (req[r].op = "start" /\ req[r].name \in T)]]
      /\ panelTold' = (panelTold \/ "panel" \in T)
      /\ UNCHANGED <<born, pidFile, logDir, bindHost, crossed>>
  BY DEF SaveReplies
<1> HIDE DEF T
<1>2. \A q \in DOMAIN os : DOMAIN os[q] = ProcFields
  BY DEF PanelShapes
<1>3. \A q \in DOMAIN os : os'[q].told <=> (os[q].told \/ os[q].name \in T)
  BY <1>1, <1>2, Zenon DEF ProcFields
<1>4. SameProcesses /\ \A q \in DOMAIN os : os'[q].ending = os[q].ending
  BY <1>1, <1>2 DEF SameProcesses, ProcFields
<1>5. \A r \in Req : DOMAIN req[r] = ReqFields
  BY DEF PanelShapes, IsRequest
<1>6. ASSUME NEW r \in Req
      PROVE  /\ DOMAIN req'[r] = ReqFields
             /\ req'[r].op = req[r].op /\ req'[r].name = req[r].name
             /\ req'[r].pc = req[r].pc /\ req'[r].rec = req[r].rec
             /\ req'[r].child = req[r].child /\ req'[r].values = req[r].values
  BY <1>1, <1>5 DEF ReqFields
<1>7. ASSUME NEW r \in Req
      PROVE  req'[r].told <=> (req[r].told \/ (req[r].op = "start" /\ req[r].name \in T))
  BY <1>1, <1>5 DEF ReqFields
<1> QED BY <1>1, <1>3, <1>4, <1>6, <1>7 DEF T

LEMMA StepSucceeds ==
    ASSUME PanelShapes, [PanelNext]_panelVars
    PROVE  Succession
<1>1. CASE \E r \in Req : RequestStep(r)
  BY <1>1, RequestSucceeds
<1>2. CASE UNCHANGED supVars
  BY <1>2, UnchangedSame, SameSucceeds DEF supVars
<1>3. CASE \E s \in Saver : SaveReplies(s)
  BY <1>3, RepliesMoves, SameSucceeds
<1>4. ASSUME NEW p \in Pid, Bind(p)
      PROVE  Succession
  BY <1>4, BindMoves, SameSucceeds
<1>5. ASSUME NEW p \in Pid, Exit(p)
      PROVE  Succession
  <2>1. born' = born /\ DOMAIN os' \subseteq DOMAIN os /\ \A q \in DOMAIN os' : os'[q] = os[q]
    BY <1>5, ExitMoves
  <2>2. born' \in Nat /\ born <= born'
    BY <2>1 DEF PanelShapes
  <2> QED BY <2>1, <2>2 DEF Succession, LivesOn, PanelShapes
<1>6. ASSUME NEW p \in Pid, NEW image, NEW port, Stranger(p, image, port)
      PROVE  Succession
  <2>1. /\ born' = born + 1 /\ DOMAIN os' = DOMAIN os \union {p}
        /\ \A q \in DOMAIN os : os'[q] = os[q]
        /\ DOMAIN os'[p] = ProcFields /\ os'[p].born = born + 1
    BY <1>6, StrangerMoves
  <2>2. born \in Nat /\ born' \in Nat /\ born <= born'
    BY <2>1 DEF PanelShapes
  <2>3. \A q \in DOMAIN os : LivesOn(q) /\ DOMAIN os'[q] = ProcFields
    BY <2>1 DEF LivesOn, PanelShapes
  <2> QED BY <2>1, <2>2, <2>3 DEF Succession
<1>7. ASSUME NEW hasPassword, PanelRestart(hasPassword)
      PROVE  Succession
  BY <1>7, UnchangedSame, SameSucceeds DEF PanelRestart
<1> QED BY <1>1, <1>2, <1>3, <1>4, <1>5, <1>6, <1>7 DEF PanelNext, panelVars

LEMMA RequestShapes ==
    ASSUME PanelShapes, NEW r \in Req, RequestStep(r)
    PROVE  DOMAIN req' = Req /\ \A s \in Req : IsRequest(req'[s])
<1>0. IsRequest(req[r]) /\ DOMAIN req = Req /\ \A s \in Req : IsRequest(req[s])
  BY DEF PanelShapes
<1> DEFINE G == Others(r) /\ IsRequest(req'[r])
<1>1. Ends(r) => G
  BY IdleReqIs DEF Ends
<1>2. ASSUME NEW n \in Name, Starts(r, n)
      PROVE  G
  BY <1>2 DEF Starts, IsRequest, Ops, Pcs, Starting
<1>3. ASSUME NEW op \in Ops, NEW n \in Name, Begin(r, op, n)
      PROVE  G
  BY <1>1, <1>2, <1>3, BeginMoves DEF IsRequest, Ops, Pcs, Starting
<1>4. ASSUME NEW pc \in Pcs \ {"idle"}, Advances(r, pc), req[r].pc # "idle",
             req[r].op = "status" => pc \in {"look", "looked"},
             pc \in Starting \union {"settle"} => req[r].op = "start"
      PROVE  G
  BY <1>0, <1>4 DEF Advances, IsRequest
<1>5. ASSUME ReadPid(r) PROVE G
  BY <1>0, <1>4, <1>5, ReadPidMoves DEF Pcs, Starting, IsRequest
<1>6. ASSUME Look(r) PROVE G
  BY <1>0, <1>1, <1>2, <1>6, LookMoves DEF IsRequest
<1>7. ASSUME CheckStopped(r) PROVE G
  BY <1>0, <1>1, <1>4, <1>7, CheckMoves DEF Pcs, Starting, IsRequest
<1>8. ASSUME ClearPort(r) PROVE G
  <2>1. req[r].op = "start"
    BY <1>0, <1>8, ClearPortMoves DEF IsRequest, Starting
  <2>2. Ends(r) \/ Advances(r, "spawn") \/ Advances(r, "clearing")
    BY <1>8, ClearPortMoves
  <2>3. req[r].pc = "port"
    BY <1>8, ClearPortMoves
  <2> QED BY <1>1, <1>4, <2>1, <2>2, <2>3 DEF Pcs, Starting
<1>9. ASSUME Spawn(r) PROVE G
  BY <1>0, <1>4, <1>9, SpawnMoves DEF Pcs, Starting, IsRequest
<1>10. ASSUME Settle(r) PROVE G
  BY <1>0, <1>1, <1>4, <1>10, SettleMoves DEF Pcs, Starting, IsRequest
<1>11. ASSUME FindToStop(r) PROVE G
  BY <1>0, <1>1, <1>2, <1>4, <1>11, FindMoves DEF Pcs, Starting, IsRequest
<1>12. ASSUME WaitEnds(r) \/ WaitTimesOut(r) PROVE G
  BY <1>0, <1>1, <1>4, <1>12, WaitMoves DEF Pcs, Starting, IsRequest
<1>13. G
  BY <1>3, <1>5, <1>6, <1>7, <1>8, <1>9, <1>10, <1>11, <1>12 DEF RequestStep, Ops
<1> QED BY <1>0, <1>13 DEF Others

LEMMA ShapesStep ==
    ASSUME PanelShapes, [PanelNext]_panelVars
    PROVE  PanelShapes'
<1>1. Succession
  BY StepSucceeds
<1>2. ASSUME NEW p \in DOMAIN os'
      PROVE  DOMAIN os'[p] = ProcFields /\ os'[p].born \in 1..born'
  BY <1>1 DEF PanelShapes, Succession, LivesOn
<1>3. DOMAIN req' = Req /\ \A r \in Req : IsRequest(req'[r])
  <2>1. CASE UNCHANGED req
    BY <2>1 DEF PanelShapes
  <2>2. CASE \E r \in Req : RequestStep(r)
    BY <2>2, RequestShapes
  <2>3. ASSUME NEW s \in Saver, SaveReplies(s)
        PROVE  DOMAIN req' = Req /\ \A r \in Req : IsRequest(req'[r])
    BY <2>3, RepliesMoves DEF PanelShapes, IsRequest
  <2>4. ASSUME NEW hasPassword, PanelRestart(hasPassword)
        PROVE  DOMAIN req' = Req /\ \A r \in Req : IsRequest(req'[r])
    BY <2>4, IdleReqIs DEF PanelRestart
  <2>5. CASE UNCHANGED supVars
    BY <2>1, <2>5 DEF supVars
  <2>6. CASE \E p \in Pid : Bind(p) \/ Exit(p)
    BY <2>1, <2>6 DEF Bind, Exit
  <2>7. CASE \E p \in Pid, image \in {Ours, "other.exe"}, port \in {Unbound, "9000"} :
                Stranger(p, image, port)
    BY <2>1, <2>7 DEF Stranger
  <2> QED BY <2>2, <2>3, <2>4, <2>5, <2>6, <2>7 DEF PanelNext, panelVars
<1> QED BY <1>1, <1>2, <1>3 DEF PanelShapes, Succession
-----------------------------------------------------------------------------
(* Where a pid, image and creation time come from: one that is of a live process is *)
(* of a child that was started under the name it is filed and asked for under.   *)
RecOf(n, rec) ==
    /\ rec = [pid |-> rec.pid, image |-> rec.image, born |-> rec.born]
    /\ rec.born \in 0..born
    /\ IsLive(rec) => os[rec.pid].name = n /\ rec.image = Ours

Provenance ==
    /\ \A f \in DOMAIN pidFile : RecOf(f[2], pidFile[f])
    /\ \A r \in Req : /\ RecOf(req[r].name, req[r].rec)
                      /\ req[r].pc \in {"settle", "stopping"} => RecOf(req[r].name, req[r].child)

(* The same of the state a step leads to.                                      *)
LiveAfter(rec) ==
    /\ rec.pid \in DOMAIN os' /\ os'[rec.pid].image = rec.image /\ os'[rec.pid].born = rec.born
RecAfter(n, rec) ==
    /\ rec = [pid |-> rec.pid, image |-> rec.image, born |-> rec.born]
    /\ rec.born \in 0..born'
    /\ LiveAfter(rec) => os'[rec.pid].name = n /\ rec.image = Ours

LEMMA ProvenanceAfter ==
    ASSUME \A f \in DOMAIN pidFile' : RecAfter(f[2], pidFile'[f]),
           \A r \in Req : /\ RecAfter(req'[r].name, req'[r].rec)
                          /\ req'[r].pc \in {"settle", "stopping"} => RecAfter(req'[r].name, req'[r].child)
    PROVE  Provenance'
BY DEF Provenance, RecOf, IsLive, RecAfter, LiveAfter

LEMMA RecKept ==
    ASSUME PanelShapes, Succession, NEW n, NEW rec, RecOf(n, rec)
    PROVE  RecAfter(n, rec) /\ (LiveAfter(rec) => IsLive(rec) /\ LivesOn(rec.pid))
<1>1. rec.born \in 0..born' /\ rec.born # born + 1
  BY DEF RecOf, Succession, PanelShapes
<1>2. LiveAfter(rec) => IsLive(rec) /\ LivesOn(rec.pid)
  BY <1>1 DEF Succession, LiveAfter, IsLive, LivesOn
<1>3. LiveAfter(rec) => os'[rec.pid].name = n /\ rec.image = Ours
  BY <1>2 DEF RecOf, LivesOn
<1> QED BY <1>1, <1>2, <1>3 DEF RecOf, RecAfter

LEMMA NoPidIs ==
    ASSUME PanelShapes, NEW n
    PROVE  RecOf(n, NoPid) /\ ~IsLive(NoPid)
<1>1. ~IsLive(NoPid)
  <2>1. NoPid.born = 0 /\ \A p \in DOMAIN os : os[p].born # 0
    BY DEF NoPid, PanelShapes
  <2> QED BY <2>1 DEF IsLive
<1>2. NoPid.born \in 0..born
  BY DEF NoPid, PanelShapes
<1> QED BY <1>1, <1>2 DEF RecOf, NoPid

LEMMA PidFilesOf ==
    ASSUME PanelShapes, Provenance, NEW n
    PROVE  RecOf(n, ReadPidFile(n))
<1>1. PidFileOf(n)[2] = n
  BY DEF PidFileOf
<1> QED BY <1>1, NoPidIs DEF Provenance, ReadPidFile

LEMMA RequestRecs ==
    ASSUME PanelShapes, Provenance, NEW r \in Req, RequestStep(r)
    PROVE  /\ RecAfter(req'[r].name, req'[r].rec)
           /\ req'[r].pc \in {"settle", "stopping"} => RecAfter(req'[r].name, req'[r].child)
<1> DEFINE G == /\ RecAfter(req'[r].name, req'[r].rec)
                /\ req'[r].pc \in {"settle", "stopping"} => RecAfter(req'[r].name, req'[r].child)
<1>0. Succession /\ RecOf(req[r].name, req[r].rec)
      /\ (req[r].pc \in {"settle", "stopping"} => RecOf(req[r].name, req[r].child))
  BY RequestSucceeds DEF Provenance
<1>1. ASSUME req'[r].rec = NoPid, req'[r].pc \notin {"settle", "stopping"}
      PROVE  G
  BY <1>0, <1>1, NoPidIs, RecKept
<1>2. ASSUME req'[r].name = req[r].name, req'[r].rec = req[r].rec,
             req'[r].pc \notin {"settle", "stopping"}
      PROVE  G
  BY <1>0, <1>2, RecKept
<1>3. Ends(r) => G
  BY <1>1, IdleReqIs DEF Ends
<1>4. ASSUME NEW n, Starts(r, n)
      PROVE  G
  BY <1>1, <1>4 DEF Starts
<1>5. ASSUME NEW op \in Ops, NEW n \in Name, Begin(r, op, n) PROVE G
  BY <1>1, <1>3, <1>4, <1>5, BeginMoves
<1>6. ASSUME ReadPid(r) PROVE G
  <2>1. /\ req'[r].rec = ReadPidFile(req[r].name) /\ req'[r].name = req[r].name
        /\ req'[r].pc \in {"looked", "checked", "found"}
    BY <1>6, ReadPidMoves DEF Advances
  <2> QED BY <1>0, <2>1, PidFilesOf, RecKept
<1>7. ASSUME Look(r) PROVE G
  BY <1>3, <1>4, <1>7, LookMoves
<1>8. ASSUME CheckStopped(r) PROVE G
  BY <1>2, <1>3, <1>8, CheckMoves DEF Advances
<1>9. ASSUME ClearPort(r) PROVE G
  BY <1>2, <1>3, <1>9, ClearPortMoves DEF Advances
<1>10. ASSUME Spawn(r) PROVE G
  <2>1. PICK p \in Pid : /\ os'[p].image = Ours /\ os'[p].name = req[r].name
                         /\ req'[r].child = [pid |-> p, image |-> Ours, born |-> born + 1]
    BY <1>10, SpawnMoves
  <2>2. born + 1 \in 0..born' /\ req'[r].name = req[r].name /\ req'[r].rec = req[r].rec
    BY <1>10, SpawnMoves DEF PanelShapes, Advances
  <2>3. RecAfter(req'[r].name, req'[r].child)
    BY <2>1, <2>2 DEF RecAfter
  <2> QED BY <1>0, <2>2, <2>3, RecKept
<1>11. ASSUME Settle(r) PROVE G
  BY <1>2, <1>3, <1>11, SettleMoves DEF Advances
<1>12. ASSUME FindToStop(r) PROVE G
  <2>1. CASE IsLive(req[r].rec)
    BY <1>0, <1>12, <2>1, FindMoves, RecKept DEF Advances
  <2>2. CASE ~IsLive(req[r].rec)
    BY <1>3, <1>4, <1>12, <2>2, FindMoves
  <2> QED BY <2>1, <2>2
<1>13. ASSUME WaitEnds(r) \/ WaitTimesOut(r) PROVE G
  <2>1. CASE Ends(r)
    BY <1>3, <2>1
  <2>2. CASE ~Ends(r)
    <3>1. /\ req'[r].name = req[r].name /\ req'[r].rec = req[r].rec
          /\ req'[r].child = req[r].child
          /\ req'[r].pc \in {"settle", "stopping"} => req[r].pc = "stopping"
      BY <1>13, <2>2, WaitMoves DEF Advances
    <3> QED BY <1>0, <3>1, RecKept
  <2> QED BY <2>1, <2>2
<1> QED
  BY <1>5, <1>6, <1>7, <1>8, <1>9, <1>10, <1>11, <1>12, <1>13 DEF RequestStep, Ops

LEMMA RequestFiles ==
    ASSUME PanelShapes, Provenance, NEW r \in Req, RequestStep(r), NEW f \in DOMAIN pidFile'
    PROVE  \/ f \in DOMAIN pidFile /\ pidFile'[f] = pidFile[f]
           \/ /\ f = PidFileOf(req[r].name) /\ req[r].pc = "settle"
              /\ pidFile'[f] = req[r].child /\ RecOf(req[r].name, req[r].child)
<1> DEFINE G == \/ f \in DOMAIN pidFile /\ pidFile'[f] = pidFile[f]
                \/ /\ f = PidFileOf(req[r].name) /\ req[r].pc = "settle"
                   /\ pidFile'[f] = req[r].child /\ RecOf(req[r].name, req[r].child)
<1>1. ASSUME UNCHANGED pidFile PROVE G
  BY <1>1
<1>2. ASSUME NEW n, pidFile' = Unlinked(n) PROVE G
  BY <1>2 DEF Unlinked
<1>3. ASSUME Settle(r) PROVE G
  <2>1. CASE UNCHANGED pidFile
    BY <2>1
  <2>2. CASE pidFile' = Put(pidFile, PidFileOf(req[r].name), req[r].child)
    BY <1>3, <2>2, SettleMoves DEF Put, Provenance
  <2> QED BY <1>3, <2>1, <2>2, SettleMoves
<1>4. ASSUME Look(r) \/ CheckStopped(r) PROVE G
  BY <1>1, <1>2, <1>4, LookMoves, CheckMoves DEF ClearStale
<1>5. ASSUME FindToStop(r) PROVE G
  BY <1>1, <1>2, <1>5, FindMoves
<1>6. ASSUME WaitEnds(r) \/ WaitTimesOut(r) PROVE G
  BY <1>1, <1>2, <1>6, WaitMoves
<1>7. ASSUME ReadPid(r) \/ ClearPort(r) \/ Spawn(r) PROVE G
  BY <1>1, <1>7 DEF ReadPid, ClearPort, Spawn
<1>8. ASSUME NEW op, NEW n, Begin(r, op, n) PROVE G
  BY <1>1, <1>8 DEF Begin
<1> QED BY <1>3, <1>4, <1>5, <1>6, <1>7, <1>8 DEF RequestStep

(* A request moves its own entry only.                                          *)
LEMMA RequestLeavesOthers ==
    ASSUME PanelShapes, NEW r \in Req, RequestStep(r)
    PROVE  Others(r)
<1>0. \A pc, n : Advances(r, pc) \/ Ends(r) \/ Starts(r, n) => Others(r)
  BY DEF Advances, Ends, Starts
<1>1. ASSUME NEW op \in Ops, NEW n \in Name, Begin(r, op, n) PROVE Others(r)
  BY <1>0, <1>1, BeginMoves
<1>2. CASE ReadPid(r)
  BY <1>0, <1>2, ReadPidMoves
<1>3. CASE Look(r)
  BY <1>0, <1>3, LookMoves
<1>4. CASE CheckStopped(r)
  BY <1>0, <1>4, CheckMoves
<1>5. CASE ClearPort(r)
  BY <1>0, <1>5, ClearPortMoves
<1>6. CASE Spawn(r)
  BY <1>0, <1>6, SpawnMoves
<1>7. CASE Settle(r)
  BY <1>0, <1>7, SettleMoves
<1>8. CASE FindToStop(r)
  BY <1>0, <1>8, FindMoves
<1>9. CASE WaitEnds(r) \/ WaitTimesOut(r)
  BY <1>0, <1>9, WaitMoves
<1> QED BY <1>1, <1>2, <1>3, <1>4, <1>5, <1>6, <1>7, <1>8, <1>9 DEF RequestStep, Ops

LEMMA ProvenanceStep ==
    ASSUME PanelShapes, Provenance, [PanelNext]_panelVars
    PROVE  Provenance'
<1>0. Succession
  BY StepSucceeds
<1>1. ASSUME UNCHANGED pidFile,
             \A r \in Req : /\ req'[r].name = req[r].name /\ req'[r].rec = req[r].rec
                            /\ req'[r].pc = req[r].pc /\ req'[r].child = req[r].child
      PROVE  Provenance'
  BY <1>0, <1>1, RecKept, ProvenanceAfter DEF Provenance
<1>2. ASSUME UNCHANGED <<pidFile, req>>
      PROVE  Provenance'
  BY <1>1, <1>2
<1>3. ASSUME NEW r \in Req, RequestStep(r)
      PROVE  Provenance'
  <2>1. \A f \in DOMAIN pidFile' : RecAfter(f[2], pidFile'[f])
    <3> SUFFICES ASSUME NEW f \in DOMAIN pidFile'
                 PROVE  RecAfter(f[2], pidFile'[f])
      OBVIOUS
    <3>1. RecOf(f[2], pidFile'[f])
      BY <1>3, RequestFiles DEF Provenance, PidFileOf
    <3> QED BY <1>0, <3>1, RecKept
  <2>2. Others(r)
    BY <1>3, RequestLeavesOthers
  <2>3. \A s \in Req : /\ RecAfter(req'[s].name, req'[s].rec)
                       /\ req'[s].pc \in {"settle", "stopping"} => RecAfter(req'[s].name, req'[s].child)
    <3> SUFFICES ASSUME NEW s \in Req
                 PROVE  /\ RecAfter(req'[s].name, req'[s].rec)
                        /\ req'[s].pc \in {"settle", "stopping"} => RecAfter(req'[s].name, req'[s].child)
      OBVIOUS
    <3>1. CASE s = r
      BY <1>3, <3>1, RequestRecs
    <3>2. CASE s # r
      BY <1>0, <2>2, <3>2, RecKept DEF Others, Provenance
    <3> QED BY <3>1, <3>2
  <2> QED BY <2>1, <2>3, ProvenanceAfter
<1>4. ASSUME NEW s \in Saver, SaveReplies(s)
      PROVE  Provenance'
  BY <1>1, <1>4, RepliesMoves
<1>5. ASSUME NEW p \in Pid, Bind(p) \/ Exit(p)
      PROVE  Provenance'
  BY <1>2, <1>5 DEF Bind, Exit
<1>6. ASSUME NEW p \in Pid, NEW image, NEW port, Stranger(p, image, port)
      PROVE  Provenance'
  BY <1>2, <1>6 DEF Stranger
<1>7. ASSUME NEW hasPassword, PanelRestart(hasPassword)
      PROVE  Provenance'
  <2>1. req' = [r \in Req |-> IdleReq] /\ pidFile' = pidFile
    BY <1>7 DEF PanelRestart
  <2>2. \A r \in Req : req'[r].rec = NoPid /\ req'[r].pc = "idle"
    BY <2>1, IdleReqIs
  <2> QED BY <1>0, <2>1, <2>2, NoPidIs, RecKept, ProvenanceAfter DEF Provenance
<1>8. CASE UNCHANGED supVars
  BY <1>2, <1>8 DEF supVars
<1> QED
  BY <1>3, <1>4, <1>5, <1>6, <1>7, <1>8 DEF PanelNext, panelVars

LEMMA PanelStarts == PanelInit => PanelShapes /\ Provenance
<1> SUFFICES ASSUME PanelInit
             PROVE  PanelShapes /\ Provenance
  OBVIOUS
<1>1. /\ DOMAIN os = {} /\ DOMAIN pidFile = {} /\ born = 0
      /\ req = [r \in Req |-> IdleReq]
  BY DEF PanelInit
<1>2. PanelShapes
  BY <1>1, IdleReqIs DEF PanelShapes
<1> QED BY <1>1, <1>2, IdleReqIs, NoPidIs DEF Provenance

THEOREM PanelKnowsItsOwn == PanelSpec => [](PanelShapes /\ Provenance)
<1>1. PanelShapes /\ Provenance /\ [PanelNext]_panelVars => PanelShapes' /\ Provenance'
  BY ShapesStep, ProvenanceStep
<1> QED BY <1>1, PanelStarts, PTL DEF PanelSpec

(* What the panel terminates is a child it started, or a process of the same     *)
(* image that holds the port a start is about to use.                          *)
THEOREM OnlyOursAreKilled == PanelSpec => KillsOnlyOurs
<1> DEFINE A == \A p \in DOMAIN os : (p \in DOMAIN os' /\ os'[p].ending /\ ~os[p].ending) =>
                   /\ os[p].image = Ours
                   /\ os[p].name \in Name
                      \/ \E r \in Req : /\ req[r].pc = "port"
                                        /\ os[p].port = PortFor(req[r].name, req[r].values)
<1>1. ASSUME PanelShapes, Provenance, PanelNext
      PROVE  A
  <2> SUFFICES ASSUME NEW p \in DOMAIN os, p \in DOMAIN os', os'[p].ending, ~os[p].ending
               PROVE  /\ os[p].image = Ours
                      /\ os[p].name \in Name
                         \/ \E r \in Req : /\ req[r].pc = "port"
                                           /\ os[p].port = PortFor(req[r].name, req[r].values)
    OBVIOUS
  <2>1. \/ UNCHANGED os
        \/ \E r \in Req : ClearPort(r) \/ FindToStop(r) \/ Spawn(r)
        \/ \E s : SaveReplies(s)
        \/ \E q : Bind(q) \/ Exit(q) \/ \E image, port : Stranger(q, image, port)
    BY <1>1 DEF PanelNext, RequestStep, Begin, ReadPid, Look, CheckStopped, Settle, WaitEnds,
                WaitTimesOut, SettingsStep, PanelRestart, supVars
  <2>2. ASSUME NEW r \in Req, ClearPort(r)
        PROVE  /\ os[p].image = Ours /\ req[r].pc = "port"
               /\ os[p].port = PortFor(req[r].name, req[r].values)
    BY <1>1, <2>2, ClearPortMoves, TerminatedSame
  <2>3. ASSUME NEW r \in Req, FindToStop(r)
        PROVE  os[p].image = Ours /\ os[p].name \in Name
    <3>1. IsLive(req[r].rec) /\ p = req[r].rec.pid /\ req[r].pc = "found"
      BY <1>1, <2>3, FindMoves, TerminatedSame
    <3>2. RecOf(req[r].name, req[r].rec) /\ req[r].name \in Name
      BY <1>1, <3>1 DEF Provenance, PanelShapes, IsRequest
    <3> QED BY <3>1, <3>2 DEF RecOf, IsLive
  <2>4. ASSUME NEW r \in Req, Spawn(r) PROVE FALSE
    BY <1>1, <2>4, SpawnMoves
  <2>5. ASSUME NEW s, SaveReplies(s) PROVE FALSE
    BY <1>1, <2>5, RepliesMoves
  <2>6. ASSUME NEW q, Bind(q) PROVE FALSE
    BY <1>1, <2>6, BindMoves
  <2>7. ASSUME NEW q, Exit(q) PROVE FALSE
    BY <1>1, <2>7, ExitMoves
  <2>8. ASSUME NEW q, NEW image, NEW port, Stranger(q, image, port) PROVE FALSE
    BY <1>1, <2>8, StrangerMoves
  <2> QED BY <2>1, <2>2, <2>3, <2>4, <2>5, <2>6, <2>7, <2>8
<1>2. PanelShapes /\ Provenance /\ [PanelNext]_panelVars => [A]_panelVars
  BY <1>1
<1> HIDE DEF A
<1>3. PanelSpec => [][A]_panelVars
  BY <1>2, PanelKnowsItsOwn, PTL DEF PanelSpec
<1> QED BY <1>3 DEF KillsOnlyOurs, A
-----------------------------------------------------------------------------
(* Who runs under a name, and whether its pid file says so.                     *)
Children(n) == {p \in DOMAIN os : os[p].name = n}
Named(n) == \A p \in Children(n) : ReadPidFile(n) = Identity(p)

(* What the request that acts on a name knows of the child, by how far it is.    *)
Phase(n, r) ==
    /\ req[r].pc \in {"check", "find", "look"} => Named(n)
    /\ req[r].pc \in {"checked", "found", "looked"} =>
          Named(n) /\ \A p \in Children(n) : req[r].rec = Identity(p)
    /\ req[r].pc = "stopping" => Named(n) /\ \A p \in Children(n) : req[r].child = Identity(p)
    /\ req[r].pc \in {"port", "clearing", "spawn"} => Children(n) = {}
    /\ req[r].pc = "settle" => \A p \in Children(n) : req[r].child = Identity(p)

(* One request acts on the name, and knows its child; when none does, the pid     *)
(* file names it; and whoever is about to unlink that file, having read of a      *)
(* child that is gone, does so before the next child has its file.             *)
AloneFor(n) ==
    /\ \A r, s \in Acting(n) : r = s
    /\ \A r \in Acting(n) : Phase(n, r)
    /\ Acting(n) = {} => Named(n)
    /\ AboutToUnlink(n) => \A p \in Children(n) : \E r \in Acting(n) : At(r, "settle")

Alone == \A n \in Name : n \notin crossed => AloneFor(n)

LEMMA IdentityLives ==
    ASSUME NEW p \in DOMAIN os
    PROVE  IsLive(Identity(p)) /\ Identity(p).pid = p
BY DEF IsLive, Identity

LEMMA NoPidIsNone ==
    ASSUME PanelShapes, NEW p \in DOMAIN os
    PROVE  Identity(p) # NoPid
BY IdentityLives, NoPidIs

(* At most one process runs under such a name.                                  *)
LEMMA OneAtMost ==
    ASSUME PanelShapes, NEW n, AloneFor(n), NEW p \in Children(n), NEW q \in Children(n)
    PROVE  p = q
<1>1. ASSUME NEW rec, rec = Identity(p), rec = Identity(q)
      PROVE  p = q
  BY <1>1 DEF Identity
<1>2. CASE Acting(n) = {}
  BY <1>1, <1>2 DEF AloneFor, Named
<1>3. ASSUME NEW r \in Acting(n)
      PROVE  p = q
  <2>1. Phase(n, r) /\ req[r].pc \in Pcs /\ req[r].pc # "idle"
    BY DEF AloneFor, PanelShapes, IsRequest, Acting, At
  <2>2. CASE Named(n)
    BY <1>1, <2>2 DEF Named
  <2>3. CASE req[r].pc = "settle"
    BY <1>1, <2>1, <2>3 DEF Phase
  <2> QED BY <2>1, <2>2, <2>3 DEF Phase, Pcs, Starting
<1> QED BY <1>2, <1>3

(* A name is none the worse for what happens under others, nor for a child that   *)
(* ends.                                                                       *)
LEMMA Undisturbed ==
    ASSUME PanelShapes, Provenance, Succession, NEW n, AloneFor(n),
           \A p \in DOMAIN os' : os'[p].name = n => LivesOn(p),
           ReadPidFile(n)' = ReadPidFile(n),
           \A s \in Req : /\ s \in Acting(n)' <=> s \in Acting(n)
                          /\ s \in Acting(n) => /\ req'[s].pc = req[s].pc /\ req'[s].rec = req[s].rec
                                                /\ req'[s].child = req[s].child,
           \A s \in Req : req'[s].pc = "looked" /\ req'[s].name = n =>
                            req[s].pc = "looked" /\ req[s].name = n /\ req'[s].rec = req[s].rec
    PROVE  AloneFor(n)'
<1>1. Acting(n)' = Acting(n)
  BY DEF Acting
<1>2. ASSUME NEW p \in Children(n)'
      PROVE  p \in Children(n) /\ Identity(p)' = Identity(p) /\ LivesOn(p)
  BY DEF Children, Identity, LivesOn
<1>3. Named(n) => Named(n)'
  BY <1>2 DEF Named
<1>4. ASSUME NEW r \in Acting(n)
      PROVE  Phase(n, r)'
  <2>1. Phase(n, r) /\ req'[r].pc = req[r].pc /\ req'[r].rec = req[r].rec /\ req'[r].child = req[r].child
    BY <1>4 DEF AloneFor, Acting
  <2>2. Children(n) = {} => Children(n)' = {}
    BY <1>2
  <2> QED BY <1>2, <1>3, <2>1, <2>2 DEF Phase
<1>5. ASSUME AboutToUnlink(n)', NEW p \in Children(n)'
      PROVE  \E r \in Acting(n) : req[r].pc = "settle"
  <2>1. PICK s \in Req : /\ req'[s].pc = "looked" /\ req'[s].name = n
                         /\ req'[s].rec # NoPid /\ ~LiveAfter(req'[s].rec)
    BY <1>5 DEF AboutToUnlink, At, IsLive, LiveAfter
  <2>2. req[s].pc = "looked" /\ req[s].name = n /\ req'[s].rec = req[s].rec
    BY <2>1
  <2>3. CASE ~IsLive(req[s].rec)
    <3>1. AboutToUnlink(n)
      BY <2>1, <2>2, <2>3 DEF AboutToUnlink, At
    <3> QED BY <1>2, <3>1 DEF AloneFor, At
  <2>4. CASE IsLive(req[s].rec)
    <3>1. req[s].rec.pid \in Children(n)
      BY <2>2, <2>4 DEF Provenance, RecOf, IsLive, Children
    <3>2. p = req[s].rec.pid
      BY <1>2, <3>1, OneAtMost
    <3>3. LiveAfter(req[s].rec)
      BY <1>2, <2>4, <3>2 DEF IsLive, LiveAfter, LivesOn, Children
    <3> QED BY <2>1, <2>2, <3>3
  <2> QED BY <2>3, <2>4
<1>6. AboutToUnlink(n)' => \A p \in Children(n)' : \E r \in Acting(n)' : At(r, "settle")'
  <2> SUFFICES ASSUME AboutToUnlink(n)', NEW p \in Children(n)'
               PROVE  \E r \in Acting(n)' : At(r, "settle")'
    OBVIOUS
  <2>1. PICK r \in Acting(n) : req[r].pc = "settle"
    BY <1>5
  <2>2. r \in Acting(n)' /\ req'[r].pc = "settle"
    BY <1>1, <2>1 DEF Acting
  <2> QED BY <2>2 DEF At
<1> QED BY <1>1, <1>3, <1>4, <1>6 DEF AloneFor

(* A step of the one request that acts on a name.                               *)
LEMMA ActorAlone ==
    ASSUME NEW r \in Req, NEW n, AloneFor(n), r \in Acting(n), Others(r),
           req'[r].pc # "idle" => req'[r].name = n /\ req'[r].op # "status" /\ Phase(n, r)',
           req'[r].pc = "idle" => Named(n)',
           AboutToUnlink(n)' => \A p \in Children(n)' : req'[r].pc = "settle"
    PROVE  AloneFor(n)'
<1>1. \A s \in Acting(n) : s = r
  BY DEF AloneFor
<1>2. \A s \in Acting(n)' : s = r /\ req'[r].pc # "idle"
  BY <1>1 DEF Acting, At, Others
<1>3. req'[r].pc # "idle" => r \in Acting(n)'
  BY DEF Acting, At
<1>4. AboutToUnlink(n)' => \A p \in Children(n)' : \E s \in Acting(n)' : At(s, "settle")'
  BY <1>3 DEF At
<1>5. Acting(n)' = {} => Named(n)'
  BY <1>3
<1>6. \A s, t \in Acting(n)' : s = t
  BY <1>2
<1>7. \A s \in Acting(n)' : Phase(n, s)'
  BY <1>2
<1> QED BY <1>4, <1>5, <1>6, <1>7 DEF AloneFor

LEMMA ChildlessAlone ==
    ASSUME NEW r \in Req, NEW n, AloneFor(n), r \in Acting(n), Others(r),
           req'[r].pc # "idle" => req'[r].name = n /\ req'[r].op # "status",
           Children(n)' = {}
    PROVE  AloneFor(n)'
<1>1. Named(n)' /\ Phase(n, r)'
  BY DEF Named, Phase
<1> QED BY <1>1, ActorAlone

LEMMA SameChildren ==
    ASSUME SameProcesses, NEW n
    PROVE  /\ Children(n)' = Children(n) /\ \A p \in Children(n) : Identity(p)' = Identity(p)
           /\ \A rec : LiveAfter(rec) <=> IsLive(rec)
           /\ ReadPidFile(n)' = ReadPidFile(n) => (Named(n)' <=> Named(n))
<1>1. \A p : p \in Children(n)' <=> p \in Children(n)
  BY DEF SameProcesses, Children
<1>2. \A p \in Children(n) : Identity(p)' = Identity(p)
  BY DEF SameProcesses, Children, Identity
<1>3. \A rec : LiveAfter(rec) <=> IsLive(rec)
  BY DEF SameProcesses, LiveAfter, IsLive
<1>4. ReadPidFile(n)' = ReadPidFile(n) => (Named(n)' <=> Named(n))
  BY <1>1, <1>2 DEF Named
<1> QED BY <1>1, <1>2, <1>3, <1>4

(* Who was to unlink a name's file after a step was before it, when no process     *)
(* ended and nobody but those who acted has read the file.                      *)
LEMMA AboutBefore ==
    ASSUME PanelShapes, Provenance, NEW r \in Req, NEW n, Others(r), Succession,
           \A p \in DOMAIN os : p \in DOMAIN os' /\ LivesOn(p),
           req'[r].pc # "looked", AboutToUnlink(n)'
    PROVE  AboutToUnlink(n)
<1>1. PICK s \in Req : /\ req'[s].pc = "looked" /\ req'[s].name = n
                       /\ req'[s].rec # NoPid /\ ~LiveAfter(req'[s].rec)
  BY DEF AboutToUnlink, At, IsLive, LiveAfter
<1>2. req'[s] = req[s]
  BY <1>1 DEF Others
<1>3. ~IsLive(req[s].rec)
  BY <1>1, <1>2 DEF IsLive, LiveAfter, LivesOn
<1> QED BY <1>1, <1>2, <1>3 DEF AboutToUnlink, At

LEMMA SameLivesOn ==
    ASSUME SameProcesses
    PROVE  \A p \in DOMAIN os : p \in DOMAIN os' /\ LivesOn(p)
BY DEF SameProcesses, LivesOn

(* Nobody is about to unlink the file of a child, unless it has none yet.         *)
LEMMA NoneAbout ==
    ASSUME NEW n, AloneFor(n), NEW r \in Acting(n), req[r].pc # "settle", AboutToUnlink(n)
    PROVE  Children(n) = {}
BY DEF AloneFor, At

LEMMA KnownIsLive ==
    ASSUME NEW n, NEW rec, \A p \in Children(n) : rec = Identity(p), ~IsLive(rec)
    PROVE  Children(n) = {}
BY IdentityLives DEF Children

(* A step that leaves the processes and the pid file as they are, of the request   *)
(* that acts on a name.                                                        *)
LEMMA ActorQuiet ==
    ASSUME PanelShapes, Provenance, Succession, NEW r \in Req, NEW n, AloneFor(n), r \in Acting(n),
           Others(r), SameProcesses, ReadPidFile(n)' = ReadPidFile(n),
           Named(n), req[r].pc # "settle", req'[r].pc # "looked",
           req'[r].pc # "idle" =>
              /\ req'[r].name = n /\ req'[r].op # "status"
              /\ \/ req'[r].pc \in {"check", "find", "look"}
                 \/ req'[r].pc \in {"checked", "found"} /\ \A p \in Children(n) : req'[r].rec = Identity(p)
                 \/ req'[r].pc = "stopping" /\ \A p \in Children(n) : req'[r].child = Identity(p)
    PROVE  AloneFor(n)'
<1>1. /\ Named(n)' /\ Children(n)' = Children(n)
      /\ \A p \in Children(n) : Identity(p)' = Identity(p)
  BY SameChildren
<1>2. req'[r].pc # "idle" => Phase(n, r)'
  BY <1>1 DEF Phase
<1>3. AboutToUnlink(n)' => Children(n)' = {}
  BY <1>1, SameLivesOn, AboutBefore, NoneAbout
<1> QED BY <1>1, <1>2, <1>3, ActorAlone

LEMMA UnlinkedRead ==
    ASSUME NEW n, NEW m, pidFile' = Unlinked(m) \/ pidFile' = pidFile, logDir' = logDir
    PROVE  n # m \/ pidFile' = pidFile => ReadPidFile(n)' = ReadPidFile(n)
BY DEF ReadPidFile, PidFileOf, Unlinked

(* A request of another name, or one that only looks or has not begun to act.       *)
LEMMA BeginAlone ==
    ASSUME PanelShapes, Provenance, NEW r \in Req, NEW op \in Ops, NEW m \in Name, Begin(r, op, m),
           NEW n \in Name, n \notin crossed', AloneFor(n)
    PROVE  AloneFor(n)'
<1>1. /\ UNCHANGED <<os, born, pidFile, place>> /\ req[r].pc = "idle"
      /\ crossed' = IF op # "status" /\ Acting(m) # {} THEN crossed \union {m} ELSE crossed
  BY DEF Begin, At
<1>2. SameProcesses /\ Succession /\ ReadPidFile(n)' = ReadPidFile(n)
  <2>1. logDir' = logDir
    BY <1>1 DEF place
  <2> QED BY <1>1, <2>1, UnchangedSame, SameSucceeds DEF ReadPidFile, PidFileOf
<1>3. Others(r) /\ req'[r].pc # "looked"
  BY BeginMoves, IdleReqIs DEF Ends, Starts
<1>4. r \notin Acting(n)
  BY <1>1 DEF Acting, At
<1>5. CASE r \notin Acting(n)'
  <2>1. \A s \in Req : s # r => req'[s] = req[s]
    BY <1>3 DEF Others
  <2>2. \A s \in Req : /\ s \in Acting(n)' <=> s \in Acting(n)
                       /\ s \in Acting(n) => /\ req'[s].pc = req[s].pc /\ req'[s].rec = req[s].rec
                                             /\ req'[s].child = req[s].child
    BY <1>4, <1>5, <2>1 DEF Acting, At
  <2>3. \A p \in DOMAIN os' : os'[p].name = n => LivesOn(p)
    BY <1>1 DEF LivesOn
  <2> QED BY <1>2, <1>3, <2>1, <2>2, <2>3, Undisturbed
<1>6. CASE r \in Acting(n)'
  <2>1. m = n /\ op # "status" /\ req'[r].pc \in {"check", "find"}
    BY <1>6, BeginMoves, IdleReqIs DEF Ends, Starts, Acting, At, Ops
  <2>2. Acting(n) = {}
    BY <1>1, <2>1
  <2>3. Named(n)' /\ Children(n)' = Children(n)
    BY <1>2, <2>2, SameChildren DEF AloneFor
  <2>4. \A s \in Acting(n)' : s = r
    BY <1>3, <2>2 DEF Acting, At, Others
  <2>5. Phase(n, r)'
    BY <2>1, <2>3 DEF Phase
  <2>6. AboutToUnlink(n)' => Children(n)' = {}
    BY <1>2, <1>3, <2>2, <2>3, SameLivesOn, AboutBefore DEF AloneFor
  <2>7. \A s, t \in Acting(n)' : s = t
    BY <2>4
  <2>8. \A s \in Acting(n)' : Phase(n, s)'
    BY <2>4, <2>5
  <2> QED BY <1>6, <2>3, <2>6, <2>7, <2>8 DEF AloneFor
<1> QED BY <1>5, <1>6

(* A step of a request that does not act on the name.                           *)
LEMMA BystanderAlone ==
    ASSUME PanelShapes, Provenance, Succession, NEW r \in Req, NEW n, AloneFor(n),
           r \notin Acting(n), Others(r),
           req'[r].pc # "idle" => req'[r].op = req[r].op \/ (req[r].op = "restart" /\ req'[r].op = "start"),
           req'[r].pc # "idle" => req'[r].name = req[r].name,
           req[r].pc # "idle",
           \A p \in DOMAIN os' : os'[p].name = n => LivesOn(p),
           ReadPidFile(n)' = ReadPidFile(n),
           req'[r].pc = "looked" => req[r].name # n
    PROVE  AloneFor(n)'
<1>1. \A s \in Req : s # r => req'[s] = req[s]
  BY DEF Others
<1>2. r \notin Acting(n)'
  BY DEF Acting, At
<1>3. \A s \in Req : /\ s \in Acting(n)' <=> s \in Acting(n)
                     /\ s \in Acting(n) => /\ req'[s].pc = req[s].pc /\ req'[s].rec = req[s].rec
                                           /\ req'[s].child = req[s].child
  BY <1>1, <1>2 DEF Acting, At
<1>4. \A s \in Req : req'[s].pc = "looked" /\ req'[s].name = n =>
                       req[s].pc = "looked" /\ req[s].name = n /\ req'[s].rec = req[s].rec
  BY <1>1
<1> QED BY <1>3, <1>4, Undisturbed

(* ... and that runs nothing.                                                  *)
LEMMA StrandedAlone ==
    ASSUME NEW r \in Req, NEW n, AloneFor(n), r \notin Acting(n), Others(r),
           req'[r].pc # "idle" => req'[r].op = req[r].op \/ (req[r].op = "restart" /\ req'[r].op = "start"),
           req'[r].pc # "idle" => req'[r].name = req[r].name,
           req[r].pc # "idle", Children(n)' = {}
    PROVE  AloneFor(n)'
<1>1. \A s \in Req : s # r => req'[s] = req[s]
  BY DEF Others
<1>2. \A s \in Acting(n)' : s \in Acting(n)
  BY <1>1 DEF Acting, At
<1>3. Named(n)' /\ \A s : Phase(n, s)'
  BY DEF Named, Phase
<1>4. \A s, t \in Acting(n)' : s = t
  BY <1>2 DEF AloneFor
<1> QED BY <1>3, <1>4 DEF AloneFor

LEMMA NamedUnlessSettling ==
    ASSUME PanelShapes, NEW n, AloneFor(n)
    PROVE  Named(n) \/ \E t \in Acting(n) : req[t].pc = "settle"
<1>1. ASSUME NEW t \in Acting(n), req[t].pc # "settle"
      PROVE  Named(n)
  <2>1. Phase(n, t) /\ req[t].pc \in Pcs /\ req[t].pc # "idle"
    BY DEF AloneFor, PanelShapes, IsRequest, Acting, At
  <2>2. Children(n) = {} => Named(n)
    BY DEF Named
  <2> QED BY <1>1, <2>1, <2>2 DEF Phase, Pcs, Starting
<1> QED BY <1>1 DEF AloneFor

(* A request that looks at a child reads the pid file: if that file names nobody    *)
(* alive, nobody is, unless the one that acts has just spawned a child.          *)
LEMMA ReadPidAlone ==
    ASSUME PanelShapes, Provenance, NEW r \in Req, ReadPid(r), NEW n \in Name, AloneFor(n)
    PROVE  AloneFor(n)'
<1>1. UNCHANGED <<os, born, pidFile, place, crossed>>
  BY DEF ReadPid
<1>2. SameProcesses /\ Succession /\ ReadPidFile(n)' = ReadPidFile(n)
  <2>1. logDir' = logDir
    BY <1>1 DEF place
  <2> QED BY <1>1, <2>1, UnchangedSame, SameSucceeds DEF ReadPidFile, PidFileOf
<1>3. /\ Others(r) /\ req'[r].op = req[r].op /\ req'[r].name = req[r].name
      /\ req'[r].rec = ReadPidFile(req[r].name)
  BY ReadPidMoves DEF Advances
<1>4. req[r].pc \in {"look", "check", "find"} /\ req'[r].pc \in {"looked", "checked", "found"}
  BY ReadPidMoves DEF Advances
<1>5. /\ Children(n)' = Children(n) /\ \A p \in Children(n) : Identity(p)' = Identity(p)
      /\ Named(n)' <=> Named(n)
  BY <1>2, SameChildren
<1>6. \A t \in Req : t # r => req'[t] = req[t]
  BY <1>3 DEF Others
<1>7. Acting(n)' = Acting(n)
  <2>1. \A t \in Req : t \in Acting(n)' <=> t \in Acting(n)
    BY <1>3, <1>4, <1>6 DEF Acting, At
  <2> QED BY <2>1 DEF Acting
<1>8. ASSUME NEW t \in Acting(n)
      PROVE  Phase(n, t)'
  <2>1. Phase(n, t) /\ t \in Req /\ req[t].name = n
    BY DEF AloneFor, Acting
  <2>2. CASE t # r
    BY <1>5, <1>6, <2>1, <2>2 DEF Phase
  <2>3. CASE t = r
    <3>1. Named(n) /\ \A p \in Children(n) : req'[r].rec = Identity(p)
      BY <1>3, <1>4, <2>1, <2>3 DEF Phase, Named
    <3> QED BY <1>4, <1>5, <2>3, <3>1 DEF Phase
  <2> QED BY <2>2, <2>3
<1>9. ASSUME AboutToUnlink(n)', NEW p \in Children(n)'
      PROVE  \E t \in Acting(n) : req'[t].pc = "settle"
  <2>1. CASE \E t \in Acting(n) : req[t].pc = "settle"
    BY <1>4, <1>6, <2>1 DEF Acting
  <2>2. CASE ~ \E t \in Acting(n) : req[t].pc = "settle"
    <3>1. Named(n) /\ p \in Children(n)
      BY <1>5, <1>9, <2>2, NamedUnlessSettling
    <3>2. PICK s \in Req : /\ req'[s].pc = "looked" /\ req'[s].name = n
                           /\ req'[s].rec # NoPid /\ ~LiveAfter(req'[s].rec)
      BY <1>9 DEF AboutToUnlink, At, IsLive, LiveAfter
    <3>3. ~IsLive(req'[s].rec)
      BY <1>2, <3>2 DEF SameProcesses, IsLive, LiveAfter
    <3>4. s # r
      <4>1. IsLive(ReadPidFile(n))
        BY <3>1, IdentityLives DEF Named, Children
      <4> QED BY <1>3, <3>2, <3>3, <4>1
    <3>5. AboutToUnlink(n)
      BY <1>6, <3>2, <3>3, <3>4 DEF AboutToUnlink, At
    <3> QED BY <2>2, <3>1, <3>5 DEF AloneFor, At
  <2> QED BY <2>1, <2>2
<1>10. Acting(n) = {} => Named(n)'
  BY <1>5 DEF AloneFor
<1>11. \A s, t \in Acting(n) : s = t
  BY DEF AloneFor
<1> QED BY <1>7, <1>8, <1>9, <1>10, <1>11 DEF AloneFor, At

(* A stale file is unlinked only when nobody runs under its name, or the one that   *)
(* acts has yet to write it.                                                    *)
LEMMA LookAlone ==
    ASSUME PanelShapes, Provenance, NEW r \in Req, Look(r), NEW n \in Name, AloneFor(n)
    PROVE  AloneFor(n)'
<1>1. /\ req[r].pc = "looked" /\ UNCHANGED <<os, born, place, counts, crossed>>
      /\ Ends(r) \/ (req[r].op = "restart" /\ Starts(r, req[r].name))
      /\ ClearStale(req[r].name, req[r].rec)
  BY LookMoves
<1>2. SameProcesses /\ Succession /\ logDir' = logDir
  BY <1>1, UnchangedSame, SameSucceeds DEF place
<1>3. /\ Others(r) /\ req'[r].pc \in {"idle", "check"}
      /\ req'[r].pc # "idle" => req'[r].name = req[r].name /\ req[r].op = "restart" /\ req'[r].op = "start"
  BY <1>1, IdleReqIs DEF Ends, Starts
<1>4. Children(n)' = Children(n) /\ \A p \in DOMAIN os' : os'[p].name = n => LivesOn(p)
  BY <1>1, <1>2, SameChildren DEF LivesOn
<1>5. CASE ReadPidFile(n)' = ReadPidFile(n)
  <2>1. CASE r \in Acting(n)
    <3>1. Named(n)
      BY <1>1, <2>1 DEF AloneFor, Phase
    <3> QED BY <1>1, <1>2, <1>3, <1>5, <2>1, <3>1, ActorQuiet DEF Acting
  <2>2. CASE r \notin Acting(n)
    BY <1>1, <1>2, <1>3, <1>4, <1>5, <2>2, BystanderAlone
  <2> QED BY <2>1, <2>2
<1>6. CASE ReadPidFile(n)' # ReadPidFile(n)
  <2>1. req[r].name = n /\ req[r].rec # NoPid /\ ~IsLive(req[r].rec)
    BY <1>1, <1>2, <1>6, UnlinkedRead DEF ClearStale
  <2>2. AboutToUnlink(n)
    BY <1>1, <2>1 DEF AboutToUnlink, At
  <2>3. CASE Children(n) = {}
    <3>1. CASE r \in Acting(n)
      BY <1>3, <1>4, <2>1, <2>3, <3>1, ChildlessAlone
    <3>2. CASE r \notin Acting(n)
      BY <1>1, <1>3, <1>4, <2>3, <3>2, StrandedAlone
    <3> QED BY <3>1, <3>2
  <2>4. CASE Children(n) # {}
    <3>1. PICK t \in Acting(n) : req[t].pc = "settle"
      BY <2>2, <2>4 DEF AloneFor, At
    <3>2. r \notin Acting(n) /\ t # r /\ t \in Req
      BY <1>1, <3>1 DEF AloneFor, Acting
    <3>3. req'[t] = req[t]
      BY <1>3, <3>2 DEF Others
    <3>4. \A s \in Acting(n) : s = t
      BY <3>1 DEF AloneFor
    <3>5. \A s \in Acting(n)' : s = t
      BY <1>1, <1>3, <3>2, <3>4 DEF Acting, At, Others
    <3>6. t \in Acting(n)'
      BY <3>1, <3>2, <3>3 DEF Acting, At
    <3>7. Phase(n, t)'
      <4>1. \A p \in Children(n) : req[t].child = Identity(p) /\ Identity(p)' = Identity(p)
        BY <1>2, <3>1, SameChildren DEF AloneFor, Phase
      <4> QED BY <1>4, <3>1, <3>3, <4>1 DEF Phase
    <3>8. \A q, s \in Acting(n)' : q = s
      BY <3>5
    <3>9. \A s \in Acting(n)' : Phase(n, s)'
      BY <3>5, <3>7
    <3>10. Acting(n)' # {} /\ At(t, "settle")'
      BY <3>1, <3>3, <3>6 DEF At
    <3> QED BY <3>6, <3>8, <3>9, <3>10 DEF AloneFor
  <2> QED BY <2>3, <2>4
<1> QED BY <1>5, <1>6

(* What is left of a request that acts: its steps under other names.              *)
ActorStep(r) ==
    CheckStopped(r) \/ ClearPort(r) \/ Spawn(r) \/ Settle(r) \/ FindToStop(r) \/ WaitEnds(r) \/ WaitTimesOut(r)

LEMMA ActorMoves ==
    ASSUME PanelShapes, NEW r \in Req, ActorStep(r)
    PROVE  /\ r \in Acting(req[r].name) /\ req[r].name \in Name /\ req[r].pc # "idle" /\ Others(r)
           /\ req'[r].pc # "looked"
           /\ req'[r].pc # "idle" =>
                /\ req'[r].name = req[r].name /\ req'[r].op # "status"
                /\ req'[r].op = req[r].op \/ (req[r].op = "restart" /\ req'[r].op = "start")
<1>1. req[r].pc \in {"checked", "port", "spawn", "settle", "found", "stopping", "clearing"}
  BY CheckMoves, ClearPortMoves, SpawnMoves, SettleMoves, FindMoves, WaitMoves DEF ActorStep
<1>2. r \in Acting(req[r].name) /\ req[r].name \in Name /\ req[r].pc # "idle" /\ req[r].op # "status"
  BY <1>1 DEF PanelShapes, IsRequest, Acting, At
<1>3. \/ Ends(r)
      \/ req[r].op = "restart" /\ Starts(r, req[r].name)
      \/ \E pc \in {"port", "spawn", "clearing", "settle", "look", "stopping"} : Advances(r, pc)
  <2>1. CASE WaitEnds(r) \/ WaitTimesOut(r)
    BY <2>1, WaitMoves
  <2>2. CASE ClearPort(r)
    BY <2>2, ClearPortMoves
  <2>3. CASE CheckStopped(r) \/ Spawn(r) \/ Settle(r) \/ FindToStop(r)
    BY <2>3, CheckMoves, SpawnMoves, SettleMoves, FindMoves
  <2> QED BY <2>1, <2>2, <2>3 DEF ActorStep
<1> QED BY <1>2, <1>3, IdleReqIs DEF Ends, Starts, Advances

LEMMA OtherNameAlone ==
    ASSUME PanelShapes, Provenance, NEW r \in Req, ActorStep(r), NEW n \in Name, AloneFor(n),
           req[r].name # n
    PROVE  AloneFor(n)'
<1> DEFINE m == req[r].name
<1>1. Succession
  BY RequestSucceeds DEF ActorStep, RequestStep
<1>2. r \notin Acting(n)
  BY DEF Acting
<1>3. \A p \in DOMAIN os' : os'[p].name = n => LivesOn(p)
  <2>1. CASE Spawn(r)
    <3>1. PICK q \in Pid : /\ DOMAIN os' = DOMAIN os \union {q} /\ os'[q].name = m
                           /\ \A p \in DOMAIN os : os'[p] = os[p]
      BY <2>1, SpawnMoves
    <3> QED BY <3>1 DEF LivesOn
  <2>2. CASE ClearPort(r)
    <3>1. SameProcesses
      BY <2>2, ClearPortMoves, TerminatedSame, UnchangedSame
    <3> QED BY <3>1 DEF SameProcesses, LivesOn
  <2>3. CASE FindToStop(r)
    <3>1. SameProcesses
      BY <2>3, FindMoves, TerminatedSame, UnchangedSame
    <3> QED BY <3>1 DEF SameProcesses, LivesOn
  <2>4. CASE CheckStopped(r) \/ Settle(r) \/ WaitEnds(r) \/ WaitTimesOut(r)
    BY <2>4, CheckMoves, SettleMoves, WaitMoves DEF LivesOn
  <2> QED BY <2>1, <2>2, <2>3, <2>4 DEF ActorStep
<1>4. ReadPidFile(n)' = ReadPidFile(n)
  <2>1. logDir' = logDir
    BY CheckMoves, ClearPortMoves, SpawnMoves, SettleMoves, FindMoves, WaitMoves DEF ActorStep, place
  <2>2. \/ pidFile' = pidFile \/ pidFile' = Unlinked(m)
        \/ pidFile' = Put(pidFile, PidFileOf(m), req[r].child)
    <3>1. CASE CheckStopped(r)
      BY <3>1, CheckMoves DEF ClearStale
    <3>2. CASE Settle(r)
      BY <3>2, SettleMoves
    <3>3. CASE WaitEnds(r) \/ WaitTimesOut(r)
      BY <3>3, WaitMoves
    <3>4. CASE ClearPort(r) \/ Spawn(r) \/ FindToStop(r)
      BY <3>4, ClearPortMoves, SpawnMoves, FindMoves
    <3> QED BY <3>1, <3>2, <3>3, <3>4 DEF ActorStep
  <2>3. PidFileOf(n) # PidFileOf(m)
    BY DEF PidFileOf
  <2>4. PidFileOf(n)' = PidFileOf(n)
    BY <2>1 DEF PidFileOf
  <2>5. pidFile' = Put(pidFile, PidFileOf(m), req[r].child) => ReadPidFile(n)' = ReadPidFile(n)
    BY <2>3, <2>4 DEF ReadPidFile, Put
  <2> QED BY <2>1, <2>2, <2>4, <2>5, UnlinkedRead DEF ReadPidFile
<1> QED BY <1>1, <1>2, <1>3, <1>4, ActorMoves, BystanderAlone

LEMMA CheckAlone ==
    ASSUME PanelShapes, Provenance, NEW r \in Req, CheckStopped(r), NEW n \in Name, AloneFor(n),
           req[r].name = n
    PROVE  AloneFor(n)'
<1>1. /\ r \in Acting(n) /\ Others(r)
      /\ req'[r].pc # "idle" => req'[r].name = n /\ req'[r].op # "status"
      /\ req'[r].pc # "looked"
  BY ActorMoves DEF ActorStep
<1>2. /\ req[r].pc = "checked" /\ UNCHANGED <<os, born, place>>
      /\ ClearStale(n, req[r].rec)
  BY CheckMoves
<1>3. SameProcesses /\ Succession /\ logDir' = logDir
  BY <1>2, UnchangedSame, SameSucceeds DEF place
<1>4. Named(n) /\ \A p \in Children(n) : req[r].rec = Identity(p)
  BY <1>1, <1>2 DEF AloneFor, Phase
<1>5. CASE IsLive(req[r].rec)
  <2>1. Ends(r) /\ pidFile' = pidFile
    BY <1>2, <1>5, CheckMoves DEF ClearStale
  <2>2. ReadPidFile(n)' = ReadPidFile(n)
    BY <1>3, <2>1 DEF ReadPidFile, PidFileOf
  <2>3. req'[r].pc = "idle"
    BY <2>1, IdleReqIs DEF Ends
  <2> QED BY <1>1, <1>2, <1>3, <1>4, <2>2, <2>3, ActorQuiet
<1>6. CASE ~IsLive(req[r].rec)
  <2>1. Children(n)' = {}
    BY <1>3, <1>4, <1>6, KnownIsLive, SameChildren
  <2> QED BY <1>1, <2>1, ChildlessAlone
<1> QED BY <1>5, <1>6

LEMMA ClearPortAlone ==
    ASSUME PanelShapes, Provenance, NEW r \in Req, ClearPort(r), NEW n \in Name, AloneFor(n),
           req[r].name = n
    PROVE  AloneFor(n)'
<1>1. /\ r \in Acting(n) /\ Others(r)
      /\ req'[r].pc # "idle" => req'[r].name = n /\ req'[r].op # "status"
  BY ActorMoves DEF ActorStep
<1>2. req[r].pc = "port" /\ SameProcesses
  BY ClearPortMoves, TerminatedSame, UnchangedSame
<1>3. Children(n)' = {}
  BY <1>1, <1>2, SameChildren DEF AloneFor, Phase
<1> QED BY <1>1, <1>3, ChildlessAlone

LEMMA SpawnAlone ==
    ASSUME PanelShapes, Provenance, NEW r \in Req, Spawn(r), NEW n \in Name, AloneFor(n),
           req[r].name = n
    PROVE  AloneFor(n)'
<1>1. /\ r \in Acting(n) /\ Others(r) /\ req'[r].name = n /\ req'[r].op # "status"
      /\ req'[r].pc = "settle"
  BY ActorMoves, SpawnMoves DEF ActorStep, Advances
<1>2. PICK p \in Pid : /\ p \notin DOMAIN os /\ DOMAIN os' = DOMAIN os \union {p}
                       /\ \A q \in DOMAIN os : os'[q] = os[q]
                       /\ os'[p].born = born + 1 /\ os'[p].image = Ours
                       /\ req'[r].child = [pid |-> p, image |-> Ours, born |-> born + 1]
  BY SpawnMoves
<1>3. Children(n) = {}
  <2>1. req[r].pc = "spawn"
    BY SpawnMoves
  <2> QED BY <1>1, <2>1 DEF AloneFor, Phase
<1>4. \A q \in Children(n)' : q = p
  BY <1>2, <1>3 DEF Children
<1>5. Identity(p)' = req'[r].child
  BY <1>2 DEF Identity
<1>6. Phase(n, r)'
  BY <1>1, <1>4, <1>5 DEF Phase
<1> QED BY <1>1, <1>6, ActorAlone

LEMMA SettleAlone ==
    ASSUME PanelShapes, Provenance, NEW r \in Req, Settle(r), NEW n \in Name, AloneFor(n),
           req[r].name = n, n \notin crossed'
    PROVE  AloneFor(n)'
<1>1. /\ r \in Acting(n) /\ Others(r)
      /\ req'[r].pc # "idle" => req'[r].name = n /\ req'[r].op # "status"
  BY ActorMoves DEF ActorStep
<1>2. req[r].pc = "settle" /\ UNCHANGED <<os, born, place>>
  BY SettleMoves
<1>3. SameProcesses /\ Succession /\ logDir' = logDir
  BY <1>2, UnchangedSame, SameSucceeds DEF place
<1>4. \A p \in Children(n) : req[r].child = Identity(p)
  BY <1>1, <1>2 DEF AloneFor, Phase
<1>5. CASE ~IsLive(req[r].child)
  <2>1. Children(n)' = {}
    BY <1>3, <1>4, <1>5, KnownIsLive, SameChildren
  <2> QED BY <1>1, <2>1, ChildlessAlone
<1>6. CASE IsLive(req[r].child)
  <2>1. /\ Advances(r, "look") /\ pidFile' = Put(pidFile, PidFileOf(n), req[r].child)
        /\ ~AboutToUnlink(n)
    BY <1>6, SettleMoves
  <2>2. ReadPidFile(n)' = req[r].child
    BY <1>3, <2>1 DEF ReadPidFile, PidFileOf, Put
  <2>3. Named(n)'
    BY <1>3, <1>4, <2>2, SameChildren DEF Named
  <2>4. req'[r].pc = "look" /\ Phase(n, r)'
    BY <2>1, <2>3 DEF Phase, Advances
  <2>5. ~AboutToUnlink(n)'
    BY <1>1, <1>3, <2>1, <2>4, SameLivesOn, AboutBefore
  <2> QED BY <1>1, <2>4, <2>5, ActorAlone
<1> QED BY <1>5, <1>6

LEMMA FindAlone ==
    ASSUME PanelShapes, Provenance, NEW r \in Req, FindToStop(r), NEW n \in Name, AloneFor(n),
           req[r].name = n
    PROVE  AloneFor(n)'
<1>1. /\ r \in Acting(n) /\ Others(r) /\ req'[r].pc # "looked"
      /\ req'[r].pc # "idle" => req'[r].name = n /\ req'[r].op # "status"
  BY ActorMoves DEF ActorStep
<1>2. req[r].pc = "found" /\ UNCHANGED <<born, place>> /\ SameProcesses
  BY FindMoves, TerminatedSame, UnchangedSame
<1>3. Succession /\ logDir' = logDir
  BY <1>2, SameSucceeds DEF place
<1>4. Named(n) /\ \A p \in Children(n) : req[r].rec = Identity(p)
  BY <1>1, <1>2 DEF AloneFor, Phase
<1>5. CASE IsLive(req[r].rec)
  <2>1. pidFile' = pidFile /\ req'[r].pc = "stopping" /\ req'[r].child = req[r].rec
    BY <1>5, FindMoves DEF Advances
  <2>2. ReadPidFile(n)' = ReadPidFile(n)
    BY <1>3, <2>1 DEF ReadPidFile, PidFileOf
  <2> QED BY <1>1, <1>2, <1>3, <1>4, <2>1, <2>2, ActorQuiet
<1>6. CASE ~IsLive(req[r].rec)
  <2>1. Children(n)' = {}
    BY <1>2, <1>4, <1>6, KnownIsLive, SameChildren
  <2> QED BY <1>1, <2>1, ChildlessAlone
<1> QED BY <1>5, <1>6

LEMMA WaitAlone ==
    ASSUME PanelShapes, Provenance, NEW r \in Req, WaitEnds(r) \/ WaitTimesOut(r),
           NEW n \in Name, AloneFor(n), req[r].name = n
    PROVE  AloneFor(n)'
<1>1. /\ r \in Acting(n) /\ Others(r) /\ req'[r].pc # "looked"
      /\ req'[r].pc # "idle" => req'[r].name = n /\ req'[r].op # "status"
  BY ActorMoves DEF ActorStep
<1>2. /\ req[r].pc \in {"stopping", "clearing"} /\ UNCHANGED <<os, born, place>>
  BY WaitMoves
<1>3. SameProcesses /\ Succession /\ logDir' = logDir
  BY <1>2, UnchangedSame, SameSucceeds DEF place
<1>4. Children(n)' = Children(n)
  BY <1>3, SameChildren
<1>5. CASE req[r].pc = "clearing"
  <2>1. Children(n)' = {}
    BY <1>1, <1>4, <1>5 DEF AloneFor, Phase
  <2> QED BY <1>1, <2>1, ChildlessAlone
<1>6. CASE req[r].pc = "stopping"
  <2>1. Named(n) /\ \A p \in Children(n) : req[r].child = Identity(p)
    BY <1>1, <1>6 DEF AloneFor, Phase
  <2>2. CASE ~IsLive(req[r].child)
    <3>1. Children(n)' = {}
      BY <1>4, <2>1, <2>2, KnownIsLive
    <3> QED BY <1>1, <3>1, ChildlessAlone
  <2>3. CASE IsLive(req[r].child)
    <3>1. /\ pidFile' = pidFile
          /\ \/ req'[r].pc = "idle"
             \/ req'[r].pc = "stopping" /\ req'[r].child = req[r].child
      BY <1>6, <2>3, WaitMoves, IdleReqIs DEF Ends, Advances
    <3>2. ReadPidFile(n)' = ReadPidFile(n)
      BY <1>3, <3>1 DEF ReadPidFile, PidFileOf
    <3> QED BY <1>1, <1>2, <1>3, <2>1, <3>1, <3>2, ActorQuiet
  <2> QED BY <2>2, <2>3
<1> QED BY <1>2, <1>5, <1>6

LEMMA RequestAlone ==
    ASSUME PanelShapes, Provenance, NEW r \in Req, RequestStep(r), NEW n \in Name, n \notin crossed',
           AloneFor(n)
    PROVE  AloneFor(n)'
<1>1. ASSUME NEW op \in Ops, NEW m \in Name, Begin(r, op, m)
      PROVE  AloneFor(n)'
  BY <1>1, BeginAlone
<1>2. CASE ReadPid(r)
  BY <1>2, ReadPidAlone
<1>3. CASE Look(r)
  BY <1>3, LookAlone
<1>4. ASSUME ActorStep(r), req[r].name # n
      PROVE  AloneFor(n)'
  BY <1>4, OtherNameAlone
<1>5. ASSUME ActorStep(r), req[r].name = n
      PROVE  AloneFor(n)'
  BY <1>5, CheckAlone, ClearPortAlone, SpawnAlone, SettleAlone, FindAlone, WaitAlone DEF ActorStep
<1> QED BY <1>1, <1>2, <1>3, <1>4, <1>5 DEF RequestStep, ActorStep, Ops

LEMMA CrossedGrows ==
    ASSUME [PanelNext]_panelVars
    PROVE  crossed \subseteq crossed'
BY DEF PanelNext, RequestStep, Begin, ReadPid, Look, CheckStopped, ClearPort, Spawn, Settle,
       FindToStop, WaitEnds, WaitTimesOut, SettingsStep, SaveReplies, Bind, Exit, Stranger,
       PanelRestart, panelVars, supVars

LEMMA AloneStep ==
    ASSUME PanelShapes, Provenance, Alone, [PanelNext]_panelVars
    PROVE  Alone'
<1> SUFFICES ASSUME NEW n \in Name, n \notin crossed'
             PROVE  AloneFor(n)'
  BY DEF Alone
<1>0. AloneFor(n) /\ Succession
  BY CrossedGrows, StepSucceeds DEF Alone
<1>1. ASSUME ReadPidFile(n)' = ReadPidFile(n), \A p \in DOMAIN os' : os'[p].name = n => LivesOn(p),
             \A s \in Req : /\ req'[s].op = req[s].op /\ req'[s].name = req[s].name
                            /\ req'[s].pc = req[s].pc /\ req'[s].rec = req[s].rec
                            /\ req'[s].child = req[s].child
      PROVE  AloneFor(n)'
  <2>1. \A s \in Req : s \in Acting(n)' <=> s \in Acting(n)
    BY <1>1 DEF Acting, At
  <2> QED BY <1>0, <1>1, <2>1, Undisturbed
<1>2. CASE \E r \in Req : RequestStep(r)
  BY <1>0, <1>2, RequestAlone
<1>3. ASSUME NEW s \in Saver, SaveReplies(s)
      PROVE  AloneFor(n)'
  <2>1. UNCHANGED <<pidFile, logDir>> /\ \A p \in DOMAIN os' : os'[p].name = n => LivesOn(p)
    BY <1>3, RepliesMoves, SameLivesOn DEF SameProcesses
  <2>2. ReadPidFile(n)' = ReadPidFile(n)
    BY <2>1 DEF ReadPidFile, PidFileOf
  <2> QED BY <1>1, <1>3, <2>1, <2>2, RepliesMoves
<1>4. ASSUME NEW p \in Pid, Bind(p)
      PROVE  AloneFor(n)'
  <2>1. UNCHANGED <<pidFile, logDir, req>> /\ \A q \in DOMAIN os' : os'[q].name = n => LivesOn(q)
    BY <1>4, BindMoves, SameLivesOn DEF SameProcesses, place
  <2>2. ReadPidFile(n)' = ReadPidFile(n)
    BY <2>1 DEF ReadPidFile, PidFileOf
  <2> QED BY <1>1, <2>1, <2>2
<1>5. ASSUME NEW p \in Pid, Exit(p)
      PROVE  AloneFor(n)'
  <2>1. UNCHANGED <<pidFile, logDir, req>> /\ \A q \in DOMAIN os' : os'[q].name = n => LivesOn(q)
    BY <1>5, ExitMoves DEF LivesOn, place
  <2>2. ReadPidFile(n)' = ReadPidFile(n)
    BY <2>1 DEF ReadPidFile, PidFileOf
  <2> QED BY <1>1, <2>1, <2>2
<1>6. ASSUME NEW p \in Pid, NEW image, NEW port, Stranger(p, image, port)
      PROVE  AloneFor(n)'
  <2>1. UNCHANGED <<pidFile, logDir, req>>
    BY <1>6, StrangerMoves DEF place
  <2>2. "stranger" # n
    BY SupervisorAssumption
  <2>3. \A q \in DOMAIN os' : os'[q].name = n => LivesOn(q)
    BY <1>6, <2>2, StrangerMoves DEF LivesOn
  <2>4. ReadPidFile(n)' = ReadPidFile(n)
    BY <2>1 DEF ReadPidFile, PidFileOf
  <2> QED BY <1>1, <2>1, <2>3, <2>4
<1>7. ASSUME NEW hasPassword \in BOOLEAN, PanelRestart(hasPassword)
      PROVE  AloneFor(n)'
  <2>1. /\ req' = [r \in Req |-> IdleReq] /\ UNCHANGED <<os, pidFile>> /\ Acting(n) = {}
        /\ logDir' = logDir \/ Children(n) = {}
    BY <1>7 DEF PanelRestart, Children
  <2>2. Acting(n)' = {} /\ ~AboutToUnlink(n)'
    BY <2>1, IdleReqIs DEF Acting, AboutToUnlink, At
  <2>3. Children(n)' = Children(n) /\ (ReadPidFile(n)' = ReadPidFile(n) => Named(n)')
    BY <1>0, <2>1, UnchangedSame, SameChildren DEF AloneFor
  <2>4. logDir' = logDir => ReadPidFile(n)' = ReadPidFile(n)
    BY <2>1 DEF ReadPidFile, PidFileOf
  <2>5. Named(n)'
    BY <2>1, <2>3, <2>4 DEF Named
  <2> QED BY <2>2, <2>5 DEF AloneFor
<1>8. CASE UNCHANGED supVars
  <2>1. UNCHANGED <<os, pidFile, logDir, req>>
    BY <1>8 DEF supVars
  <2>2. ReadPidFile(n)' = ReadPidFile(n)
    BY <2>1 DEF ReadPidFile, PidFileOf
  <2>3. \A q \in DOMAIN os' : os'[q].name = n => LivesOn(q)
    BY <2>1 DEF LivesOn
  <2> QED BY <1>1, <2>1, <2>2, <2>3
<1> QED
  BY <1>2, <1>3, <1>4, <1>5, <1>6, <1>7, <1>8 DEF PanelNext, panelVars

LEMMA AloneStarts == PanelInit => Alone
<1> SUFFICES ASSUME PanelInit, NEW n \in Name
             PROVE  AloneFor(n)
  BY DEF Alone
<1>1. DOMAIN os = {} /\ req = [r \in Req |-> IdleReq]
  BY DEF PanelInit
<1>2. Acting(n) = {} /\ ~AboutToUnlink(n) /\ Children(n) = {}
  BY <1>1, IdleReqIs DEF Acting, AboutToUnlink, At, Children
<1> QED BY <1>2 DEF AloneFor, Named

LEMMA AloneIsOne == Alone => OneChild
BY DEF Alone, AloneFor, Named, Children, OneChild

(* One child of a name at a time, and its pid file names it, through every order of  *)
(* starts, stops, deaths, reused pids, timeouts and restarts of the panel in which   *)
(* no two requests acted on the name at once.                                     *)
THEOREM OneChildRuns == PanelSpec => []OneChild
<1>1. PanelInit => PanelShapes /\ Provenance /\ Alone
  BY PanelStarts, AloneStarts
<1>2. PanelShapes /\ Provenance /\ Alone /\ [PanelNext]_panelVars
        => PanelShapes' /\ Provenance' /\ Alone'
  BY ShapesStep, ProvenanceStep, AloneStep
<1> QED BY <1>1, <1>2, AloneIsOne, PTL DEF PanelSpec
-----------------------------------------------------------------------------
(* Who was given these values of the settings it reads either has what the file     *)
(* holds, or has been named by a reply since.                                     *)
Answered(n, values, told) == \A k \in Reads(n) \ undone : values[k] # Load(file)[k] => told

(* The children and the requests still to spawn one; and the panel's own address.  *)
Honest ==
    file.ok /\ ~mended =>
        /\ \A p \in DOMAIN os : os[p].name \in Name => Answered(os[p].name, os[p].env, os[p].told)
        /\ \A r \in Req : req[r].pc \in Starting => Answered(req[r].name, req[r].values, req[r].told)
        /\ "WEBAPP_BIND_HOST" \notin undone =>
              (bindHost \notin {Down, Load(file)["WEBAPP_BIND_HOST"]} => panelTold)

(* A setting that a child reads is one it is given as it stands, and one whose      *)
(* change the reply names that child for.                                         *)
LEMMA ReadIsNamed ==
    ASSUME NEW n \in {"proxy", "counter"}, NEW k \in Reads(n)
    PROVE  k \in Key /\ n \in RestartTargets(k) /\ \A values : EnvFor(n, values)[k] = values[k]
<1>1. /\ ~SETTINGS["AIS_STATION_NMEA_PORT"].exported /\ ~SETTINGS["WEBAPP_BIND_HOST"].exported
      /\ ~SETTINGS["LOG_DIR"].exported
  <2>1. ~SETTINGS["AIS_STATION_NMEA_PORT"].exported
    BY DEF SETTINGS, Spec
  <2>2. ~SETTINGS["WEBAPP_BIND_HOST"].exported
    BY DEF SETTINGS, Spec
  <2>3. ~SETTINGS["LOG_DIR"].exported
    <3>1. PICK type, default : SETTINGS["LOG_DIR"] = Spec(type, default, FALSE)
      BY Zenon DEF SETTINGS
    <3> QED BY <3>1 DEF Spec
  <2> QED BY <2>1, <2>2, <2>3
<1>2. "AIS_STATION_NMEA_PORT" \in Key
  BY DEF Key, SETTINGS
<1>3. /\ k \in Key /\ (n = "proxy" => SETTINGS[k].exported)
      /\ (n = "counter" => k = "AIS_STATION_NMEA_PORT")
  BY <1>2 DEF Reads
<1>4. k \in Carries(n) /\ k # "LOG_DIR"
  BY <1>1, <1>3 DEF Carries, Argv
<1>5. n \in RestartTargets(k)
  BY <1>1, <1>3 DEF RestartTargets
<1> QED BY <1>3, <1>4, <1>5 DEF EnvFor

LEMMA BindHostIsNamed ==
    "WEBAPP_BIND_HOST" \in Key /\ "panel" \in RestartTargets("WEBAPP_BIND_HOST")
BY DEF Key, SETTINGS, RestartTargets

(* What a save changes of a key that none has taken back, or gives back to a key,   *)
(* its reply names the readers of.                                                *)
LEMMA ReplyNames ==
    ASSUME StoreInv, NEW s \in Saver, Replace(s), file.ok, NEW k \in Key \ undone',
           k \in undone \/ Load(file')[k] # Load(file)[k]
    PROVE  RestartTargets(k) \subseteq RestartNeeded(s)
<1>1. k \in Acknowledges(s)
  <2>1. k \notin Acknowledges(s) => k \notin undone /\ Load(file')[k] = acked[k]
    BY ReplaceLeaves
  <2>2. k \notin undone => Load(file)[k] = acked[k]
    BY DEF StoreInv, SettingsStick
  <2> QED BY <2>1, <2>2
<1> QED BY <1>1 DEF Acknowledges, RestartNeeded

LEMMA HonestSame ==
    ASSUME PanelShapes, Honest, UNCHANGED <<file, undone, mended, bindHost, panelTold>>,
           \A p \in DOMAIN os' : os'[p].name \in Name =>
               p \in DOMAIN os /\ os'[p].name = os[p].name /\ os'[p].env = os[p].env
               /\ (os[p].told => os'[p].told),
           \A r \in Req : req'[r].pc \in Starting =>
               \/ req'[r].values = Load(file)
               \/ /\ req[r].pc \in Starting /\ req'[r].name = req[r].name
                  /\ req'[r].values = req[r].values /\ (req[r].told => req'[r].told)
    PROVE  Honest'
<1> SUFFICES ASSUME file.ok, ~mended
             PROVE  Honest'
  BY DEF Honest
<1>1. ASSUME NEW p \in DOMAIN os', os'[p].name \in Name
      PROVE  Answered(os'[p].name, os'[p].env, os'[p].told)
  BY <1>1 DEF Honest, Answered
<1>2. ASSUME NEW r \in Req, req'[r].pc \in Starting
      PROVE  Answered(req'[r].name, req'[r].values, req'[r].told)
  BY <1>2 DEF Honest, Answered
<1> QED BY <1>1, <1>2 DEF Honest, Answered

LEMMA RequestHonest ==
    ASSUME PanelShapes, Honest, NEW r \in Req, RequestStep(r), UNCHANGED storeVars
    PROVE  Honest'
<1>1. UNCHANGED <<file, undone, mended, bindHost, panelTold>>
  BY DEF storeVars, RequestStep, Begin, ReadPid, Look, CheckStopped, ClearPort, Spawn, Settle,
         FindToStop, WaitEnds, WaitTimesOut, place
<1>2. Others(r)
  BY RequestLeavesOthers
<1>3. req'[r].pc \in Starting =>
         \/ req'[r].values = Load(file)
         \/ /\ req[r].pc \in Starting /\ req'[r].name = req[r].name
            /\ req'[r].values = req[r].values /\ (req[r].told => req'[r].told)
  <2> DEFINE G == req'[r].pc \in Starting =>
                     \/ req'[r].values = Load(file)
                     \/ /\ req[r].pc \in Starting /\ req'[r].name = req[r].name
                        /\ req'[r].values = req[r].values /\ (req[r].told => req'[r].told)
  <2>1. Ends(r) => G
    BY IdleReqIs DEF Ends, Starting
  <2>2. ASSUME NEW n, Starts(r, n) PROVE G
    BY <2>2 DEF Starts
  <2>3. ASSUME NEW pc, Advances(r, pc), pc \in Starting => req[r].pc \in Starting PROVE G
    BY <2>3 DEF Advances
  <2>4. ASSUME NEW op \in Ops, NEW n \in Name, Begin(r, op, n) PROVE G
    BY <2>1, <2>2, <2>4, BeginMoves DEF Starting
  <2>5. ASSUME ReadPid(r) PROVE G
    BY <2>3, <2>5, ReadPidMoves DEF Starting
  <2>6. ASSUME Look(r) PROVE G
    BY <2>1, <2>2, <2>6, LookMoves
  <2>7. ASSUME CheckStopped(r) PROVE G
    BY <2>1, <2>3, <2>7, CheckMoves DEF Starting
  <2>8. ASSUME ClearPort(r) PROVE G
    BY <2>1, <2>3, <2>8, ClearPortMoves DEF Starting
  <2>9. ASSUME Spawn(r) \/ Settle(r) PROVE G
    BY <2>1, <2>3, <2>9, SpawnMoves, SettleMoves DEF Starting
  <2>10. ASSUME FindToStop(r) PROVE G
    BY <2>1, <2>2, <2>3, <2>10, FindMoves DEF Starting
  <2>11. ASSUME WaitEnds(r) \/ WaitTimesOut(r) PROVE G
    BY <2>1, <2>3, <2>11, WaitMoves DEF Starting
  <2> QED
    BY <2>4, <2>5, <2>6, <2>7, <2>8, <2>9, <2>10, <2>11 DEF RequestStep, Ops
<1>4. \A t \in Req : req'[t].pc \in Starting =>
         \/ req'[t].values = Load(file)
         \/ /\ req[t].pc \in Starting /\ req'[t].name = req[t].name
            /\ req'[t].values = req[t].values /\ (req[t].told => req'[t].told)
  BY <1>2, <1>3 DEF Others
<1>5. CASE SameProcesses /\ \A p \in DOMAIN os : os[p].told => os'[p].told
  BY <1>1, <1>4, <1>5, HonestSame DEF SameProcesses
<1>6. ASSUME Spawn(r), file.ok, ~mended
      PROVE  Honest'
  <2>1. PICK p \in Pid : /\ p \notin DOMAIN os /\ DOMAIN os' = DOMAIN os \union {p}
                         /\ \A q \in DOMAIN os : os'[q] = os[q]
                         /\ os'[p].name = req[r].name /\ os'[p].told = req[r].told
                         /\ os'[p].env = EnvFor(req[r].name, req[r].values)
    BY <1>6, SpawnMoves
  <2>2. req[r].pc \in Starting /\ req[r].name \in {"proxy", "counter"}
    BY <1>6, SpawnMoves, SupervisorAssumption DEF Starting, PanelShapes, IsRequest
  <2>3. Answered(os'[p].name, os'[p].env, os'[p].told)
    BY <1>6, <2>1, <2>2, ReadIsNamed DEF Honest, Answered
  <2>4. ASSUME NEW q \in DOMAIN os', os'[q].name \in Name
        PROVE  Answered(os'[q].name, os'[q].env, os'[q].told)
    BY <1>6, <2>1, <2>3, <2>4 DEF Honest
  <2>5. ASSUME NEW t \in Req, req'[t].pc \in Starting
        PROVE  Answered(req'[t].name, req'[t].values, req'[t].told)
    BY <1>4, <1>6, <2>5 DEF Honest, Answered
  <2> QED BY <1>1, <1>6, <2>4, <2>5 DEF Honest, Answered
<1>7. ~Spawn(r) => SameProcesses /\ \A p \in DOMAIN os : os[p].told => os'[p].told
  <2>1. CASE ClearPort(r) \/ FindToStop(r)
    BY <2>1, ClearPortMoves, FindMoves, TerminatedSame, UnchangedSame
  <2>2. CASE UNCHANGED os
    BY <2>2, UnchangedSame
  <2> QED BY <2>1, <2>2 DEF RequestStep, Begin, ReadPid, Look, CheckStopped, Settle, WaitEnds, WaitTimesOut
<1> QED BY <1>1, <1>5, <1>6, <1>7 DEF Honest

LEMMA RepliesHonest ==
    ASSUME PanelShapes, StoreInv, Honest, NEW s \in Saver, SaveReplies(s)
    PROVE  Honest'
<1>1. /\ Replace(s) /\ UNCHANGED bindHost /\ mended' = (mended \/ ~file.ok)
      /\ panelTold' = (panelTold \/ "panel" \in RestartNeeded(s))
  BY RepliesMoves DEF Replace
<1> SUFFICES ASSUME ~mended, file.ok
             PROVE  Honest'
  BY <1>1 DEF Honest
(* Whoever was answered still is, if the reply tells it when it names it.         *)
<1>2. ASSUME NEW n \in {"proxy", "counter"}, NEW values, NEW told, NEW toldThen,
             Answered(n, values, told),
             told \/ n \in RestartNeeded(s) => toldThen,
             NEW k \in Reads(n) \ undone', values[k] # Load(file')[k]
      PROVE  toldThen
  <2>1. k \in Key /\ n \in RestartTargets(k)
    BY ReadIsNamed
  <2>2. CASE k \in undone \/ Load(file')[k] # Load(file)[k]
    BY <1>1, <1>2, <2>1, <2>2, ReplyNames
  <2>3. CASE k \notin undone /\ Load(file')[k] = Load(file)[k]
    BY <1>2, <2>3 DEF Answered
  <2> QED BY <2>2, <2>3
<1>3. ASSUME NEW p \in DOMAIN os', os'[p].name \in Name,
             NEW k \in Reads(os'[p].name) \ undone', os'[p].env[k] # Load(file')[k]
      PROVE  os'[p].told
  <2>1. /\ p \in DOMAIN os /\ os'[p].name = os[p].name /\ os'[p].env = os[p].env
        /\ os'[p].told <=> (os[p].told \/ os[p].name \in RestartNeeded(s))
    BY RepliesMoves DEF SameProcesses
  <2>2. Answered(os[p].name, os[p].env, os[p].told) /\ os[p].name \in {"proxy", "counter"}
    BY <1>3, <2>1, SupervisorAssumption DEF Honest
  <2> QED BY <1>2, <1>3, <2>1, <2>2
<1>4. ASSUME NEW r \in Req, req'[r].pc \in Starting,
             NEW k \in Reads(req'[r].name) \ undone', req'[r].values[k] # Load(file')[k]
      PROVE  req'[r].told
  <2>1. /\ req'[r].name = req[r].name /\ req'[r].values = req[r].values /\ req'[r].pc = req[r].pc
        /\ req'[r].told <=> (req[r].told \/ (req[r].op = "start" /\ req[r].name \in RestartNeeded(s)))
    BY RepliesMoves
  <2>2. req[r].op = "start" /\ req[r].name \in {"proxy", "counter"}
    BY <1>4, <2>1, SupervisorAssumption DEF PanelShapes, IsRequest, Starting
  <2>3. Answered(req[r].name, req[r].values, req[r].told)
    BY <1>4, <2>1 DEF Honest
  <2> QED BY <1>2, <1>4, <2>1, <2>2, <2>3
<1>5. "WEBAPP_BIND_HOST" \notin undone' =>
         (bindHost' \notin {Down, Load(file')["WEBAPP_BIND_HOST"]} => panelTold')
  <2> DEFINE k == "WEBAPP_BIND_HOST"
  <2>1. k \notin undone' /\ (k \in undone \/ Load(file')[k] # Load(file)[k])
           => "panel" \in RestartNeeded(s)
    BY <1>1, ReplyNames, BindHostIsNamed
  <2> QED BY <1>1, <2>1 DEF Honest
<1> QED BY <1>3, <1>4, <1>5 DEF Honest, Answered

LEMMA HonestStep ==
    ASSUME PanelShapes, StoreInv, Honest, [PanelNext]_panelVars
    PROVE  Honest'
<1>1. ASSUME UNCHANGED <<file, undone, mended, bindHost, panelTold, req>>,
             \A p \in DOMAIN os' : os'[p].name \in Name =>
                 p \in DOMAIN os /\ os'[p].name = os[p].name /\ os'[p].env = os[p].env
                 /\ (os[p].told => os'[p].told)
      PROVE  Honest'
  BY <1>1, HonestSame
<1>2. CASE (\E r \in Req : RequestStep(r)) /\ UNCHANGED storeVars
  BY <1>2, RequestHonest
<1>3. CASE SettingsStep /\ UNCHANGED supVars
  <2>1. UNCHANGED <<os, req, bindHost, panelTold>>
    BY <1>3 DEF supVars
  <2>2. CASE DamageFile
    <3>1. ~file'.ok
      BY <2>2 DEF DamageFile, StoreInv, StoreShapes
    <3> QED BY <3>1 DEF Honest
  <2>3. ASSUME NEW s \in Saver, ReadStored(s) \/ WriteRaises(s)
        PROVE  Honest'
    <3>1. UNCHANGED <<file, undone, mended>>
      BY <2>3 DEF ReadStored, WriteRaises
    <3> QED BY <1>1, <2>1, <3>1
  <2>4. ASSUME NEW s \in Saver, NEW sub \in Submission, Submit(s, sub)
        PROVE  Honest'
    <3>1. UNCHANGED <<file, undone, mended>>
      BY <2>4 DEF Submit
    <3> QED BY <1>1, <2>1, <3>1
  <2> QED BY <1>3, <2>2, <2>3, <2>4 DEF SettingsStep
<1>4. ASSUME NEW s \in Saver, SaveReplies(s)
      PROVE  Honest'
  BY <1>4, RepliesHonest
<1>5. ASSUME NEW p \in Pid, Bind(p), UNCHANGED storeVars
      PROVE  Honest'
  BY <1>1, <1>5, BindMoves DEF SameProcesses, storeVars, place
<1>6. ASSUME NEW p \in Pid, Exit(p), UNCHANGED storeVars
      PROVE  Honest'
  BY <1>1, <1>6, ExitMoves DEF storeVars, place
<1>7. ASSUME NEW p \in Pid, NEW image, NEW port, Stranger(p, image, port), UNCHANGED storeVars
      PROVE  Honest'
  <2>1. "stranger" \notin Name
    BY SupervisorAssumption
  <2>2. /\ DOMAIN os' = DOMAIN os \union {p} /\ os'[p].name = "stranger"
        /\ \A q \in DOMAIN os : os'[q] = os[q]
    BY <1>7, StrangerMoves
  <2>3. UNCHANGED <<file, undone, mended, bindHost, panelTold, req>>
    BY <1>7, StrangerMoves DEF storeVars, place
  <2> QED BY <1>1, <2>1, <2>2, <2>3
<1>8. ASSUME NEW hasPassword \in BOOLEAN, PanelRestart(hasPassword)
      PROVE  Honest'
  <2>1. /\ UNCHANGED <<file, undone, mended, os>> /\ req' = [r \in Req |-> IdleReq]
        /\ bindHost' \in {Load(file)["WEBAPP_BIND_HOST"], Down}
    BY <1>8 DEF PanelRestart, Guarded
  <2>2. \A r \in Req : req'[r].pc = "idle"
    BY <2>1, IdleReqIs
  <2> QED BY <2>1, <2>2 DEF Honest, Starting, Answered
<1>9. CASE UNCHANGED panelVars
  BY <1>1, <1>9 DEF panelVars, storeVars, supVars
<1> QED
  BY <1>2, <1>3, <1>4, <1>5, <1>6, <1>7, <1>8, <1>9 DEF PanelNext

LEMMA HonestStarts == PanelInit => Honest
<1> SUFFICES ASSUME PanelInit
             PROVE  Honest
  OBVIOUS
<1>1. /\ DOMAIN os = {} /\ req = [r \in Req |-> IdleReq]
      /\ bindHost \in {Load(file)["WEBAPP_BIND_HOST"], Down}
  BY DEF PanelInit, Guarded
<1>2. \A r \in Req : req[r].pc = "idle"
  BY <1>1, IdleReqIs
<1> QED BY <1>1, <1>2 DEF Honest, Starting

LEMMA HonestReports == Honest => RestartReported
BY DEF Honest, Answered, RestartReported

(* The form does not lie about what runs: a child that reads settings which no      *)
(* longer are what it was started with, or a panel bound elsewhere than they say,   *)
(* has been named in a reply since, with any number of saves at once and but for    *)
(* the settings that a save which knew nothing of them has taken back.             *)
THEOREM RestartsAreReported == PanelSpec => []RestartReported
<1>1. PanelInit => PanelShapes /\ StoreInv /\ Honest
  BY PanelStarts, StoreStarts, HonestStarts
<1>2. PanelShapes /\ StoreInv /\ Honest /\ [PanelNext]_panelVars
        => PanelShapes' /\ StoreInv' /\ Honest'
  BY ShapesStep, StoreStep, HonestStep
<1> QED BY <1>1, <1>2, HonestReports, PTL DEF PanelSpec
-----------------------------------------------------------------------------
(***************************************************************************)
(* Logins: how many guesses one window of the throttle lets through.         *)
(***************************************************************************)
LoginSteps == {"idle", "checking", "verifying", "failing", "counting"}

(* What a thread holds is an object that was made, and only one that found one *)
(* weighs it.                                                                  *)
LoginShapes ==
    /\ clock \in Nat /\ guesses \in Nat /\ discarded \in Nat
    /\ Len(made) \in Nat /\ DOMAIN made = 1..Len(made) /\ attempts \in 0..Len(made)
    /\ \A i \in 1..Len(made) : made[i] \in [failures : Nat, first : Nat]
    /\ DOMAIN guessing = Guesser
    /\ \A g \in Guesser : /\ guessing[g] \in [pc : LoginSteps, rec : 0..Len(made), now : Nat]
                          /\ guessing[g].pc = "checking" => guessing[g].rec # 0

(* The threads that have passed the check and not yet said how it went, and those *)
(* that weigh an object which is no longer the client's: they may let themselves in. *)
InHand(thread, current) ==
    \/ thread.pc \in {"verifying", "failing", "counting"}
    \/ thread.pc = "checking" /\ thread.rec # current

UnderWay == {g \in Guesser : InHand(guessing[g], attempts)}

(* Each of them may still fail: their guesses are counted before they happen.  *)
(* What the present count does not show, such a thread took out of it.         *)
Counted ==
    /\ guesses = Count + discarded
    /\ Count + Cardinality(UnderWay) <= THROTTLE_MAX + Cardinality(Guesser) - 1

-----------------------------------------------------------------------------
LEMMA Threads ==
    /\ Cardinality(Guesser) \in Nat
    /\ IsFiniteSet(UnderWay) /\ Cardinality(UnderWay) \in Nat
    /\ Cardinality(UnderWay) <= Cardinality(Guesser)
<1>1. UnderWay \in SUBSET Guesser
  BY DEF UnderWay
<1> QED BY <1>1, LoginAssumption, FS_Subset, FS_CardinalityType

LEMMA ThreadsThen ==
    /\ Cardinality(UnderWay') \in Nat
    /\ Cardinality(UnderWay') <= Cardinality(Guesser)
<1>1. UnderWay' \in SUBSET Guesser
  BY DEF UnderWay
<1> QED BY <1>1, LoginAssumption, FS_Subset, FS_CardinalityType

(* A thread that is done is no longer among them.                              *)
LEMMA OneIdle ==
    ASSUME NEW g \in Guesser, DOMAIN guessing = Guesser, Moves(g, Rested)
    PROVE  Cardinality(UnderWay') <= Cardinality(Guesser) - 1
<1>1. UnderWay' \in SUBSET (Guesser \ {g})
  BY DEF UnderWay, InHand, Moves, Rested
<1>2. IsFiniteSet(Guesser \ {g}) /\ Cardinality(Guesser \ {g}) = Cardinality(Guesser) - 1
  BY LoginAssumption, FS_RemoveElement
<1> QED BY <1>1, <1>2, FS_Subset

(* While the client's object is the same, only the thread that moves changes sides. *)
LEMMA OneLess ==
    ASSUME NEW g \in Guesser, DOMAIN guessing = Guesser, guessing[g].pc = "counting",
           Moves(g, Rested), attempts' = attempts
    PROVE  Cardinality(UnderWay') = Cardinality(UnderWay) - 1
<1>1. UnderWay' = UnderWay \ {g} /\ g \in UnderWay
  BY DEF UnderWay, InHand, Moves, Rested
<1> QED BY <1>1, Threads, FS_RemoveElement

LEMMA SameThreads ==
    ASSUME NEW g \in Guesser, DOMAIN guessing = Guesser, NEW state, Moves(g, state),
           attempts' = attempts,
           InHand(state, attempts) => InHand(guessing[g], attempts)
    PROVE  Cardinality(UnderWay') <= Cardinality(UnderWay)
<1>1. UnderWay' \in SUBSET UnderWay
  BY DEF UnderWay, Moves, InHand
<1> QED BY <1>1, Threads, FS_Subset

LEMMA CountIs ==
    ASSUME LoginShapes
    PROVE  Count \in Nat /\ (attempts # 0 => Count = made[attempts].failures) /\ (attempts = 0 => Count = 0)
BY DEF LoginShapes, Count

LEMMA CountKeeps ==
    ASSUME made' = made, attempts' = attempts
    PROVE  Count' = Count
BY DEF Count

LEMMA LoginStarts == LoginInit => LoginShapes /\ Counted
<1> SUFFICES ASSUME LoginInit
             PROVE  LoginShapes /\ Counted
  OBVIOUS
<1>1. /\ clock = 0 /\ made = <<>> /\ attempts = 0 /\ guesses = 0 /\ discarded = 0
      /\ guessing = [g \in Guesser |-> Rested]
  BY DEF LoginInit
<1>2. LoginShapes
  BY <1>1 DEF LoginShapes, Rested, LoginSteps
<1>3. UnderWay = {}
  BY <1>1 DEF UnderWay, InHand, Rested
<1> QED BY <1>1, <1>2, <1>3, FS_EmptySet, Threads, LoginAssumption DEF Counted, Count

(* A thread's move keeps the shapes when its new state has them.               *)
LEMMA ShapeOfMove ==
    ASSUME LoginShapes, NEW g \in Guesser, NEW state, Moves(g, state),
           state \in [pc : LoginSteps, rec : 0..Len(made), now : Nat],
           state.pc = "checking" => state.rec # 0,
           UNCHANGED <<clock, made>>, attempts' \in 0..Len(made),
           guesses' \in Nat, discarded' \in Nat
    PROVE  LoginShapes'
BY DEF LoginShapes, Moves

LEMMA LoginShapesStep == LoginShapes /\ [LoginNext]_loginVars => LoginShapes'
<1> SUFFICES ASSUME LoginShapes, [LoginNext]_loginVars
             PROVE  LoginShapes'
  OBVIOUS
<1>0. Rested \in [pc : LoginSteps, rec : 0..Len(made), now : Nat] /\ Rested.pc # "checking"
  BY DEF Rested, LoginSteps, LoginShapes
<1> DEFINE Held(step, rec, now) ==
             step \in LoginSteps \ {"checking"} /\ rec \in 0..Len(made) /\ now \in Nat
               => /\ Thread(step, rec, now) \in [pc : LoginSteps, rec : 0..Len(made), now : Nat]
                  /\ Thread(step, rec, now).pc # "checking"
<1>00. \A step, rec, now : Held(step, rec, now)
  BY DEF Thread
<1>1. ASSUME NEW g \in Guesser, Check(g) PROVE LoginShapes'
  <2>1. UNCHANGED <<clock, made, attempts, guesses, discarded>>
    BY <1>1 DEF Check
  <2>2. CASE attempts = 0
    <3>1. Moves(g, Thread("verifying", 0, 0))
      BY <1>1, <2>2 DEF Check
    <3> QED BY <2>1, <3>1, <1>00, ShapeOfMove DEF LoginShapes, LoginSteps
  <2>3. CASE attempts # 0
    <3>1. Moves(g, Thread("checking", attempts, 0))
      BY <1>1, <2>3 DEF Check
    <3>2. Thread("checking", attempts, 0) \in [pc : LoginSteps, rec : 0..Len(made), now : Nat]
          /\ Thread("checking", attempts, 0).rec # 0
      BY <2>3 DEF LoginShapes, Thread, LoginSteps
    <3> QED BY <2>1, <3>1, <3>2, ShapeOfMove DEF LoginShapes
  <2> QED BY <2>2, <2>3
<1>2. ASSUME NEW g \in Guesser, Weigh(g) PROVE LoginShapes'
  <2>1. UNCHANGED <<clock, made>> /\ (Moves(g, Rested) \/ Moves(g, Thread("verifying", 0, 0)))
        /\ attempts' \in {0, attempts} /\ guesses' \in {0, guesses}
        /\ discarded' \in {0, discarded, discarded + Count}
    BY <1>2 DEF Weigh
  <2>2. guesses' \in Nat /\ discarded' \in Nat /\ attempts' \in 0..Len(made)
    BY <2>1, CountIs DEF LoginShapes
  <2>3. Thread("verifying", 0, 0) \in [pc : LoginSteps, rec : 0..Len(made), now : Nat]
        /\ Thread("verifying", 0, 0).pc # "checking"
    BY <1>00 DEF LoginShapes, LoginSteps
  <2> QED BY <1>0, <2>1, <2>2, <2>3, ShapeOfMove
<1>3. ASSUME NEW g \in Guesser, WrongPassword(g) \/ FindRecord(g) PROVE LoginShapes'
  <2>1. /\ UNCHANGED <<clock, made, attempts, guesses, discarded>>
        /\ Moves(g, Thread("failing", 0, clock)) \/ Moves(g, Thread("counting", attempts, guessing[g].now))
    BY <1>3 DEF WrongPassword, FindRecord
  <2>2. guessing[g].now \in Nat
    BY DEF LoginShapes
  <2>3. /\ Thread("failing", 0, clock) \in [pc : LoginSteps, rec : 0..Len(made), now : Nat]
        /\ Thread("failing", 0, clock).pc # "checking"
        /\ Thread("counting", attempts, guessing[g].now) \in [pc : LoginSteps, rec : 0..Len(made), now : Nat]
        /\ Thread("counting", attempts, guessing[g].now).pc # "checking"
    BY <1>00, <2>2 DEF LoginShapes, LoginSteps
  <2> QED BY <2>1, <2>3, ShapeOfMove DEF LoginShapes
<1>4. ASSUME NEW g \in Guesser, Fails(g) PROVE LoginShapes'
  <2> DEFINE rec == guessing[g].rec
  <2>0. rec \in 0..Len(made) /\ guessing[g].now \in Nat
    BY DEF LoginShapes
  <2>1. guessing' = [guessing EXCEPT ![g] = Rested] /\ clock' = clock
        /\ guesses' \in {1, guesses + 1} /\ discarded' \in {0, discarded, discarded + 1, discarded + Count}
    BY <1>4 DEF Fails, Moves
  <2>2. guesses' \in Nat /\ discarded' \in Nat
    <3>1. guesses \in Nat /\ discarded \in Nat /\ Count \in Nat
      BY CountIs DEF LoginShapes
    <3> QED BY <2>1, <3>1
  <2>3. CASE made' = Append(made, [failures |-> 1, first |-> guessing[g].now]) /\ attempts' = Len(made')
    <3>1. /\ Len(made') = Len(made) + 1 /\ DOMAIN made' = 1..Len(made')
          /\ \A i \in 1..Len(made') : made'[i] = IF i = Len(made') THEN [failures |-> 1, first |-> guessing[g].now]
                                                ELSE made[i]
      <4>1. Len(made) \in Nat /\ DOMAIN made = 1..Len(made)
        BY DEF LoginShapes
      <4> DEFINE new == [failures |-> 1, first |-> guessing[g].now]
      <4>2. made' = Append(made, new)
        BY <2>3
      <4> HIDE DEF new
      <4>3. Len(made') = Len(made) + 1 /\ DOMAIN made' = 1..Len(made')
        BY <4>1, <4>2
      <4>4. \A i \in 1..Len(made') : made'[i] = IF i = Len(made') THEN new ELSE made[i]
        BY <4>1, <4>2, <4>3
      <4> QED BY <4>3, <4>4 DEF new
    <3>2. \A i \in 1..Len(made') : made'[i] \in [failures : Nat, first : Nat]
      BY <2>0, <3>1 DEF LoginShapes
    <3>3. 0..Len(made) \in SUBSET (0..Len(made')) /\ Len(made') \in Nat /\ attempts' \in 0..Len(made')
      BY <2>3, <3>1 DEF LoginShapes
    <3>4. Rested \in [pc : LoginSteps, rec : 0..Len(made'), now : Nat] /\ Rested.pc # "checking"
      BY <3>3 DEF Rested, LoginSteps
    <3>5. \A h \in Guesser : /\ guessing'[h] \in [pc : LoginSteps, rec : 0..Len(made'), now : Nat]
                             /\ guessing'[h].pc = "checking" => guessing'[h].rec # 0
      BY <2>1, <3>3, <3>4 DEF LoginShapes
    <3> QED BY <2>1, <2>2, <3>1, <3>2, <3>3, <3>5 DEF LoginShapes
  <2>4. CASE made' = [made EXCEPT ![rec].failures = @ + 1] /\ attempts' = attempts
    <3>1. /\ Len(made') = Len(made) /\ DOMAIN made' = 1..Len(made')
          /\ \A i \in 1..Len(made') : made'[i] \in [failures : Nat, first : Nat]
      <4>1. Len(made) \in Nat /\ DOMAIN made = 1..Len(made)
            /\ \A i \in 1..Len(made) : made[i] \in [failures : Nat, first : Nat]
        BY DEF LoginShapes
      <4>2. DOMAIN made' = 1..Len(made) /\ Len(made') = Len(made)
        BY <2>4, <4>1
      <4>3. ASSUME NEW i \in 1..Len(made) PROVE made'[i] \in [failures : Nat, first : Nat]
        <5>1. CASE i = rec
          <6>1. made'[i] = [made[i] EXCEPT !.failures = @ + 1] /\ made[i] \in [failures : Nat, first : Nat]
            BY <2>4, <4>1, <5>1
          <6> QED BY <6>1
        <5>2. CASE i # rec
          BY <2>4, <4>1, <5>2
        <5> QED BY <5>1, <5>2
      <4> QED BY <4>2, <4>3
    <3> QED BY <1>0, <2>1, <2>2, <2>4, <3>1 DEF LoginShapes
  <2> QED BY <1>4, <2>3, <2>4 DEF Fails
<1>5. ASSUME NEW g \in Guesser, Succeeds(g) PROVE LoginShapes'
  <2>1. Moves(g, Rested) /\ UNCHANGED <<clock, made>> /\ attempts' = 0 /\ guesses' = 0 /\ discarded' = 0
    BY <1>5 DEF Succeeds
  <2> QED BY <1>0, <2>1, ShapeOfMove DEF LoginShapes
<1>6. CASE LoginForgets
  BY <1>6 DEF LoginForgets, LoginShapes, Rested, LoginSteps
<1>7. CASE clock' \in Nat /\ UNCHANGED throttleVars
  BY <1>7 DEF throttleVars, LoginShapes
<1>8. ASSUME NEW t \in Token, Get(t) \/ Logout(t) PROVE LoginShapes'
  BY <1>7, <1>8 DEF Get, Logout, LoginShapes
<1>9. CASE SetPassword \/ LoginTick \/ UNCHANGED loginVars
  BY <1>7, <1>9 DEF SetPassword, LoginTick, loginVars, LoginShapes
<1> QED BY <1>1, <1>2, <1>3, <1>4, <1>5, <1>6, <1>8, <1>9 DEF LoginNext, LoginServes

LEMMA CountedStep == LoginShapes /\ Counted /\ [LoginNext]_loginVars => Counted'
<1> SUFFICES ASSUME LoginShapes, Counted, [LoginNext]_loginVars
             PROVE  Counted'
  OBVIOUS
<1> DEFINE N == Cardinality(Guesser)
<1>1. THROTTLE_MAX \in Nat \ {0}
  BY LoginAssumption
<1>2. Count \in Nat /\ discarded \in Nat /\ N \in Nat /\ DOMAIN guessing = Guesser
  BY CountIs, Threads DEF LoginShapes
<1>3. ASSUME made' = made, attempts' = attempts, UNCHANGED <<guesses, discarded>>,
             Cardinality(UnderWay') <= Cardinality(UnderWay)
      PROVE  Counted'
  BY <1>1, <1>2, <1>3, CountKeeps, Threads, ThreadsThen DEF Counted
<1>4. ASSUME Count' = 0, guesses' = discarded'
      PROVE  Counted'
  <2>0. LoginShapes'
    BY LoginShapesStep
  <2>1. discarded' \in Nat
    BY <2>0 DEF LoginShapes
  <2>2. guesses' = Count' + discarded'
    <3>1. \A n \in Nat : 0 + n = n
      OBVIOUS
    <3> QED BY <1>4, <2>1, <3>1, Zenon
  <2>3. Count' + Cardinality(UnderWay') <= THROTTLE_MAX + N - 1
    BY <1>1, <1>2, <1>4, ThreadsThen
  <2> QED BY <2>2, <2>3 DEF Counted
<1>5. ASSUME NEW g \in Guesser, Check(g) PROVE Counted'
  <2>1. UNCHANGED <<made, attempts, guesses, discarded>>
    BY <1>5 DEF Check
  <2>2. CASE attempts = 0
    <3>1. Count = 0 /\ Count' = 0
      BY <2>1, <2>2 DEF Count
    <3> QED BY <1>2, <1>4, <2>1, <3>1 DEF Counted, LoginShapes
  <2>3. CASE attempts # 0
    <3>1. Moves(g, Thread("checking", attempts, 0)) /\ ~InHand(Thread("checking", attempts, 0), attempts)
      BY <1>5, <2>3 DEF Check, InHand, Thread
    <3> QED BY <1>2, <1>3, <2>1, <3>1, SameThreads
  <2> QED BY <2>2, <2>3
<1>6. ASSUME NEW g \in Guesser, Weigh(g) PROVE Counted'
  <2> DEFINE rec == guessing[g].rec
  <2>0. guessing[g].pc = "checking" /\ rec # 0 /\ rec \in 1..Len(made) /\ made' = made
    BY <1>6 DEF Weigh, Stands, LoginShapes
  <2>1. CASE Elapsed(rec, clock)
    <3>1. attempts' = 0 /\ (IF attempts = rec THEN guesses' = 0 /\ discarded' = 0
                            ELSE guesses' = guesses /\ discarded' = discarded + Count)
      BY <1>6, <2>1 DEF Weigh
    <3>2. Count' = 0
      BY <3>1 DEF Count
    <3>3. guesses' = discarded'
      BY <1>2, <3>1 DEF Counted
    <3> QED BY <1>4, <3>2, <3>3
  <2>2. CASE ~Elapsed(rec, clock) /\ made[rec].failures >= THROTTLE_MAX
    <3>1. Moves(g, Rested) /\ UNCHANGED <<attempts, guesses, discarded>> /\ ~InHand(Rested, attempts)
      BY <1>6, <2>2 DEF Weigh, InHand, Rested
    <3> QED BY <1>2, <1>3, <2>0, <3>1, SameThreads
  <2>3. CASE ~Elapsed(rec, clock) /\ ~(made[rec].failures >= THROTTLE_MAX)
    <3>1. Moves(g, Thread("verifying", 0, 0)) /\ UNCHANGED <<attempts, guesses, discarded>>
      BY <1>6, <2>3 DEF Weigh
    <3>2. CASE rec # attempts
      <4>1. InHand(guessing[g], attempts)
        BY <2>0, <3>2 DEF InHand
      <4> QED BY <1>2, <1>3, <2>0, <3>1, <4>1, SameThreads
    <3>3. CASE rec = attempts
      <4>1. Count = made[rec].failures /\ Count' = Count
        BY <2>0, <3>1, <3>3, CountKeeps DEF Count
      <4>2. Count < THROTTLE_MAX
        BY <1>1, <1>2, <2>3, <4>1
      <4> QED BY <1>1, <1>2, <3>1, <4>1, <4>2, ThreadsThen DEF Counted
    <3> QED BY <3>2, <3>3
  <2> QED BY <2>1, <2>2, <2>3
<1>7. ASSUME NEW g \in Guesser, WrongPassword(g) \/ FindRecord(g) PROVE Counted'
  <2>1. UNCHANGED <<made, attempts, guesses, discarded>> /\ InHand(guessing[g], attempts)
    BY <1>7 DEF WrongPassword, FindRecord, Stands, InHand
  <2>2. Moves(g, Thread("failing", 0, clock)) \/ Moves(g, Thread("counting", attempts, guessing[g].now))
    BY <1>7 DEF WrongPassword, FindRecord
  <2>3. Cardinality(UnderWay') <= Cardinality(UnderWay)
    BY <1>2, <2>1, <2>2, SameThreads
  <2> QED BY <1>3, <2>1, <2>3
<1>8. ASSUME NEW g \in Guesser, Fails(g) PROVE Counted'
  <2> DEFINE rec == guessing[g].rec
  <2>0. guessing[g].pc = "counting" /\ Moves(g, Rested) /\ rec \in 0..Len(made)
    BY <1>8 DEF Fails, Stands, LoginShapes
  <2>1. CASE IsFirst(g)
    <3>1. /\ made' = Append(made, [failures |-> 1, first |-> guessing[g].now]) /\ attempts' = Len(made')
          /\ IF attempts = rec THEN guesses' = 1 /\ discarded' = 0
             ELSE guesses' = guesses + 1 /\ discarded' = discarded + Count
      BY <1>8, <2>1 DEF Fails
    <3>2. Len(made') = Len(made) + 1 /\ made'[Len(made')] = [failures |-> 1, first |-> guessing[g].now]
          /\ Len(made) \in Nat
      BY <3>1 DEF LoginShapes
    <3>3. Count' = 1
      BY <3>1, <3>2 DEF Count
    <3>4. guesses' = 1 + discarded'
      BY <1>2, <3>1 DEF Counted
    <3>5. Cardinality(UnderWay') <= N - 1
      BY <1>2, <2>0, OneIdle
    <3> QED BY <1>1, <1>2, <3>1, <3>3, <3>4, <3>5, ThreadsThen DEF Counted
  <2>2. CASE ~IsFirst(g)
    <3>1. /\ made' = [made EXCEPT ![rec].failures = @ + 1] /\ guesses' = guesses + 1 /\ attempts' = attempts
          /\ discarded' = IF attempts = rec THEN discarded ELSE discarded + 1
      BY <1>8, <2>2 DEF Fails
    <3>2. rec \in 1..Len(made)
      BY <2>0, <2>2 DEF IsFirst, LoginShapes
    <3>3. Cardinality(UnderWay') = Cardinality(UnderWay) - 1
      BY <1>2, <2>0, <3>1, OneLess
    <3>4. CASE attempts = rec
      <4>1. Count' = Count + 1
        BY <3>1, <3>2, <3>4 DEF Count, LoginShapes
      <4> QED BY <1>1, <1>2, <3>1, <3>3, <3>4, <4>1, Threads DEF Counted
    <3>5. CASE attempts # rec
      <4>1. Count' = Count
        BY <3>1, <3>2, <3>5 DEF Count, LoginShapes
      <4> QED BY <1>1, <1>2, <3>1, <3>3, <3>5, <4>1, Threads DEF Counted
    <3> QED BY <3>4, <3>5
  <2> QED BY <2>1, <2>2
<1>9. ASSUME attempts' = 0, guesses' = 0, discarded' = 0 PROVE Counted'
  BY <1>4, <1>9 DEF Count
<1>10. ASSUME UNCHANGED throttleVars PROVE Counted'
  <2>1. UnderWay' = UnderWay
    BY <1>10 DEF UnderWay, throttleVars
  <2> QED BY <1>3, <1>10, <2>1, Threads DEF throttleVars
<1>11. ASSUME NEW g \in Guesser, Succeeds(g) PROVE Counted'
  BY <1>9, <1>11 DEF Succeeds
<1>12. CASE LoginForgets
  BY <1>9, <1>12 DEF LoginForgets
<1>13. ASSUME NEW t \in Token, Get(t) \/ Logout(t) PROVE Counted'
  BY <1>10, <1>13 DEF Get, Logout
<1>14. CASE SetPassword \/ LoginTick \/ UNCHANGED loginVars
  BY <1>10, <1>14 DEF SetPassword, LoginTick, loginVars
<1> QED BY <1>5, <1>6, <1>7, <1>8, <1>11, <1>12, <1>13, <1>14 DEF LoginNext, LoginServes

-----------------------------------------------------------------------------
(* However many logins run at once, whatever object of attempts each of them    *)
(* holds, and whenever windows pass, passwords are right or the panel restarts: *)
(* one count takes in fewer guesses than the limit and the threads together, and *)
(* what is missing from it was taken out by a thread that had looked before.    *)
THEOREM GuessesStayBounded == LoginSpec => []GuessesBounded
<1>1. LoginShapes /\ Counted => GuessesBounded
  BY CountIs, Threads, LoginAssumption DEF Counted, GuessesBounded, LoginShapes
<1> QED BY <1>1, LoginStarts, LoginShapesStep, CountedStep, PTL DEF LoginSpec

-----------------------------------------------------------------------------
(***************************************************************************)
(* The views: what is shown is fresh or says that it is not, and the lamps.  *)
(***************************************************************************)
FeedsStep == FeedsNext \/ (LoginServes /\ UNCHANGED feedVars)

ReaderFields == {"pc", "now", "since"}

(* A reader that waits with the lock free took its time just now, or a fetch has   *)
(* ended since: the copy is of this moment, or says that it failed.             *)
Fetching ==
    /\ clock \in Nat
    /\ DOMAIN cell = {"has", "at", "error"} /\ cell.at \in Nat
    /\ DOMAIN reader = Reader
    /\ \A r \in Reader : /\ DOMAIN reader[r] = ReaderFields /\ reader[r].now \in Nat
                         /\ reader[r].pc = "fetching" => lock = r
                         /\ reader[r].pc = "waiting" /\ lock = "free" =>
                              reader[r].now = clock \/ cell.error \/ (cell.has /\ cell.at = clock)

LEMMA AnswerShows ==
    ASSUME Fetching, NEW r \in Reader, NEW c, Answer(r, c), lock \in {"free", r}
    PROVE  /\ lock' = "free" /\ DOMAIN reader' = Reader
           /\ \A q \in Reader : reader'[q] = IF q = r THEN Resting ELSE reader[q]
           /\ \A s \in shown' : s.at = clock /\ s.fetchedAt = c.at /\ s.stale = c.error /\ s.hasData = c.has
BY DEF Answer, Fetching

LEMMA RestingIs ==
    DOMAIN Resting = ReaderFields /\ Resting.now = 0 /\ Resting.pc = "idle"
BY DEF Resting, ReaderFields

LEMMA AskMoves ==
    ASSUME Fetching, NEW r \in Reader, NEW t, AskPage(r, t)
    PROVE  /\ UNCHANGED <<cell, lock, shown, clock>> /\ DOMAIN reader' = Reader
           /\ \A q \in Reader : q # r => reader'[q] = reader[q]
           /\ DOMAIN reader'[r] = ReaderFields /\ reader'[r].pc = "waiting" /\ reader'[r].now = clock
<1> DEFINE q == [Resting EXCEPT !.pc = "waiting", !.now = clock]
<1>1. /\ UNCHANGED <<cell, lock, shown>> /\ reader' = [reader EXCEPT ![r] = q] /\ Get(t)
  BY DEF AskPage
<1>2. UNCHANGED clock
  BY <1>1 DEF Get
<1>3. DOMAIN q = ReaderFields /\ q.pc = "waiting" /\ q.now = clock
  BY DEF Resting, ReaderFields
<1> HIDE DEF q
<1> QED BY <1>1, <1>2, <1>3 DEF Fetching

LEMMA AcquireMoves ==
    ASSUME Fetching, NEW r \in Reader, Acquire(r), Due(r)
    PROVE  /\ UNCHANGED <<cell, shown, clock>> /\ lock' = r /\ DOMAIN reader' = Reader
           /\ lock = "free"
           /\ \A q \in Reader : q # r => reader'[q] = reader[q]
           /\ DOMAIN reader'[r] = ReaderFields /\ reader'[r].pc = "fetching"
           /\ reader'[r].now = reader[r].now
<1>1. /\ UNCHANGED <<cell, shown, clock>> /\ lock' = r /\ lock = "free"
      /\ reader' = [reader EXCEPT ![r].pc = "fetching", ![r].since = clock]
  BY DEF Acquire, loginVars
<1> QED BY <1>1 DEF Fetching, ReaderFields

LEMMA FetchingStep ==
    ASSUME FeedsAssumption, Fetching, FreshOrFlagged, [FeedsStep]_<<loginVars, feedVars>>
    PROVE  Fetching' /\ FreshOrFlagged'
<1> DEFINE G == Fetching' /\ FreshOrFlagged'
<1>1. ASSUME UNCHANGED <<cell, lock, reader, shown, clock>> PROVE G
  BY <1>1 DEF Fetching, FreshOrFlagged
<1>2. ASSUME NEW r \in Reader, NEW t, AskPage(r, t) PROVE G
  <2>1. Fetching'
    BY <1>2, AskMoves DEF Fetching
  <2>2. FreshOrFlagged'
    BY <1>2, AskMoves DEF FreshOrFlagged
  <2> QED BY <2>1, <2>2
<1>3. ASSUME NEW r \in Reader, Acquire(r), Due(r) PROVE G
  <2>0. \A q \in Reader : reader[q].pc # "fetching"
    BY <1>3, AcquireMoves DEF Fetching, FeedsAssumption
  <2>1. Fetching'
    BY <1>3, <2>0, AcquireMoves DEF Fetching, FeedsAssumption
  <2>2. FreshOrFlagged'
    BY <1>3, AcquireMoves DEF FreshOrFlagged
  <2> QED BY <2>1, <2>2
<1>4. ASSUME NEW r \in Reader, Acquire(r), ~Due(r) PROVE G
  <2>1. /\ Answer(r, cell) /\ UNCHANGED <<cell, clock>> /\ lock = "free" /\ reader[r].pc = "waiting"
    BY <1>4 DEF Acquire, loginVars
  <2>2. /\ lock' = "free" /\ DOMAIN reader' = Reader
        /\ \A q \in Reader : reader'[q] = IF q = r THEN Resting ELSE reader[q]
        /\ \A s \in shown' : s.at = clock /\ s.fetchedAt = cell.at /\ s.stale = cell.error /\ s.hasData = cell.has
    BY <2>1, AnswerShows
  <2>3. Fetching'
    BY <2>1, <2>2, RestingIs DEF Fetching
  <2>4. reader[r].now = clock \/ cell.error \/ (cell.has /\ cell.at = clock)
    BY <2>1 DEF Fetching
  <2>5. cell.has /\ reader[r].now - cell.at < TTL /\ cell.at \in Nat /\ clock \in Nat /\ reader[r].now \in Nat
    BY <1>4 DEF Due, Fetching, FeedsAssumption
  <2>6. cell.error \/ clock - cell.at < TTL
    BY <2>4, <2>5 DEF FeedsAssumption
  <2>7. FreshOrFlagged'
    BY <2>2, <2>5, <2>6 DEF FreshOrFlagged
  <2> QED BY <2>3, <2>7
<1>5. ASSUME NEW r \in Reader, FetchArrives(r) PROVE G
  <2>1. /\ Answer(r, cell') /\ UNCHANGED clock /\ reader[r].pc = "fetching"
        /\ cell' = [has |-> TRUE, at |-> clock, error |-> FALSE]
    BY <1>5 DEF FetchArrives, loginVars
  <2>0. lock \in {"free", r}
    BY <2>1 DEF Fetching
  <2>2. /\ lock' = "free" /\ DOMAIN reader' = Reader
        /\ \A q \in Reader : reader'[q] = IF q = r THEN Resting ELSE reader[q]
        /\ \A s \in shown' : s.at = clock /\ s.fetchedAt = cell'.at /\ s.hasData = cell'.has
    <3>1. PICK c : c = cell'
      OBVIOUS
    <3>2. Answer(r, c)
      BY <2>1, <3>1
    <3> QED BY <2>0, <3>1, <3>2, AnswerShows
  <2>3. DOMAIN cell' = {"has", "at", "error"} /\ cell'.at = clock /\ cell'.has
    BY <2>1
  <2>4. \A q \in Reader : q # r => reader[q].pc # "fetching"
    BY <2>1 DEF Fetching
  <2>5. Fetching'
    BY <2>1, <2>2, <2>3, <2>4, RestingIs DEF Fetching
  <2>6. clock - clock < TTL
    BY DEF Fetching, FeedsAssumption
  <2>7. FreshOrFlagged'
    BY <2>2, <2>3, <2>6 DEF FreshOrFlagged
  <2> QED BY <2>5, <2>7
<1>6. ASSUME NEW r \in Reader, FetchFails(r) PROVE G
  <2>1. /\ Answer(r, cell') /\ UNCHANGED clock /\ reader[r].pc = "fetching"
        /\ cell' = [cell EXCEPT !.error = TRUE]
    BY <1>6 DEF FetchFails, loginVars
  <2>2. /\ lock' = "free" /\ DOMAIN reader' = Reader
        /\ \A q \in Reader : reader'[q] = IF q = r THEN Resting ELSE reader[q]
        /\ \A s \in shown' : s.stale = cell'.error
    <3>1. PICK c : c = cell'
      OBVIOUS
    <3>2. Answer(r, c) /\ lock \in {"free", r}
      BY <2>1, <3>1 DEF Fetching
    <3> QED BY <3>1, <3>2, AnswerShows
  <2>3. DOMAIN cell' = {"has", "at", "error"} /\ cell'.at = cell.at /\ cell'.error
    BY <2>1 DEF Fetching
  <2>4. \A q \in Reader : q # r => reader[q].pc # "fetching"
    BY <2>1 DEF Fetching
  <2>5. Fetching'
    BY <2>1, <2>2, <2>3, <2>4, RestingIs DEF Fetching
  <2>6. FreshOrFlagged'
    BY <2>2, <2>3 DEF FreshOrFlagged
  <2> QED BY <2>5, <2>6
<1>7. ASSUME FeedsTick PROVE G
  <2>1. /\ UNCHANGED <<cell, lock, reader, shown>> /\ clock' = clock + 1
        /\ \A r \in Reader : reader[r].pc = "waiting" => lock # "free"
    BY <1>7 DEF FeedsTick, LoginTick, feedVars, cellVars
  <2> QED BY <2>1 DEF Fetching, FreshOrFlagged
<1>8. ASSUME \/ PollDelivers \/ PollGetsNothing \/ PollerWedges \/ ProxyRestarts
             \/ Beat \/ BeatFlushed \/ CounterStartsOrStops
      PROVE  G
  BY <1>1, <1>8 DEF PollDelivers, PollGetsNothing, PollerWedges, ProxyRestarts, Beat, BeatFlushed,
     CounterStartsOrStops, cellVars, loginVars
<1>9. ASSUME LoginServes, UNCHANGED feedVars PROVE G
  BY <1>1, <1>9 DEF LoginServes, Check, Weigh, WrongPassword, FindRecord, Fails, Succeeds, Get, Logout, SetPassword,
     feedVars, cellVars
<1>10. ASSUME UNCHANGED <<loginVars, feedVars>> PROVE G
  BY <1>1, <1>10 DEF loginVars, feedVars, cellVars
<1> QED
  BY <1>2, <1>3, <1>4, <1>5, <1>6, <1>7, <1>8, <1>9, <1>10 DEF FeedsStep, FeedsNext

(* A screen never passes an old copy off as a live one, however long a reader waited   *)
(* for another's fetch, and whether that arrived or failed.                      *)
THEOREM OldIsFlagged == FeedsSpec => []FreshOrFlagged
<1>1. LoginInit /\ FeedsInit => Fetching /\ FreshOrFlagged
  BY RestingIs DEF LoginInit, FeedsInit, Fetching, FreshOrFlagged, NoCopy
<1>2. Fetching /\ FreshOrFlagged /\ [FeedsStep]_<<loginVars, feedVars>> => Fetching' /\ FreshOrFlagged'
  BY FetchingStep, FeedsAssumption
<1> QED BY <1>1, <1>2, PTL DEF FeedsSpec, FeedsStep

-----------------------------------------------------------------------------
Later(a, b) == IF a > b THEN a ELSE b

(* What the proxy says AISHub delivered, it did.  The counter's lines were written while  *)
(* it ran, and a counter that runs has written one within its period, or is as new.     *)
Sources ==
    /\ clock \in Nat /\ counterSince \in Nat /\ counterSince <= clock
    /\ DOMAIN hub = {"lastOk", "failures"} /\ hub.failures \in Nat
    /\ hub.lastOk \in {NoTime, delivered} /\ delivered \in Int
    /\ DOMAIN beats = {"last", "before", "whole"}
    /\ beats.last \in Int /\ beats.before \in Int /\ beats.last <= clock /\ beats.before <= clock
    /\ ~counterUp => beats.whole /\ beats.last <= counterSince
    /\ counterUp => clock - Later(LastHeartbeat, counterSince) <= BeatPeriod
    /\ ~beats.whole => beats.last = clock

LEMMA SourcesLamps ==
    ASSUME FeedsAssumption, Sources
    PROVE  LampsHonest
<1>1. AishubLamp = "green" => clock - delivered <= 2 * POLL_SEC
  <2> SUFFICES ASSUME AishubLamp = "green"
               PROVE  clock - delivered <= 2 * POLL_SEC
    OBVIOUS
  <2>1. hub.failures = 0 /\ hub.lastOk # NoTime /\ ~(clock - hub.lastOk > 2 * POLL_SEC)
    BY DEF AishubLamp, Sources
  <2> QED BY <2>1 DEF Sources, FeedsAssumption
<1> DEFINE b == LastHeartbeat
<1>2. b \in Int /\ b <= clock /\ (~counterUp => b <= counterSince)
  BY DEF LastHeartbeat, Sources
<1>3. StationLamp = "green" => counterUp \/ clock - counterSince <= STATION_STALE_SEC
  <2> SUFFICES ASSUME StationLamp = "green", ~counterUp
               PROVE  clock - counterSince <= STATION_STALE_SEC
    OBVIOUS
  <2>1. ~(clock - b > STATION_STALE_SEC)
    BY DEF StationLamp
  <2> QED BY <1>2, <2>1 DEF Sources, FeedsAssumption
<1>4. StationLamp = "red" => ~counterUp \/ clock - counterSince <= BeatPeriod
  <2> SUFFICES ASSUME StationLamp = "red", counterUp
               PROVE  clock - counterSince <= BeatPeriod
    OBVIOUS
  <2>1. clock - b > STATION_STALE_SEC
    BY DEF StationLamp
  <2>2. clock - Later(b, counterSince) <= BeatPeriod
    BY DEF Sources
  <2> QED BY <1>2, <2>1, <2>2 DEF Sources, FeedsAssumption, Later, BeatPeriod
<1> QED BY <1>1, <1>3, <1>4 DEF LampsHonest

LEMMA SourcesStep ==
    ASSUME FeedsAssumption, Sources, [FeedsStep]_<<loginVars, feedVars>>
    PROVE  Sources'
<1>1. ASSUME UNCHANGED <<clock, hubVars, beatVars>> PROVE Sources'
  BY <1>1 DEF Sources, hubVars, beatVars, LastHeartbeat
<1>2. ASSUME UNCHANGED <<clock, beatVars>>, DOMAIN hub' = {"lastOk", "failures"}, hub'.failures \in Nat,
             hub'.lastOk \in {NoTime, delivered'}, delivered' \in Int
      PROVE  Sources'
  BY <1>2 DEF Sources, beatVars, LastHeartbeat
<1>3. ASSUME PollDelivers PROVE Sources'
  <2>1. hub' = [lastOk |-> clock, failures |-> 0] /\ delivered' = clock /\ UNCHANGED <<clock, beatVars>>
    BY <1>3 DEF PollDelivers, loginVars
  <2> QED BY <1>2, <2>1 DEF Sources
<1>4. ASSUME PollGetsNothing PROVE Sources'
  <2>1. hub' = [hub EXCEPT !.failures = @ + 1] /\ UNCHANGED <<clock, delivered, beatVars>>
    BY <1>4 DEF PollGetsNothing, loginVars
  <2>2. DOMAIN hub = {"lastOk", "failures"} /\ hub.failures \in Nat
    BY DEF Sources
  <2>3. DOMAIN hub' = {"lastOk", "failures"} /\ hub'.failures = hub.failures + 1 /\ hub'.lastOk = hub.lastOk
    BY <2>1, <2>2
  <2> QED BY <1>2, <2>1, <2>2, <2>3 DEF Sources
<1>5. ASSUME ProxyRestarts PROVE Sources'
  <2>1. hub' = NeverPolled /\ UNCHANGED <<clock, delivered, beatVars>>
    BY <1>5 DEF ProxyRestarts, loginVars
  <2> QED BY <1>2, <2>1 DEF Sources, NeverPolled
<1>6. ASSUME PollerWedges PROVE Sources'
  BY <1>2, <1>6 DEF PollerWedges, loginVars, Sources
<1> DEFINE Rest == UNCHANGED <<clock, hub, delivered, counterSince>>
<1>7. ASSUME Beat PROVE Sources'
  <2>1. /\ Rest /\ counterUp /\ beats.whole /\ counterUp' = counterUp
        /\ beats' = [last |-> clock, before |-> beats.last, whole |-> FALSE]
    BY <1>7 DEF Beat, loginVars, hubVars
  <2>2. /\ DOMAIN beats' = {"last", "before", "whole"} /\ beats'.last = clock
        /\ beats'.before = beats.last /\ beats'.whole = FALSE
    BY <2>1
  <2>3. LastHeartbeat' = LastHeartbeat
    BY <2>1, <2>2 DEF LastHeartbeat
  <2> QED BY <2>1, <2>2, <2>3 DEF Sources, Later
<1>8. ASSUME BeatFlushed PROVE Sources'
  <2>1. /\ Rest /\ counterUp /\ ~beats.whole /\ counterUp' = counterUp
        /\ beats' = [beats EXCEPT !.whole = TRUE]
    BY <1>8 DEF BeatFlushed, loginVars, hubVars
  <2>2. DOMAIN beats = {"last", "before", "whole"} /\ beats.last = clock
    BY <2>1 DEF Sources
  <2>3. /\ DOMAIN beats' = {"last", "before", "whole"} /\ beats'.last = clock
        /\ beats'.before = beats.before /\ beats'.whole = TRUE
    BY <2>1, <2>2
  <2>4. LastHeartbeat' = clock
    BY <2>3 DEF LastHeartbeat
  <2>5. clock - Later(clock, counterSince) <= BeatPeriod
    BY DEF Later, Sources, FeedsAssumption, BeatPeriod
  <2> QED BY <2>1, <2>2, <2>3, <2>4, <2>5 DEF Sources
<1>9. ASSUME CounterStartsOrStops PROVE Sources'
  <2>1. /\ UNCHANGED <<clock, hub, delivered>> /\ counterUp' = ~counterUp /\ counterSince' = clock
        /\ beats' = [beats EXCEPT !.whole = TRUE, !.last = IF beats.whole THEN @ ELSE beats.before]
    BY <1>9 DEF CounterStartsOrStops, loginVars, hubVars
  <2>2. DOMAIN beats = {"last", "before", "whole"}
    BY DEF Sources
  <2>3. /\ DOMAIN beats' = {"last", "before", "whole"} /\ beats'.whole = TRUE
        /\ beats'.before = beats.before /\ beats'.last = LastHeartbeat
    BY <2>1, <2>2 DEF LastHeartbeat
  <2>4. LastHeartbeat \in Int /\ LastHeartbeat <= clock /\ clock \in Nat
    BY DEF LastHeartbeat, Sources
  <2>5. LastHeartbeat' = LastHeartbeat
    BY <2>3 DEF LastHeartbeat
  <2>6. clock - Later(LastHeartbeat, clock) <= BeatPeriod
    BY <2>4 DEF Later, FeedsAssumption, BeatPeriod
  <2> QED BY <2>1, <2>3, <2>4, <2>5, <2>6 DEF Sources
<1>10. ASSUME FeedsTick PROVE Sources'
  <2>1. clock' = clock + 1 /\ beats.whole /\ ~BeatOverdue /\ UNCHANGED <<hub, delivered, beats, counterUp, counterSince>>
    BY <1>10 DEF FeedsTick, LoginTick, feedVars, hubVars, beatVars
  <2>2. LastHeartbeat' = beats.last /\ LastHeartbeat = beats.last
    BY <2>1 DEF LastHeartbeat
  <2>3. counterUp => clock' - Later(beats.last, counterSince) <= BeatPeriod
    BY <2>1 DEF BeatOverdue, BeatAge, BeatPeriod, Later, Sources, FeedsAssumption
  <2>4. clock' \in Nat /\ clock <= clock'
    BY <2>1 DEF Sources
  <2> QED BY <2>1, <2>2, <2>3, <2>4 DEF Sources
<1>11. ASSUME NEW r \in Reader, FetchArrives(r) \/ FetchFails(r) \/ Acquire(r) PROVE Sources'
  BY <1>1, <1>11 DEF Acquire, FetchArrives, FetchFails, loginVars
<1>12. ASSUME NEW r \in Reader, NEW t, AskPage(r, t) PROVE Sources'
  BY <1>1, <1>12 DEF AskPage, Get
<1>13. ASSUME LoginServes, UNCHANGED feedVars PROVE Sources'
  BY <1>1, <1>13 DEF LoginServes, Check, Weigh, WrongPassword, FindRecord, Fails, Succeeds, Get, Logout, SetPassword,
     feedVars
<1>14. ASSUME UNCHANGED <<loginVars, feedVars>> PROVE Sources'
  BY <1>1, <1>14 DEF loginVars, feedVars
<1> QED
  BY <1>3, <1>4, <1>5, <1>6, <1>7, <1>8, <1>9, <1>10, <1>11, <1>12, <1>13, <1>14 DEF FeedsStep, FeedsNext

(* A green lamp is a feed that delivers, and a counter that has run for an interval and   *)
(* a poll is not shown dead, also while its line is half written.                 *)
THEOREM LampsAreHonest == FeedsSpec => []LampsHonest
<1>1. LoginInit /\ FeedsInit => Sources
  <2> SUFFICES ASSUME LoginInit, FeedsInit
               PROVE  Sources
    OBVIOUS
  <2>1. /\ clock = 0 /\ counterSince = 0 /\ hub = NeverPolled /\ delivered = NoTime
        /\ beats = [last |-> NoTime, before |-> NoTime, whole |-> TRUE]
    BY DEF LoginInit, FeedsInit
  <2>2. LastHeartbeat = NoTime /\ Later(NoTime, 0) = 0
    BY <2>1 DEF LastHeartbeat, Later, NoTime
  <2> QED BY <2>1, <2>2, FeedsAssumption DEF Sources, NeverPolled, NoTime, FeedsAssumption, BeatPeriod
<1>2. Sources /\ [FeedsStep]_<<loginVars, feedVars>> => Sources'
  BY SourcesStep, FeedsAssumption
<1>3. Sources => LampsHonest
  BY SourcesLamps, FeedsAssumption
<1> QED BY <1>1, <1>2, <1>3, PTL DEF FeedsSpec, FeedsStep
=============================================================================
