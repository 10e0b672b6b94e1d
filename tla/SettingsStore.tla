------------------------------ MODULE SettingsStore ------------------------------
(***************************************************************************)
(* webapp/settings_schema.py, settings_api.py, config_store.py: the settings *)
(* form and the file it is saved to.  A submission is applied to the values  *)
(* as they were read, then merged over the values as they are read again,    *)
(* then renamed over the file: three steps of a request thread, without a    *)
(* lock.  A value is a text; what a text strips, parses and splits to is     *)
(* given by the functions Stripped, Number and Corners.                      *)
(***************************************************************************)
EXTENDS Integers, Sequences, FiniteSets, FiniteSetsExt, Functions

CONSTANTS Saver,           \* request threads that submit the settings form
          Stripped,        \* padded text to its str.strip(); other texts are stripped
          Number,          \* the texts int() accepts, to their values
          Corners,         \* the texts that split into four floats, to those
          InitialStored,   \* what config.json may hold when the panel starts
          Submission,      \* the forms an operator may post
          MaxSaves,        \* bound: submissions of a behaviour
          MaxFailures      \* bound: writes that raise, files damaged by hand

CLEAR   == "__CLEAR__"
MASK    == "****"
Invalid == "invalid"       \* validate_value raised

Spec(type, default, exported) ==
    [type |-> type, default |-> default, exported |-> exported,
     choices |-> {}, low |-> 1, high |-> 65535]

(* A row of each kind and of each consumer in the catalogue.                   *)
SETTINGS ==
    [ANTHROPIC_API_KEY     |-> Spec("secret", "", TRUE),
     AIS_SOURCE            |-> [Spec("enum", "aisstream", TRUE) EXCEPT
                                  !.choices = {"aisstream", "aishub", "off"}],
     AIS_BBOX              |-> Spec("bbox", "sea", TRUE),
     PROXY_PORT            |-> Spec("int", "9000", TRUE),
     LOG_DIR               |-> Spec("path", "", FALSE),
     AIS_STATION_NMEA_PORT |-> Spec("int", "10111", FALSE),
     PROXY_ENABLED         |-> Spec("bool", "on", FALSE),
     COUNTER_ENABLED       |-> Spec("bool", "on", FALSE),
     WEBAPP_BIND_HOST      |-> Spec("text", "127.0.0.1", FALSE)]

Key == DOMAIN SETTINGS

ASSUME StoreAssumption ==
    /\ MaxSaves \in Nat /\ MaxFailures \in Nat
    /\ \A t \in DOMAIN Stripped : Stripped[t] \notin DOMAIN Stripped
    /\ {"", "on", "off", MASK, CLEAR} \intersect DOMAIN Stripped = {}
    /\ \A t \in DOMAIN Number :
          /\ Number[t] \in Int
          /\ \E u \in DOMAIN Number \ DOMAIN Stripped : Number[u] = Number[t]  \* str(int(t))
    /\ \A t \in DOMAIN Corners : Len(Corners[t]) = 4

VARIABLES
    file,          \* config.json: whether it parses, and the texts stored for some keys
    saving,        \* per thread: where its save is and what it carries
    acked,         \* history: the values the acknowledged saves left
    undone,        \* history: the keys whose acknowledged value a later save, which had
                   \* read the file before it was acknowledged, wrote over
    mended,        \* history: a save that had read a file before it was damaged replaced it
    saves, failures

storeVars == <<file, saving, acked, undone, mended, saves, failures>>

Strip(t) == IF t \in DOMAIN Stripped THEN Stripped[t] ELSE t
Lower(t) == IF t = "ON" THEN "on" ELSE t

(* validate_value: the normalised text, or Invalid.                            *)
WithinBounds(spec, n) == spec.low <= n /\ n <= spec.high

IsBox(c) == /\ \A i \in {1, 2} : -90 <= c[i] /\ c[i] <= 90
            /\ \A i \in {3, 4} : -180 <= c[i] /\ c[i] <= 180
            /\ c[1] < c[2] /\ c[3] < c[4]

Accepts(spec, t) ==
    CASE spec.type = "bool" -> Lower(t) \in {"on", "off"}
      [] spec.type = "enum" -> t \in spec.choices
      [] spec.type = "int"  -> t \in DOMAIN Number /\ WithinBounds(spec, Number[t])
      [] spec.type = "bbox" -> t \in DOMAIN Corners /\ IsBox(Corners[t])
      [] OTHER -> TRUE

Canonical(spec, t) ==
    CASE spec.type = "bool" -> Lower(t)
      [] spec.type = "int"  -> CHOOSE u \in DOMAIN Number :
                                  Number[u] = Number[t] /\ u \notin DOMAIN Stripped
      [] OTHER -> t

Validate(k, raw) ==
    LET spec == SETTINGS[k]  t == Strip(raw)
    IN  IF Accepts(spec, t) THEN Canonical(spec, t) ELSE Invalid

(* The catalogue's defaults are in the form validation gives them.             *)
ASSUME DefaultsAssumption ==
    \A k \in Key : Validate(k, SETTINGS[k].default) \in {SETTINGS[k].default, Invalid}

(* _validated, load: every key, its stored value where that validates.         *)
Validated(stored) ==
    [k \in Key |-> IF k \in DOMAIN stored /\ Validate(k, stored[k]) # Invalid
                   THEN Validate(k, stored[k]) ELSE SETTINGS[k].default]

Load(f) == Validated(IF f.ok THEN f.stored ELSE <<>>)
-----------------------------------------------------------------------------
(* The form.                                                                  *)

(* Mutant of LeftAlone: a box of blanks is a value.                            *)
LeftEmpty(k, raw) == SETTINGS[k].type = "secret" /\ raw = ""

(* An empty box of a secret is a secret left alone: the form never shows it.   *)
LeftAlone(k, raw) == SETTINGS[k].type = "secret" /\ Strip(raw) = ""

Candidate(raw) == IF raw = CLEAR THEN "" ELSE raw

Given(sub) == {k \in DOMAIN sub \intersect Key : ~LeftAlone(k, sub[k])}

Refused(sub) ==
    \/ DOMAIN sub \ Key # {}
    \/ \E k \in Given(sub) : Validate(k, Candidate(sub[k])) = Invalid

(* apply: the keys a submission changes, against the values it was shown.      *)
Changes(values, sub) ==
    LET C == {k \in Given(sub) : Validate(k, Candidate(sub[k])) # values[k]}
    IN  [k \in C |-> Validate(k, Candidate(sub[k]))]

(* Mutant of RestartTargets: what no child is given needs no restart.          *)
RestartExported(k) == IF SETTINGS[k].exported THEN {"proxy"} ELSE {}

(* _restart_targets: who read this key when it started.                        *)
RestartTargets(k) ==
    CASE k = "AIS_STATION_NMEA_PORT" -> {"counter"}
      [] k = "WEBAPP_BIND_HOST"      -> {"panel"}
      [] OTHER -> IF SETTINGS[k].exported THEN {"proxy"} ELSE {}

(* save: what is written, given what is stored; a masked secret is unchanged.  *)
Masked(k, v) == SETTINGS[k].type = "secret" /\ v = MASK

Merged(stored, values) ==
    [k \in Key |-> IF k \in DOMAIN values /\ ~Masked(k, values[k])
                   THEN Validate(k, values[k]) ELSE Validated(stored)[k]]
-----------------------------------------------------------------------------
Idle == [pc |-> "idle", values |-> <<>>, clean |-> <<>>, meant |-> {}, missed |-> {}]

(* History: the boxes the operator filled in; blanks, or the mask, in a        *)
(* secret's box are what the browser shows of a secret.                        *)
FilledIn(sub) ==
    {k \in DOMAIN sub \intersect Key :
        ~(SETTINGS[k].type = "secret" /\ Strip(sub[k]) \in {"", MASK})}

StoreInit ==
    /\ file \in [ok : {TRUE}, stored : InitialStored]
    /\ saving = [s \in Saver |-> Idle]
    /\ acked = Load(file) /\ undone = {} /\ mended = FALSE
    /\ failures = 0

(* POST /api/settings: refused, nothing changed, or a save begins.             *)
Submit(s, sub) ==
    /\ saving[s].pc = "idle" /\ saves < MaxSaves
    /\ saves' = saves + 1
    /\ LET values == Changes(Load(file), sub)
       IN  saving' = IF Refused(sub) \/ DOMAIN values = {} THEN saving
                     ELSE [saving EXCEPT ![s] = [Idle EXCEPT !.pc = "read", !.values = values,
                                                           !.meant = FilledIn(sub)]]
    /\ UNCHANGED <<file, acked, undone, mended, failures>>

(* config_store.save reads what is stored, and refuses a file it cannot read.  *)
ReadStored(s) ==
    /\ saving[s].pc = "read"
    /\ saving' = [saving EXCEPT ![s] =
                    IF ~file.ok THEN Idle
                    ELSE [@ EXCEPT !.pc = "write", !.clean = Merged(file.stored, saving[s].values)]]
    /\ UNCHANGED <<file, acked, undone, mended, saves, failures>>

(* restart_needed of the reply.                                                *)
RestartNeeded(s) == UNION {RestartTargets(k) : k \in DOMAIN saving[s].values}

(* History: what a save acknowledges; a save that has read the file already    *)
(* does not know of it.                                                        *)
Acknowledges(s) == DOMAIN saving[s].values \intersect saving[s].meant

Misses(t, keys) ==
    IF saving[t].pc = "write" THEN [saving[t] EXCEPT !.missed = @ \union keys] ELSE saving[t]

(* os.replace, and the reply.                                                  *)
Replace(s) ==
    /\ saving[s].pc = "write"
    /\ file' = [ok |-> TRUE, stored |-> saving[s].clean]
    /\ acked' = [k \in Key |-> IF k \in Acknowledges(s) THEN saving[s].values[k] ELSE acked[k]]
    /\ undone' = (undone \union saving[s].missed) \ Acknowledges(s)
    /\ mended' = (mended \/ ~file.ok)
    /\ saving' = [t \in Saver |-> IF t = s THEN Idle ELSE Misses(t, Acknowledges(s))]
    /\ UNCHANGED <<saves, failures>>

(* The temporary file cannot be written: it is removed, the file is as it was. *)
WriteRaises(s) ==
    /\ saving[s].pc = "write" /\ failures < MaxFailures
    /\ saving' = [saving EXCEPT ![s] = Idle]
    /\ failures' = failures + 1
    /\ UNCHANGED <<file, acked, undone, mended, saves>>

(* A hand edit leaves a file that does not parse.                              *)
DamageFile ==
    /\ file.ok /\ failures < MaxFailures
    /\ file' = [file EXCEPT !.ok = FALSE] /\ failures' = failures + 1
    /\ UNCHANGED <<saving, acked, undone, mended, saves>>

StoreNext ==
    \/ \E s \in Saver : \/ \E sub \in Submission : Submit(s, sub)
                        \/ ReadStored(s) \/ Replace(s) \/ WriteRaises(s)
    \/ DamageFile
-----------------------------------------------------------------------------
(* What the panel acknowledged is what it reads back: every key keeps the      *)
(* value of the last save that changed it, whatever other keys, invalid or     *)
(* blank boxes, masks, failed writes and damaged files came between.  Saves    *)
(* lock nothing, so one that read the file before another was acknowledged and *)
(* replaces it after takes that one's keys back: it takes no others, and those *)
(* only until they are saved again.                                            *)
SettingsStick == file.ok => \A k \in Key \ undone : Load(file)[k] = acked[k]

(* "Values MERGE over what is already stored" (save), so that no caller drops  *)
(* a key it did not send: without the exception for saves at once.             *)
SavesMerge == file.ok => \A k \in Key : Load(file)[k] = acked[k]
=============================================================================
