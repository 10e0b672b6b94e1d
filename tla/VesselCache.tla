------------------------------- MODULE VesselCache -------------------------------
(***************************************************************************)
(* stt_proxy/ais.py and aishub.py: the vessels heard on AIS.  The feed       *)
(* thread (an AISHub poll, or aisstream's frames) merges observations into   *)
(* entries that four indexes share, request threads look ships up by name,   *)
(* the saver thread writes the entries to a file, and a restart reads it.    *)
(*                                                                          *)
(* An entry is a mutable dict: an id into `heap`.  Of its fields the model   *)
(* keeps what decides anything: MMSI, name, callsign, and the distance and   *)
(* time of its last fix.  Each operation holds _cache_lock for one step.     *)
(***************************************************************************)
EXTENDS Integers, Sequences, FiniteSets, FiniteSetsExt

CONSTANTS Mmsi, Name, Callsign,
          Artefact,        \* the names _looks_like_ais_artefact
          Observation,     \* what the feed may report of a vessel
          InitialFile,     \* the rows AIS_CACHE_FILE may hold at first
          AIS_SOURCE,      \* the feeds a deployment may choose
          PENDING_MAX,     \* _PENDING_MAX
          MaxReports,      \* bound: polls, or frames, of a behaviour
          MaxSaves,        \* bound: saves of a behaviour
          MaxCrashes       \* bound: crashes of a behaviour

Absent == "absent"         \* no MMSI, no name, no callsign
NoFix  == 1000             \* further away than any fix

Entry == [mmsi : Mmsi \union {Absent}, name : Name \union {Absent},
          callsign : Callsign \union {Absent}, km : Nat, at : Nat]

ASSUME CacheAssumption ==
    /\ Absent \notin Mmsi \union Name \union Callsign
    /\ Artefact \subseteq Name
    /\ Observation \subseteq {e \in Entry : e.mmsi # Absent}
    /\ InitialFile \subseteq Seq({e \in Entry : e.name # Absent})
    /\ AIS_SOURCE \subseteq {"aishub", "aisstream"}
    /\ PENDING_MAX \in Nat \ {0}
    /\ MaxReports \in Nat /\ MaxSaves \in Nat /\ MaxCrashes \in Nat

VARIABLES
    source,         \* the feed this deployment chose
    up,             \* the process runs and has loaded its cache
    heap,           \* the entries
    vesselCache,    \* _vessel_cache: name to entry
    mmsiIndex,      \* _mmsi_index: MMSI to entry
    nameIndex,      \* _name_index: name to the MMSIs that ever carried it
    callsignCache,  \* _callsign_cache: callsign to entry
    pending,        \* _pending: what is known of a vessel without a name
    inScope,        \* _in_scope
    toRecord,       \* what poll_once has validated and not yet recorded
    polled,         \* the MMSIs of that response
    polling,        \* poll_once is between its first pass and its end
    snapshot,       \* the copy of _vessel_cache a name lookup works on
    saving,         \* the entries _save_cache has collected
    savePc,         \* "idle", "open", "dump"
    file,           \* AIS_CACHE_FILE
    reports, saves, crashes,   \* bounds
    mustSave,       \* history: the MMSIs indexed when the save began
    captured,       \* history: the MMSIs recorded in this life
    savedIndex,     \* history: the indexed entries in the file
    justLoaded      \* history: nothing was recorded since the last load

index    == <<heap, vesselCache, mmsiIndex, nameIndex, callsignCache, pending>>
feed     == <<toRecord, polled, polling, reports>>
disk     == <<saving, savePc, file, saves, savedIndex, mustSave>>
env      == <<source, crashes>>
vars     == <<up, index, inScope, feed, snapshot, disk, env, captured, justLoaded>>

Put(f, k, v) == [x \in DOMAIN f \union {k} |-> IF x = k THEN v ELSE f[x]]
Without(f, k) == [x \in DOMAIN f \ {k} |-> f[x]]
Nothing == [x \in {} |-> 0]

Torn == [intact |-> FALSE, rows |-> <<>>]
-----------------------------------------------------------------------------
(* Rankings.                                                                  *)

(* _entry_rank: whether a is the better claim to be the ship of its MMSI.      *)
Populated(e) == IF e.callsign = Absent THEN 0 ELSE 1
Junk(e)      == IF e.name \in Artefact THEN 1 ELSE 0

Outranks(a, b) ==
    \/ Junk(a) < Junk(b)
    \/ Junk(a) = Junk(b) /\ Populated(a) > Populated(b)

(* _candidate_sort_key: in scope, then nearest, then the most recent fix; the  *)
(* type of ship, which comes before the fix, is left out.                      *)
OutOfScope(e, scope) == IF scope # {} /\ e.mmsi \notin scope THEN 1 ELSE 0

SortsBefore(a, b, scope) ==
    LET oa == OutOfScope(a, scope) ob == OutOfScope(b, scope)
    IN  \/ oa < ob
        \/ oa = ob /\ a.km < b.km
        \/ oa = ob /\ a.km = b.km /\ a.at > b.at

(* candidates_for_name: the entries whose current name this is.                *)
Holders(n, H, byMmsi, byName) ==
    {byMmsi[m] : m \in {m \in byName[n] \intersect DOMAIN byMmsi : H[byMmsi[m]].name = n}}

(* The candidates _refresh_name_view may show: min() of them; ties, settled in *)
(* the code by the order in which ships took the name, are left open.          *)
Best(n, H, byMmsi, byName, scope) ==
    LET C == Holders(n, H, byMmsi, byName)
    IN  {i \in C : \A j \in C : ~SortsBefore(H[j], H[i], scope)}

(* _refresh_name_view of every name in `names`: the view of a name nobody      *)
(* carries stays as it is.                                                     *)
RefreshedViews(view, names, H, byMmsi, byName, scope) ==
    {f \in [DOMAIN view -> DOMAIN H] : \A n \in DOMAIN view :
        LET best == IF n \in names THEN Best(n, H, byMmsi, byName, scope) ELSE {}
        IN  IF best = {} THEN f[n] = view[n] ELSE f[n] \in best}
-----------------------------------------------------------------------------
(* record().                                                                  *)

(* _apply: static fields fill or update, a fix applies unless it is older.     *)
Applied(e, o) ==
    LET newer == o.km # NoFix /\ o.at >= e.at
    IN  [mmsi |-> e.mmsi,
         name |-> IF o.name = Absent THEN e.name ELSE o.name,
         callsign |-> IF o.callsign = Absent THEN e.callsign ELSE o.callsign,
         km |-> IF newer THEN o.km ELSE e.km,
         at |-> IF newer THEN o.at ELSE e.at]

Blank(m) == [mmsi |-> m, name |-> Absent, callsign |-> Absent, km |-> NoFix, at |-> 0]

Held(m) == IF m \in DOMAIN pending THEN pending[m].seen ELSE Blank(m)

(* Mutant of Publish: a known ship is not indexed under a name it takes.        *)
PublishOnce(m, i, e, held) ==
    /\ heap' = Put(heap, i, e)
    /\ mmsiIndex' = Put(mmsiIndex, m, i)
    /\ nameIndex' = IF i \in DOMAIN heap THEN nameIndex
                    ELSE [nameIndex EXCEPT ![e.name] = @ \union {e.mmsi}]
    /\ callsignCache' = IF e.callsign = Absent THEN callsignCache
                        ELSE Put(callsignCache, e.callsign, i)
    /\ vesselCache' \in RefreshedViews(Put(vesselCache, e.name, i), {e.name},
                                       heap', mmsiIndex', nameIndex', inScope)
    /\ pending' = Without(held, m)

(* An entry, new or changed, gets into every index; its name's view is refreshed. *)
Publish(m, i, e, held) ==
    /\ heap' = Put(heap, i, e)
    /\ mmsiIndex' = Put(mmsiIndex, m, i)
    /\ nameIndex' = [nameIndex EXCEPT ![e.name] = @ \union {e.mmsi}]
    /\ callsignCache' = IF e.callsign = Absent THEN callsignCache
                        ELSE Put(callsignCache, e.callsign, i)
    /\ vesselCache' \in RefreshedViews(Put(vesselCache, e.name, i), {e.name},
                                       heap', mmsiIndex', nameIndex', inScope)
    /\ pending' = Without(held, m)

(* Mutant of Adoptable: whatever entry has the name is adopted.                *)
AdoptsAnyone(o) ==
    IF o.mmsi \notin DOMAIN mmsiIndex /\ o.name \in DOMAIN vesselCache
    THEN {vesselCache[o.name]} ELSE {}

(* An entry of that name with no MMSI yet, or with this one.                   *)
Adoptable(o) ==
    IF /\ o.mmsi \notin DOMAIN mmsiIndex
       /\ o.name \in DOMAIN vesselCache
       /\ heap[vesselCache[o.name]].mmsi \in {o.mmsi, Absent}
    THEN {vesselCache[o.name]} ELSE {}

Known(o) ==
    IF o.mmsi \in DOMAIN mmsiIndex THEN {mmsiIndex[o.mmsi]} ELSE Adoptable(o)

(* The vessel has an entry: what was held for it is merged, then this.         *)
Update(o) ==
    \E i \in Known(o) :
        LET adopted == IF heap[i].mmsi = Absent THEN [heap[i] EXCEPT !.mmsi = o.mmsi]
                       ELSE heap[i]
        IN  Publish(o.mmsi, i, Applied(Applied(adopted, Held(o.mmsi)), o), pending)

(* A vessel that is not known is held, and when that is one too many the one   *)
(* with the oldest report makes room, unless it is the one that was just heard. *)
Holding(o) ==
    LET held == Put(pending, o.mmsi, [seen |-> Applied(Held(o.mmsi), o), touched |-> o.at])
        Oldest == {m \in DOMAIN held : \A k \in DOMAIN held : held[m].touched <= held[k].touched}
    IN  IF Cardinality(DOMAIN held) <= PENDING_MAX THEN {held}
        ELSE {IF m = o.mmsi THEN held ELSE Without(held, m) : m \in Oldest}

(* Not admitted: it has no name yet.                                            *)
Hold(o) ==
    /\ Known(o) = {}
    /\ pending' \in Holding(o)
    /\ Applied(Held(o.mmsi), o).name = Absent
    /\ UNCHANGED <<heap, vesselCache, mmsiIndex, nameIndex, callsignCache>>

Admit(o) ==
    /\ Known(o) = {}
    /\ Applied(Held(o.mmsi), o).name # Absent
    /\ \E held \in Holding(o) :
         Publish(o.mmsi, Cardinality(DOMAIN heap) + 1, Applied(Held(o.mmsi), o), held)

Record(o) ==
    /\ Update(o) \/ Hold(o) \/ Admit(o)
    /\ captured' = captured \union {o.mmsi}
    /\ justLoaded' = FALSE
-----------------------------------------------------------------------------
(* The feeds.                                                                 *)

(* A frame of aisstream's, which counts as of now: later than any other time.   *)
Now == 10 + reports

StreamFrame ==
    /\ up /\ source = "aisstream" /\ reports < MaxReports
    /\ \E o \in Observation : Record([o EXCEPT !.at = Now])
    /\ reports' = reports + 1
    /\ UNCHANGED <<up, inScope, toRecord, polled, polling, snapshot, disk, env>>

(* What a response comes to after parse_response and map_ship: a ship without  *)
(* an MMSI is left out, a field of the wrong type is absent, and an empty list *)
(* is an answer like any other.                                                *)
Responses == {R \in SUBSET Observation : \A o, p \in R : o.mmsi = p.mmsi => o = p}

(* poll_once after its first pass: every ship of the response is valid.  A     *)
(* response that cannot be fetched, parsed or validated changes nothing.       *)
PollBegins ==
    /\ up /\ source = "aishub" /\ ~polling /\ reports < MaxReports
    /\ \E R \in Responses :
        /\ toRecord' = R
        /\ polled' = {o.mmsi : o \in R}
    /\ polling' = TRUE
    /\ reports' = reports + 1
    /\ UNCHANGED <<up, index, inScope, snapshot, disk, env, captured, justLoaded>>

(* The second pass, one lock and one vessel at a time ...                       *)
PollRecords ==
    /\ up /\ polling
    /\ \E o \in toRecord :
        /\ Record(o)
        /\ toRecord' = toRecord \ {o}
    /\ UNCHANGED <<up, inScope, polled, polling, reports, snapshot, disk, env>>

(* ... which record() may end by raising: the poll is given up.                 *)
PollRaises ==
    /\ up /\ polling /\ toRecord # {}
    /\ polling' = FALSE /\ toRecord' = {} /\ polled' = {}
    /\ UNCHANGED <<up, index, inScope, reports, snapshot, disk, env, captured, justLoaded>>

(* Mutant of SetInScope: the views of the names are left as they were.          *)
SetInScopeOnly ==
    /\ up /\ polling /\ toRecord = {}
    /\ inScope' = polled
    /\ polling' = FALSE /\ polled' = {}
    /\ UNCHANGED <<up, index, toRecord, reports, snapshot, disk, env, captured, justLoaded>>

(* set_in_scope, last: the scope is published and every name ranked again.      *)
SetInScope ==
    /\ up /\ polling /\ toRecord = {}
    /\ inScope' = polled
    /\ vesselCache' \in RefreshedViews(vesselCache, Name, heap, mmsiIndex, nameIndex, polled)
    /\ polling' = FALSE /\ polled' = {}
    /\ UNCHANGED <<up, heap, mmsiIndex, nameIndex, callsignCache, pending, toRecord, reports,
                   snapshot, disk, env, captured, justLoaded>>
-----------------------------------------------------------------------------
(* match_by_name, for a name that is in the snapshot: the keys and entries are  *)
(* copied in one lock, the candidates are looked up in later ones.              *)
Snapshot ==
    /\ up
    /\ snapshot # vesselCache
    /\ snapshot' = vesselCache
    /\ UNCHANGED <<up, index, inScope, feed, disk, env, captured, justLoaded>>

(* Mutant of Orphaned: the entry of the snapshot is good enough.                *)
AlwaysOrphaned(n, i) == TRUE

(* The entry under the name is not the one the index holds for its MMSI.         *)
Orphaned(n, i) ==
    \/ nameIndex[n] = {}
    \/ heap[i].mmsi \notin DOMAIN mmsiIndex
    \/ mmsiIndex[heap[i].mmsi] # i

MatchByName(n) ==
    LET found == Holders(n, heap, mmsiIndex, nameIndex)
    IN  IF found # {} THEN found
        ELSE IF Orphaned(n, snapshot[n]) THEN {snapshot[n]} ELSE {}
-----------------------------------------------------------------------------
(* _save_cache, on the saver thread.                                           *)

Images(f) == {f[k] : k \in DOMAIN f}

(* Mutant of Collected: only what the names show.                               *)
CollectedByName == Images(vesselCache)

(* The union of the two indexes, each entry once.                               *)
Collected == Images(mmsiIndex) \union Images(vesselCache)

SaveCollects ==
    /\ up /\ savePc = "idle" /\ saves < MaxSaves
    /\ saving' = Collected /\ mustSave' = DOMAIN mmsiIndex
    /\ saves' = saves + 1
    /\ savePc' = "open"
    /\ UNCHANGED <<up, index, inScope, feed, snapshot, file, savedIndex, env, captured,
                   justLoaded>>

SaveOpens ==
    /\ up /\ savePc = "open"
    /\ file' = Torn /\ savedIndex' = Nothing
    /\ savePc' = "dump"
    /\ UNCHANGED <<up, index, inScope, feed, snapshot, saving, saves, mustSave, env, captured,
                   justLoaded>>

(* The entries are written as they are now, not as they were collected; those   *)
(* of the MMSI index come first.  Their order is otherwise left open.           *)
FileOrder(s) ==
    \A i, j \in DOMAIN s : i < j => s[i] \in Images(mmsiIndex) \/ s[j] \notin Images(mmsiIndex)

SaveDumps ==
    /\ up /\ savePc = "dump"
    /\ \E s \in [1..Cardinality(saving) -> saving] :
        /\ Images(s) = saving
        /\ FileOrder(s)
        /\ file' = [intact |-> TRUE, rows |-> [i \in DOMAIN s |-> heap[s[i]]]]
    /\ savedIndex' = [m \in mustSave |-> heap[mmsiIndex[m]]]
    /\ savePc' = "idle" /\ saving' = {} /\ mustSave' = {}
    /\ UNCHANGED <<up, index, inScope, feed, snapshot, saves, env, captured, justLoaded>>

(* A dict that grows while it is being written, or the disk, ends the dump half  *)
(* way.  The error is swallowed and the file stays torn until the next save.      *)
SaveFails ==
    /\ up /\ savePc \in {"open", "dump"}
    /\ savePc' = "idle" /\ saving' = {} /\ mustSave' = {}
    /\ UNCHANGED <<up, index, inScope, feed, snapshot, file, savedIndex, saves, env,
                   captured, justLoaded>>

Crash ==
    /\ up /\ crashes < MaxCrashes
    /\ crashes' = crashes + 1
    /\ up' = FALSE
    /\ heap' = Nothing /\ vesselCache' = Nothing /\ mmsiIndex' = Nothing
    /\ nameIndex' = [n \in Name |-> {}] /\ callsignCache' = Nothing /\ pending' = Nothing
    /\ inScope' = {} /\ toRecord' = {} /\ polled' = {} /\ polling' = FALSE
    /\ snapshot' = Nothing /\ saving' = {} /\ savePc' = "idle" /\ mustSave' = {}
    /\ captured' = {} /\ justLoaded' = FALSE
    /\ UNCHANGED <<source, reports, file, saves, savedIndex>>

(* _index_name of each row.                                                     *)
NamedIn(rows, n) ==
    {rows[i].mmsi : i \in {j \in DOMAIN rows : rows[j].name = n}} \ {Absent}

(* _load_cache, before any other thread runs.  The rows are the entries; the    *)
(* last row of a name is shown and the last of a callsign found, but an MMSI is  *)
(* its best row, the first of equals; then every name is ranked.                 *)
IndexedRow(m) ==
    LET R == {i \in DOMAIN file.rows : file.rows[i].mmsi = m}
    IN  Min({i \in R : \A j \in R : ~Outranks(file.rows[j], file.rows[i])})

Load ==
    LET rows == file.rows
        Of(field) == {rows[i][field] : i \in DOMAIN rows} \ {Absent}
        Last(field, v) == Max({i \in DOMAIN rows : rows[i][field] = v})
    IN  /\ ~up
        /\ up' = TRUE
        /\ heap' = [i \in DOMAIN rows |-> rows[i]]
        /\ mmsiIndex' = [m \in Of("mmsi") |-> IndexedRow(m)]
        /\ nameIndex' = [n \in Name |-> NamedIn(rows, n)]
        /\ callsignCache' = [c \in Of("callsign") |-> Last("callsign", c)]
        /\ vesselCache' \in RefreshedViews([n \in Of("name") |-> Last("name", n)], Name,
                                           heap', mmsiIndex', nameIndex', {})
        /\ justLoaded' = TRUE
        /\ UNCHANGED <<pending, inScope, feed, snapshot, disk, env, captured>>

Init ==
    /\ source \in AIS_SOURCE
    /\ up = FALSE
    /\ heap = Nothing /\ vesselCache = Nothing /\ mmsiIndex = Nothing
    /\ nameIndex = [n \in Name |-> {}] /\ callsignCache = Nothing /\ pending = Nothing
    /\ inScope = {} /\ toRecord = {} /\ polled = {} /\ polling = FALSE /\ reports = 0
    /\ snapshot = Nothing
    /\ saving = {} /\ savePc = "idle" /\ mustSave = {} /\ saves = 0 /\ savedIndex = Nothing
    /\ file \in [intact : {TRUE}, rows : InitialFile]
    /\ crashes = 0 /\ captured = {} /\ justLoaded = FALSE

Next ==
    \/ StreamFrame
    \/ PollBegins \/ PollRecords \/ PollRaises \/ SetInScope
    \/ Snapshot
    \/ SaveCollects \/ SaveOpens \/ SaveDumps \/ SaveFails
    \/ Crash \/ Load

Spec == Init /\ [][Next]_vars
-----------------------------------------------------------------------------
(* Every variable has its type; no index leads to an entry that is not there.   *)
TypeOK ==
    /\ source \in AIS_SOURCE
    /\ up \in BOOLEAN /\ polling \in BOOLEAN /\ justLoaded \in BOOLEAN
    /\ \A i \in DOMAIN heap : i \in Nat /\ heap[i] \in Entry /\ heap[i].name # Absent
    /\ DOMAIN vesselCache \subseteq Name /\ Images(vesselCache) \subseteq DOMAIN heap
    /\ DOMAIN mmsiIndex \subseteq Mmsi /\ Images(mmsiIndex) \subseteq DOMAIN heap
    /\ DOMAIN callsignCache \subseteq Callsign /\ Images(callsignCache) \subseteq DOMAIN heap
    /\ nameIndex \in [Name -> SUBSET Mmsi]
    /\ DOMAIN pending \subseteq Mmsi
    /\ \A m \in DOMAIN pending : pending[m].seen \in Entry /\ pending[m].touched \in Nat
    /\ inScope \subseteq Mmsi /\ polled \subseteq Mmsi /\ captured \subseteq Mmsi
    /\ toRecord \subseteq Observation
    /\ DOMAIN snapshot \subseteq Name /\ Images(snapshot) \subseteq DOMAIN heap
    /\ saving \subseteq DOMAIN heap /\ mustSave \subseteq Mmsi /\ savePc \in {"idle", "open", "dump"}
    /\ file.intact \in BOOLEAN /\ file.rows \in Seq(Entry)
    /\ reports \in Nat /\ saves \in Nat /\ crashes \in Nat

(* Two ships never share an entry: what an MMSI leads to has that MMSI, however  *)
(* often its name was taken by another ship, renamed, adopted or reloaded.       *)
OwnEntry == \A m \in DOMAIN mmsiIndex : heap[mmsiIndex[m]].mmsi = m

(* Every ship can be found under the name it has now, after any rename: the name *)
(* is a key of the fuzzy matcher and the ship one of its candidates.             *)
FoundUnderOwnName ==
    \A m \in DOMAIN mmsiIndex :
        LET n == heap[mmsiIndex[m]].name
        IN  n \in DOMAIN vesselCache /\ mmsiIndex[m] \in Holders(n, heap, mmsiIndex, nameIndex)

(* "_vessel_cache is never observably stale against the scope it should be       *)
(* ranked by": the ship shown under a name is the best that carries it under     *)
(* the published scope, unless it has itself left the name since.                *)
BestShown ==
    \A n \in DOMAIN vesselCache :
        vesselCache[n] \in Holders(n, heap, mmsiIndex, nameIndex) =>
            vesselCache[n] \in Best(n, heap, mmsiIndex, nameIndex, inScope)

(* A lookup by name never answers a ship that has been renamed since, though     *)
(* names stay indexed for ever and the snapshot may be older than the indexes.   *)
NoGhosts == \A n \in DOMAIN snapshot : \A i \in MatchByName(n) : heap[i].name = n

(* "the published scope never gets ahead of what was actually captured".         *)
ScopeCaptured == inScope \subseteq captured

(* After a restart from a complete file every ship that was indexed when it was  *)
(* saved is indexed again, by a row at least as good, and a ship whose name two  *)
(* ships carry is not lost with its name's view.                                 *)
SurvivesRestart ==
    up /\ justLoaded /\ file.intact =>
        \A m \in DOMAIN savedIndex :
            m \in DOMAIN mmsiIndex /\ ~Outranks(savedIndex[m], heap[mmsiIndex[m]])

(* ais.py:691, "Upper bound on _pending": a report older than all that are held  *)
(* is held as well, and nothing makes room for it.                               *)
PendingBounded == Cardinality(DOMAIN pending) <= PENDING_MAX

(* ais.py, match_by_callsign_pattern: "The one cached vessel whose callsign      *)
(* matches": the vessel found under a callsign has it.                           *)
CallsignFindsItsShip ==
    \A c \in DOMAIN callsignCache : heap[callsignCache[c]].callsign = c
===============================================================================
