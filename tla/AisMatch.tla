-------------------------------- MODULE AisMatch --------------------------------
(***************************************************************************)
(* The lookups of stt_proxy/ais.py: ships found by name, by what resembles   *)
(* one, by callsign and by part of one.  The indexes are those VesselCache   *)
(* models in full; here a ship has one entry, and what a feed reports of it  *)
(* is merged in one step.  A name is a sequence of words.                    *)
(***************************************************************************)
EXTENDS Corrections

CONSTANTS
    Mmsi, Km,              \* the ships, and how far from Maas Center each is
    Report,                \* what a feed may say: a set of [mmsi, name, callsign]
    Ratio(_, _),           \* fuzz.ratio of two word sequences
    Substantial,           \* the words of AIS_HINT_MIN_TOKEN letters or more
    Stopword,              \* _HINT_STOPWORDS
    TypeWord,              \* _NAME_SKIP
    AIS_NAME_MIN_SCORE, AIS_NAME_AMBIGUOUS_GAP,
    AIS_HINT_MIN_SCORE, AIS_HINT_MAX_NGRAM, HINTS,
    AIS_SUGGEST_FLOOR,
    MaxReports             \* bound: reports, and ships that fall silent

None == <<>>               \* no name, no callsign
Nobody == 0                \* no ship

(* A ship has a number, and a row of the file or a report a name; the limits   *)
(* are scores.                                                                 *)
ASSUME MatchAssumption ==
    /\ IsFiniteSet(Mmsi) /\ Nobody \notin Mmsi
    /\ Report \subseteq [mmsi : Mmsi, name : Seq(STRING) \ {None}, callsign : Seq(STRING)]
    /\ AIS_NAME_MIN_SCORE \in 0..100 /\ AIS_NAME_AMBIGUOUS_GAP \in Nat

VARIABLES
    fleet,      \* _mmsi_index: the entry of each ship: name, callsign, is_recent
    view,       \* _vessel_cache: the ship shown under each name ever taken
    callsigns,  \* _callsign_cache
    reports
fleetVars == <<fleet, view, callsigns, reports>>

Set(f, k, v) == [x \in DOMAIN f \union {k} |-> IF x = k THEN v ELSE f[x]]

Holders(n) == {m \in DOMAIN fleet : fleet[m].name = n}
Nearest(S) == CHOOSE m \in S : \A k \in S : Km[m] <= Km[k]

(* record(): a vacated name keeps its view, and a callsign its ship.           *)
Reported(r) ==
    LET old == IF r.mmsi \in DOMAIN fleet THEN fleet[r.mmsi].callsign ELSE None
        e   == [name |-> r.name, callsign |-> IF r.callsign = None THEN old ELSE r.callsign,
                recent |-> TRUE]
        holders == Holders(r.name) \union {r.mmsi}
    IN  /\ fleet' = Set(fleet, r.mmsi, e)
        /\ view' = Set(view, r.name, Nearest(holders))
        /\ callsigns' = IF e.callsign = None THEN callsigns ELSE Set(callsigns, e.callsign, r.mmsi)

(* A ship not heard of since LIVE_MATCH_MAX_AGE_MIN before the last poll.      *)
FallsSilent(m) ==
    /\ fleet[m].recent
    /\ fleet' = [fleet EXCEPT ![m].recent = FALSE]
    /\ UNCHANGED <<view, callsigns>>

FeedMoves ==
    /\ reports < MaxReports /\ reports' = reports + 1
    /\ (\E r \in Report : Reported(r)) \/ (\E m \in DOMAIN fleet : FallsSilent(m))
-----------------------------------------------------------------------------
(* Word spans of at most n words, and the order they are tried in.             *)
Spans(words, n) == {s \in (1..n) \X (1..Len(words)) : s[2] + s[1] - 1 <= Len(words)}
SpanText(words, s) == SubSeq(words, s[2], s[2] + s[1] - 1)

ShorterFirst(a, b) == a[1] < b[1] \/ (a[1] = b[1] /\ a[2] < b[2])
LongerFirst(a, b)  == a[1] > b[1] \/ (a[1] = b[1] /\ a[2] < b[2])

(* _hint_probes: one word of substance, and not procedure alone.               *)
Probing(span) ==
    /\ \E i \in DOMAIN span : span[i] \in Substantial
    /\ \E i \in DOMAIN span : span[i] \notin Stopword

HintSpans(t) == {s \in Spans(t, AIS_HINT_MAX_NGRAM) : Probing(SpanText(t, s))}
HintProbes(t) == {SpanText(t, s) : s \in HintSpans(t)}

(* _find_ais_hints: each probe's best name, the first ships until there are    *)
(* enough of them.                                                             *)
HintOf(probe) ==
    LET near == {n \in DOMAIN view : Ratio(probe, n) >= AIS_HINT_MIN_SCORE}
    IN  IF near = {} THEN Nobody
        ELSE view[CHOOSE n \in near : \A k \in near : Ratio(probe, n) >= Ratio(probe, k)]

FindAisHints(t) ==
    LET FirstOf(m) == CHOOSE s \in {s \in HintSpans(t) : HintOf(SpanText(t, s)) = m} :
                         \A r \in HintSpans(t) : HintOf(SpanText(t, r)) = m => ~ShorterFirst(r, s)
        ships == {HintOf(p) : p \in HintProbes(t)} \ {Nobody}
    IN  {m \in ships : Cardinality({k \in ships : ShorterFirst(FirstOf(k), FirstOf(m))}) < HINTS}

(* match_by_name_candidates: the names that score, of the whole query or of    *)
(* its longest part that has any, as close as the gap to the best; then every  *)
(* ship that carries one.                                                      *)
ScoredNames(q) == {n \in DOMAIN view : /\ Ratio(q, n) >= AIS_NAME_MIN_SCORE
                                       /\ q = n \/ \E i \in DOMAIN n : n[i] \in Substantial}

(* A mutant: the ship shown under each name is enough.                         *)
BestShownOnly(q) ==
    {view[n] : n \in {n \in ScoredNames(q) :
        \A k \in ScoredNames(q) : Ratio(q, k) - Ratio(q, n) <= AIS_NAME_AMBIGUOUS_GAP}}

MatchByNameCandidates(q) ==
    LET words  == SelectSeq(q, LAMBDA w : w \notin TypeWord)
        parts  == {s \in Spans(words, Len(words)) : ScoredNames(SpanText(words, s)) # {}}
        part   == SpanText(words, CHOOSE s \in parts : \A r \in parts : ~LongerFirst(r, s))
        probe  == IF ScoredNames(q) # {} \/ parts = {} THEN q ELSE part
        names  == {n \in ScoredNames(probe) :
                     \A k \in ScoredNames(probe) :
                        Ratio(probe, k) - Ratio(probe, n) <= AIS_NAME_AMBIGUOUS_GAP}
    IN  IF q = None THEN {} ELSE UNION {Holders(n) : n \in names}

MatchByName(q) ==
    LET found == MatchByNameCandidates(q) IN IF found = {} THEN Nobody ELSE Nearest(found)

MatchByCallsign(c) == IF c \in DOMAIN callsigns THEN callsigns[c] ELSE Nobody

(* By pattern or by tail: only when one callsign fits.                         *)
Only(S) == IF Cardinality(S) = 1 THEN callsigns[CHOOSE c \in S : TRUE] ELSE Nobody

MatchByPattern(pattern) ==
    Only({c \in DOMAIN callsigns : /\ Len(c) = Len(pattern)
                                   /\ \A i \in DOMAIN c : pattern[i] \in {c[i], AnyChar}})

MatchBySuffix(suffix) ==
    IF Len(suffix) < 3 THEN Nobody ELSE Only({c \in DOMAIN callsigns : IsSuffix(suffix, c)})

(* suggest_vessels: the n ships whose best name comes closest to any probe the *)
(* filter lets through; equals come in some fixed order.                       *)
Closeness(probes, m) ==
    LET scores == {Ratio(p, k) : p \in probes, k \in {k \in DOMAIN view : view[k] = m}}
    IN  CHOOSE s \in scores : \A r \in scores : r <= s

Close(probes) ==
    {m \in {view[k] : k \in DOMAIN view} : probes # {} /\ Closeness(probes, m) >= AIS_SUGGEST_FLOOR}

Closest(probes, ships, n) ==
    CHOOSE S \in SUBSET ships :
        /\ Cardinality(S) = IF Cardinality(ships) < n THEN Cardinality(ships) ELSE n
        /\ \A m \in S, k \in ships \ S : Closeness(probes, m) >= Closeness(probes, k)

SuggestVessels(probes, n) == Closest(probes, Close(probes), n)
=============================================================================
