-------------------------------- MODULE Identify --------------------------------
(***************************************************************************)
(* Who is speaking.  Each transmission is identified alone as it arrives     *)
(* (identify.py); when its window closes the resolver is offered the ships   *)
(* that may be involved and names one for each exchange it sees              *)
(* (conversations.py), a second model corrects each exchange's text          *)
(* (conversation_correct.py), and the rows are stored with what else came    *)
(* close.  The feed keeps moving the vessel cache throughout.                *)
(*                                                                         *)
(* One window is followed; when windows close, and which ids a resolver may  *)
(* name, is Conversations.  The models' answers are external: any answer the *)
(* code parses.                                                              *)
(***************************************************************************)
EXTENDS AisMatch

CONSTANTS
    Known,                 \* the cache file: a set of [mmsi, name, callsign]
    Speech,                \* the transmissions that may be heard
    Edited(_),             \* what the correction model may make of a text
    Named, Claimed,        \* names and callsigns a model may answer with
    Placeholder,           \* "null", "unknown", "<name or null>"
    Corpus,                \* the texts of the conversations stored so far
    CALLSIGN_RUN_MIN_LEN, PARTIAL_CALLSIGN_MIN_NAME_SCORE,
    SUGGEST_N, SUGGEST_MIN_DOCS,
    SUGGEST_DF_MAX,        \* per cent
    MaxTurns               \* bound: transmissions of the window

(* What fuzz.ratio is: 100 for a name and itself, never more.                  *)
ShipNames == {r.name : r \in Known \union Report}

ASSUME IdentifyAssumption ==
    /\ Known \subseteq [mmsi : Mmsi, name : Seq(STRING) \ {None}, callsign : Seq(STRING)]
    /\ \A n, k \in ShipNames : Ratio(n, k) \in 0..100 /\ Ratio(n, n) = 100
    /\ CALLSIGN_RUN_MIN_LEN \in Nat /\ CALLSIGN_RUN_MIN_LEN >= 3

VARIABLES
    pc,
    heard,      \* the transmission being identified
    journal,    \* the window: [text, corrected, mmsi, callsign] of each turn
    offered,    \* the candidates, copied: ship to [name, via]
    rows,       \* the exchanges: [ids, name, mmsi, callsigned, contested]
    todo,       \* the exchanges not yet corrected
    fixes,      \* corrections: turn to [edited, of], of = the exchange asked about
    stored      \* the rows stored, with their suggestions
vars == <<fleetVars, pc, heard, journal, offered, rows, todo, fixes, stored>>

Turns == DOMAIN journal
Text(i) == journal[i].text

IdentifyInit ==
    /\ fleet = [m \in {r.mmsi : r \in Known} |->
                   LET r == CHOOSE r \in Known : r.mmsi = m
                   IN  [name |-> r.name, callsign |-> r.callsign, recent |-> TRUE]]
    /\ view = [n \in {r.name : r \in Known} |-> Nearest({r.mmsi : r \in {k \in Known : k.name = n}})]
    /\ callsigns = [c \in {r.callsign : r \in Known} \ {None} |->
                       (CHOOSE r \in Known : r.callsign = c).mmsi]
    /\ reports = 0
    /\ pc = "listening" /\ heard = <<>> /\ journal = <<>>
    /\ offered = <<>> /\ rows = {} /\ todo = {} /\ fixes = <<>> /\ stored = {}
-----------------------------------------------------------------------------
(* One transmission (extract_vessel, enrich_with_ais, _record_chunk).          *)

(* Stock phrases and echoes of the prompt are never identified nor journalled. *)
Hear(t) ==
    /\ pc = "listening" /\ Len(journal) < MaxTurns
    /\ ~IsHallucination(t) /\ ~IsPromptEcho(t)
    /\ pc' = "extracting" /\ heard' = t
    /\ UNCHANGED <<fleetVars, journal, offered, rows, todo, fixes, stored>>

(* What the model says of it, or an answer that does not parse.                *)
Answers(t) ==
    [vessel : Named \union {Placeholder, None}, callsign : Claimed \union {Placeholder, None},
     text : {t, None}]

Meant(x) == IF x = Placeholder THEN None ELSE x

ExtractVessel(a, t) ==
    [vessel   |-> Meant(a.vessel),
     callsign |-> IF Supported(Meant(a.callsign), t) THEN a.callsign ELSE None,
     text     |-> IF a.text = None THEN t ELSE Corrected(a.text)]

Unparsed(t) == [vessel |-> None, callsign |-> None, text |-> Corrected(t)]

(* A callsign that was read out outranks the name; AIS supplies one only when  *)
(* none was spoken.                                                            *)
EnrichWithAis(r, t) ==
    LET byCallsign == MatchByCallsign(r.callsign)
        ship == IF byCallsign # Nobody THEN byCallsign ELSE MatchByName(r.vessel)
    IN  [text |-> t, corrected |-> r.text, mmsi |-> ship,
         callsign |-> IF r.callsign = None /\ ship # Nobody THEN fleet[ship].callsign
                      ELSE r.callsign]

Extracts(r) ==
    /\ pc = "extracting"
    /\ journal' = Append(journal, EnrichWithAis(r, heard))
    /\ pc' = "listening" /\ heard' = <<>>
    /\ UNCHANGED <<fleetVars, offered, rows, todo, fixes, stored>>
-----------------------------------------------------------------------------
(* The candidates (_resolver_candidates), strongest evidence first.            *)

Long(run) == Len(run) >= CALLSIGN_RUN_MIN_LEN /\ ~AllDigits(run)

SpokenCallsigns ==
    {MatchByCallsign(run) : run \in {run \in UNION {SpelledOutRuns(Text(i)) : i \in Turns} : Long(run)}}

(* A mutant: what was journalled is taken for what was said.                   *)
JournalledUnread == {MatchByCallsign(journal[i].callsign) : i \in Turns}

(* What the journal holds counts only where the transmission says it.          *)
JournalledCallsigns ==
    {MatchByCallsign(journal[i].callsign) : i \in {i \in Turns : Supported(journal[i].callsign, Text(i))}}

LiveMatches ==
    {m \in {journal[i].mmsi : i \in Turns} \ {Nobody} : m \in DOMAIN fleet /\ fleet[m].recent}

Hints == UNION {FindAisHints(Text(i)) : i \in Turns}

NameCorroborates(m) ==
    \E i \in Turns : \E p \in HintProbes(Text(i)) :
        Ratio(p, fleet[m].name) >= PARTIAL_CALLSIGN_MIN_NAME_SCORE

Tails(t) ==
    PhoneticProbes(t) \union {run \in SpelledOutRuns(t) : Long(run) /\ MatchByCallsign(run) = Nobody}

PartialCallsigns ==
    {m \in UNION {{MatchByPattern(p) : p \in PartialPattern(Text(i))}
                  \union {MatchBySuffix(run) : run \in Tails(Text(i))} : i \in Turns} \ {Nobody} :
        NameCorroborates(m)}

(* A ship is marked by the first kind of evidence that offers it, 1 to 4.      *)
ByCallsign == 1

ResolverCandidates ==
    LET exact == (SpokenCallsigns \union JournalledCallsigns) \ {Nobody}
        ships == <<exact, LiveMatches, Hints, PartialCallsigns>>
        First(m) == CHOOSE k \in 1..4 : m \in ships[k] /\ \A j \in 1..(k - 1) : m \notin ships[j]
    IN  [m \in UNION {ships[k] : k \in 1..4} |-> [name |-> fleet[m].name, via |-> First(m)]]

Ask ==
    /\ pc = "listening" /\ journal # <<>>
    /\ offered' = ResolverCandidates
    /\ pc' = "resolving"
    /\ UNCHANGED <<fleetVars, heard, journal, rows, todo, fixes, stored>>
-----------------------------------------------------------------------------
(* The answer (resolve_conversation, _validate_exchanges).                     *)

(* by_name is filled in the order of the list: of two ships of one name, the   *)
(* one offered last, on the weakest evidence, is the one the name stands for;  *)
(* the order within one kind of evidence is left open.                         *)
ByName(n) ==
    LET same == {m \in DOMAIN offered : offered[m].name = n}
    IN  {m \in same : \A k \in same : offered[k].via <= offered[m].via}

Row(ids, m) ==
    LET n == IF m = Nobody THEN None ELSE offered[m].name
        found == MatchByNameCandidates(n)
    IN  [ids |-> ids, name |-> n, mmsi |-> m,
         callsigned |-> m # Nobody /\ offered[m].via = ByCallsign,
         contested |-> IF Cardinality(found) > 1 THEN found ELSE {}]

(* Turns grouped as the resolver likes, each group given a name on the list or *)
(* nobody (no name, or one off it); the turns it leaves out are one row more.  *)
Grouped(groups, who) ==
    LET missing == Turns \ UNION groups
    IN  {Row(g, who[g]) : g \in groups} \union (IF missing = {} THEN {} ELSE {Row(missing, Nobody)})

Resolves ==
    /\ pc = "resolving"
    /\ \E groups \in SUBSET (SUBSET Turns \ {{}}) :
          /\ \A g, h \in groups : g = h \/ g \intersect h = {}
          /\ \E who \in [groups -> {Nobody} \union UNION {ByName(offered[m].name) : m \in DOMAIN offered}] :
                rows' = Grouped(groups, who)
    /\ todo' = rows' /\ pc' = "correcting"
    /\ UNCHANGED <<fleetVars, heard, journal, offered, fixes, stored>>

(* The call fails: one row, nobody named.                                      *)
Unresolved ==
    /\ pc = "resolving"
    /\ rows' = {Row(Turns, Nobody)} /\ todo' = rows' /\ pc' = "correcting"
    /\ UNCHANGED <<fleetVars, heard, journal, offered, fixes, stored>>
-----------------------------------------------------------------------------
(* The correction of one exchange (correct_conversation, validate_reply).      *)

(* What a reply does with a turn; a flawed entry is malformed, there twice, or  *)
(* declares other than what it did, and so is one for a turn that is not there. *)
NoTurn == 0
Replies ==
    UNION {[I -> {"kept", "edited", "flawed"}] : I \in SUBSET Turns}
    \union {[i \in I \union {NoTurn} |-> "flawed"] : I \in SUBSET Turns}

(* A mutant: the turns that are in order are used.                             *)
ValidInPart(reply, row) ==
    {i \in DOMAIN reply \intersect Turns : reply[i] \in {"kept", "edited"}}

(* All of it or none.                                                          *)
Valid(reply, row) ==
    IF DOMAIN reply = row.ids /\ \A i \in row.ids : reply[i] \in {"kept", "edited"}
    THEN row.ids ELSE {}

(* The exchanges in the order of their first turns.                            *)
Correct(row, reply) ==
    /\ pc = "correcting"
    /\ \A r \in todo : (CHOOSE i \in row.ids : \A j \in row.ids : i <= j) <=
                         (CHOOSE i \in r.ids : \A j \in r.ids : i <= j)
    /\ LET used == Valid(reply, row)
       IN  fixes' = [i \in DOMAIN fixes \union used |->
                        IF i \in used THEN [edited |-> reply[i] = "edited", of |-> row.ids]
                        ELSE fixes[i]]
    /\ todo' = todo \ {row}
    /\ UNCHANGED <<fleetVars, pc, heard, journal, offered, rows, stored>>

(* Storing (_store_resolved, _attach_suggestions).                             *)
Shown(i) ==
    IF i \in DOMAIN fixes /\ fixes[i].edited THEN Edited(journal[i].corrected)
    ELSE journal[i].corrected

RowText(row) == FlattenSeq([i \in Turns |-> IF i \in row.ids THEN Shown(i) ELSE <<>>])

(* _boilerplate_filter: what most conversations say names no ship.             *)
Votes == [i \in DOMAIN Corpus |-> HintProbes(Corpus[i])]

Probes(row) ==
    {p \in HintProbes(RowText(row)) :
        Cardinality({i \in DOMAIN Votes : p \in Votes[i]}) * 100 <= SUGGEST_DF_MAX * Len(Corpus)}

Suggested(row) ==
    LET probes == Probes(row)
        more == IF row.mmsi = Nobody THEN SUGGEST_N ELSE SUGGEST_N + 1
    IN  Closest(probes, SuggestVessels(probes, more) \ {row.mmsi}, SUGGEST_N)

Store ==
    /\ pc = "correcting" /\ todo = {}
    /\ stored' = {[row |-> r,
                   near |-> IF Len(Corpus) < SUGGEST_MIN_DOCS THEN {} ELSE Suggested(r),
                   turns |-> [i \in r.ids |-> i \in DOMAIN fixes /\ fixes[i].edited]] : r \in rows}
    /\ pc' = "stored"
    /\ UNCHANGED <<fleetVars, heard, journal, offered, rows, todo, fixes>>

(* The feed moves the cache while a model is being asked.                      *)
Feed ==
    /\ pc \in {"extracting", "resolving"} /\ FeedMoves
    /\ UNCHANGED <<pc, heard, journal, offered, rows, todo, fixes, stored>>

IdentifyNext ==
    \/ \E t \in Speech : Hear(t)
    \/ \E a \in Answers(heard) : Extracts(ExtractVessel(a, heard))
    \/ Extracts(Unparsed(heard))
    \/ Ask \/ Resolves \/ Unresolved
    \/ \E row \in todo, reply \in Replies : Correct(row, reply)
    \/ Store \/ Feed

IdentifySpec == IdentifyInit /\ [][IdentifyNext]_vars
-----------------------------------------------------------------------------
(* An exact callsign is evidence because somebody said it: a ship is offered   *)
(* as one that spelled its callsign out exactly when one of the window's       *)
(* transmissions says a callsign the cache knows it by -- also when the live   *)
(* match was wrong, and when AIS filled in a callsign nobody spoke             *)
(* (_resolver_candidates, enrich_with_ais).                                    *)
CallsignEvidence ==
    [][pc' = "resolving" /\ pc = "listening" =>
         \A m \in DOMAIN fleet :
            LET Is(c) == c \in DOMAIN callsigns /\ callsigns[c] = m
            IN  /\ m \in DOMAIN offered' /\ offered'[m].via = ByCallsign =>
                      \E i \in Turns : \E c \in DOMAIN callsigns : Is(c) /\ Supported(c, Text(i))
                /\ (\E i \in Turns : \E run \in SpelledOutRuns(Text(i)) :
                       Len(run) >= CALLSIGN_RUN_MIN_LEN /\ ~AllDigits(run) /\ Is(run)) =>
                      m \in DOMAIN offered' /\ offered'[m].via = ByCallsign]_vars

(* A name two ships carry is shown to be one: the row that names either lists  *)
(* both, by the cache of the moment the answer is read (_validate_exchanges).  *)
SharedNameShown ==
    [][pc = "resolving" /\ pc' = "correcting" =>
         \A r \in rows' :
            r.mmsi # Nobody /\ fleet[r.mmsi].name = r.name /\ Cardinality(Holders(r.name)) > 1
              => Holders(r.name) \subseteq r.contested]_vars

(* One conversation's context never edits another's words, and no conversation *)
(* is corrected in part: a turn's correction comes from the call about its own *)
(* exchange, which settled every turn of it (_resolve_window, validate_reply). *)
CorrectedInOwnExchange ==
    \A r \in rows : /\ \A i \in r.ids \intersect DOMAIN fixes : fixes[i].of = r.ids
                    /\ r.ids \subseteq DOMAIN fixes \/ r.ids \intersect DOMAIN fixes = {}

(* What the resolver is told of a callsign match ("trust it above any name     *)
(* similarity") and the candidate list of its weakest entries ("never          *)
(* displaces a stronger match"), of the row that comes out: where a ship of    *)
(* the name spelled its callsign out, the name stands for that ship.           *)
CallsignShipWins ==
    \A r \in rows :
        (\E m \in DOMAIN offered : offered[m].name = r.name /\ offered[m].via = ByCallsign) => r.callsigned
=============================================================================
