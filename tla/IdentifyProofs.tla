----------------------------- MODULE IdentifyProofs -----------------------------
(***************************************************************************)
(* Who is speaking.  Identify.tla for any ships, any texts and any answers of *)
(* the models; FlightIdentify.tla for any tables, texts and traffic.           *)
(* Labels.tla: the operator's verdicts on that, for any records and any texts. *)
(***************************************************************************)
EXTENDS Identify, FlightIdentify, Labels, LeastElement, FiniteSetTheorems, SequenceTheorems

(***************************************************************************)
(* One conversation's context never edits another's words.                   *)
(***************************************************************************)
(* Exchanges share no turn, and one that waits has no correction yet.          *)
Apart(R) == \A r, s \in R : r = s \/ r.ids \intersect s.ids = {}

Settling ==
    /\ pc \in {"listening", "extracting", "resolving"} => rows = {} /\ todo = {} /\ fixes = <<>>
    /\ todo \subseteq rows /\ Apart(rows)
    /\ \A r \in todo : r.ids \intersect DOMAIN fixes = {}
    /\ CorrectedInOwnExchange

LEMMA RowIds ==
    ASSUME NEW ids, NEW m
    PROVE  Row(ids, m).ids = ids
BY DEF Row

(* Turns the resolver grouped, and one row for those it left out.              *)
LEMMA GroupedApart ==
    ASSUME NEW groups, NEW who, \A g, h \in groups : g = h \/ g \intersect h = {}
    PROVE  Apart(Grouped(groups, who))
<1> DEFINE missing == Turns \ UNION groups
           all == {Row(g, who[g]) : g \in groups}
           rest == IF missing = {} THEN {} ELSE {Row(missing, Nobody)}
<1>1. Grouped(groups, who) = all \union rest
  BY DEF Grouped
<1>2. \A r \in all : \E g \in groups : r = Row(g, who[g]) /\ r.ids = g
  BY RowIds
<1>3. \A r \in rest : r = Row(missing, Nobody) /\ r.ids = missing
  BY RowIds
<1>4. \A g \in groups : g \intersect missing = {}
  OBVIOUS
<1> HIDE DEF missing, all, rest
<1>5. ASSUME NEW r \in all \union rest, NEW s \in all \union rest
      PROVE  r = s \/ r.ids \intersect s.ids = {}
  <2>1. CASE r \in all /\ s \in all
    BY <1>2, <2>1
  <2>2. CASE r \in all /\ s \in rest
    BY <1>2, <1>3, <1>4, <2>2
  <2>3. CASE r \in rest /\ s \in all
    BY <1>2, <1>3, <1>4, <2>3
  <2>4. CASE r \in rest /\ s \in rest
    BY <1>3, <2>4
  <2> QED BY <2>1, <2>2, <2>3, <2>4
<1> QED BY <1>1, <1>5 DEF Apart

(* An answer to the call about one exchange settles all of it or nothing.       *)
LEMMA CorrectStep ==
    ASSUME Settling, NEW row \in todo, NEW reply, Correct(row, reply)
    PROVE  Settling'
<1> DEFINE used == Valid(reply, row)
<1>1. used = row.ids \/ used = {}
  BY DEF Valid
<1>2. /\ pc = "correcting" /\ pc' = pc /\ rows' = rows /\ todo' = todo \ {row}
      /\ DOMAIN fixes' = DOMAIN fixes \union used
      /\ \A i \in used : fixes'[i].of = row.ids
      /\ \A i \in DOMAIN fixes \ used : fixes'[i] = fixes[i]
  BY DEF Correct
<1> HIDE DEF used
<1>3. row \in rows /\ row.ids \intersect DOMAIN fixes = {}
  BY DEF Settling
<1>4. ASSUME NEW r \in rows, r # row
      PROVE  r.ids \intersect used = {}
  BY <1>1, <1>3, <1>4 DEF Settling, Apart
<1>5. \A r \in todo' : r.ids \intersect DOMAIN fixes' = {}
  BY <1>2, <1>4 DEF Settling
<1>6. ASSUME NEW r \in rows
      PROVE  /\ \A i \in r.ids \intersect DOMAIN fixes' : fixes'[i].of = r.ids
             /\ r.ids \subseteq DOMAIN fixes' \/ r.ids \intersect DOMAIN fixes' = {}
  <2>1. CASE r = row
    BY <1>1, <1>2, <1>3, <2>1
  <2>2. CASE r # row
    <3>1. r.ids \intersect used = {}
      BY <1>4, <2>2
    <3> QED BY <1>2, <3>1 DEF Settling, CorrectedInOwnExchange
  <2> QED BY <2>1, <2>2
<1> QED BY <1>2, <1>5, <1>6 DEF Settling, CorrectedInOwnExchange

LEMMA FreshRows ==
    ASSUME Settling, pc = "resolving", pc' = "correcting", Apart(rows'), todo' = rows',
           fixes' = fixes
    PROVE  Settling'
<1>1. fixes = <<>> /\ DOMAIN fixes = {}
  BY DEF Settling
<1> QED BY <1>1 DEF Settling, CorrectedInOwnExchange

LEMMA SettlingStep ==
    ASSUME Settling, [IdentifyNext]_vars
    PROVE  Settling'
<1>1. ASSUME pc \in {"listening", "extracting", "resolving"},
             pc' \in {"listening", "extracting", "resolving"},
             UNCHANGED <<rows, todo, fixes>>
      PROVE  Settling'
  BY <1>1 DEF Settling, Apart, CorrectedInOwnExchange
<1>2. CASE \E t \in Speech : Hear(t)
  BY <1>1, <1>2 DEF Hear
<1>3. CASE \E r : Extracts(r)
  BY <1>1, <1>3 DEF Extracts
<1>4. CASE Ask
  BY <1>1, <1>4 DEF Ask
<1>5. CASE Resolves
  <2>1. PICK groups, who : /\ \A g, h \in groups : g = h \/ g \intersect h = {}
                           /\ rows' = Grouped(groups, who)
    BY <1>5 DEF Resolves
  <2>2. pc = "resolving" /\ pc' = "correcting" /\ todo' = rows' /\ fixes' = fixes
    BY <1>5 DEF Resolves
  <2> QED BY <2>1, <2>2, GroupedApart, FreshRows
<1>6. CASE Unresolved
  <2>1. /\ pc = "resolving" /\ pc' = "correcting" /\ todo' = rows' /\ fixes' = fixes
        /\ rows' = {Row(Turns, Nobody)}
    BY <1>6 DEF Unresolved
  <2> QED BY <2>1, FreshRows DEF Apart
<1>7. CASE \E row \in todo, reply \in Replies : Correct(row, reply)
  BY <1>7, CorrectStep
<1>8. CASE Store
  BY <1>8 DEF Store, Settling, Apart, CorrectedInOwnExchange
<1>9. CASE Feed
  BY <1>1, <1>9 DEF Feed
<1>10. CASE UNCHANGED vars
  BY <1>10 DEF vars, Settling, Apart, CorrectedInOwnExchange
<1> QED BY <1>2, <1>3, <1>4, <1>5, <1>6, <1>7, <1>8, <1>9, <1>10 DEF IdentifyNext

(* A turn's correction comes from the call about its own exchange, which settled *)
(* every turn of it or none, however the resolver grouped them and whatever the  *)
(* replies were.                                                               *)
THEOREM EachCorrectedAlone == IdentifySpec => []CorrectedInOwnExchange
<1>1. IdentifyInit => Settling
  BY DEF IdentifyInit, Settling, Apart, CorrectedInOwnExchange
<1>2. Settling => CorrectedInOwnExchange
  BY DEF Settling
<1> QED BY <1>1, <1>2, SettlingStep, PTL DEF IdentifySpec
-----------------------------------------------------------------------------
(***************************************************************************)
(* The cache, while the feed moves it.                                       *)
(***************************************************************************)
Entry == [name : ShipNames, callsign : Seq(STRING), recent : BOOLEAN]

(* Every ship can be found under its name; what is a key has the shape of one.  *)
Indexed ==
    /\ DOMAIN fleet \subseteq Mmsi /\ fleet \in [DOMAIN fleet -> Entry]
    /\ DOMAIN view \subseteq ShipNames
    /\ \A m \in DOMAIN fleet : fleet[m].name \in DOMAIN view
    /\ DOMAIN callsigns \subseteq Seq(STRING)

LEMMA RowsOfTheFeed ==
    /\ \A r \in Known \union Report :
          r.mmsi \in Mmsi /\ r.name \in ShipNames /\ r.callsign \in Seq(STRING)
    /\ ShipNames \subseteq Seq(STRING) \ {None}
BY IdentifyAssumption, MatchAssumption DEF ShipNames

LEMMA IndexedInit == IdentifyInit => Indexed
<1> SUFFICES ASSUME IdentifyInit
             PROVE  Indexed
  OBVIOUS
<1> DEFINE of(m) == CHOOSE r \in Known : r.mmsi = m
<1>1. /\ fleet = [m \in {r.mmsi : r \in Known} |->
                     [name |-> of(m).name, callsign |-> of(m).callsign, recent |-> TRUE]]
      /\ DOMAIN view = {r.name : r \in Known}
      /\ DOMAIN callsigns = {r.callsign : r \in Known} \ {None}
  BY DEF IdentifyInit
<1>2. \A m \in {r.mmsi : r \in Known} : of(m) \in Known
  OBVIOUS
<1> HIDE DEF of
<1>3. /\ \A m \in DOMAIN fleet : fleet[m] \in Entry /\ fleet[m].name \in DOMAIN view
      /\ DOMAIN fleet \subseteq Mmsi
  BY <1>1, <1>2, RowsOfTheFeed DEF Entry
<1>4. fleet \in [DOMAIN fleet -> Entry]
  BY <1>1, <1>3
<1> QED BY <1>1, <1>3, <1>4, RowsOfTheFeed DEF Indexed

LEMMA FeedStep ==
    ASSUME Indexed, FeedMoves
    PROVE  Indexed'
<1>1. ASSUME NEW r \in Report, Reported(r)
      PROVE  Indexed'
  <2> DEFINE old == IF r.mmsi \in DOMAIN fleet THEN fleet[r.mmsi].callsign ELSE None
             e == [name |-> r.name, callsign |-> IF r.callsign = None THEN old ELSE r.callsign,
                   recent |-> TRUE]
  <2>1. /\ fleet' = Set(fleet, r.mmsi, e)
        /\ DOMAIN view' = DOMAIN view \union {r.name}
        /\ DOMAIN callsigns' \subseteq DOMAIN callsigns \union {e.callsign}
    BY <1>1 DEF Reported, Set
  <2>2. old \in Seq(STRING)
    <3>1. CASE r.mmsi \in DOMAIN fleet
      <4>1. fleet[r.mmsi] \in Entry
        BY <3>1 DEF Indexed
      <4> QED BY <3>1, <4>1 DEF Entry
    <3>2. CASE r.mmsi \notin DOMAIN fleet
      <4>1. <<>> \in Seq(STRING)
        OBVIOUS
      <4> QED BY <3>2, <4>1 DEF None
    <3> QED BY <3>1, <3>2
  <2>3. r.mmsi \in Mmsi /\ r.name \in ShipNames /\ r.callsign \in Seq(STRING)
    BY RowsOfTheFeed
  <2>4. e \in Entry /\ e.name = r.name /\ e.callsign \in Seq(STRING)
    BY <2>2, <2>3 DEF Entry
  <2> HIDE DEF e
  <2>5. /\ DOMAIN fleet' = DOMAIN fleet \union {r.mmsi}
        /\ fleet' \in [DOMAIN fleet' -> Entry]
        /\ \A m \in DOMAIN fleet' : fleet'[m] = IF m = r.mmsi THEN e ELSE fleet[m]
    BY <2>1, <2>4 DEF Set, Indexed
  <2> QED BY <2>1, <2>3, <2>4, <2>5 DEF Indexed
<1>2. ASSUME NEW m \in DOMAIN fleet, FallsSilent(m)
      PROVE  Indexed'
  <2>1. fleet' = [fleet EXCEPT ![m].recent = FALSE] /\ view' = view /\ callsigns' = callsigns
    BY <1>2 DEF FallsSilent
  <2>2. /\ fleet' \in [DOMAIN fleet -> Entry] /\ DOMAIN fleet' = DOMAIN fleet
        /\ \A k \in DOMAIN fleet : fleet'[k].name = fleet[k].name
    BY <2>1 DEF Indexed, Entry
  <2> QED BY <2>1, <2>2 DEF Indexed
<1> QED BY <1>1, <1>2 DEF FeedMoves

LEMMA IndexedStep ==
    ASSUME Indexed, [IdentifyNext]_vars
    PROVE  Indexed'
<1>1. CASE Feed
  BY <1>1, FeedStep DEF Feed
<1>2. CASE UNCHANGED fleetVars
  BY <1>2 DEF fleetVars, Indexed
<1>3. (\E r : Extracts(r)) => UNCHANGED fleetVars
  BY DEF Extracts
<1>4. (\E row \in todo, reply \in Replies : Correct(row, reply)) => UNCHANGED fleetVars
  BY DEF Correct
<1>5. (\E t \in Speech : Hear(t)) \/ Ask \/ Resolves \/ Unresolved \/ Store => UNCHANGED fleetVars
  BY DEF Hear, Ask, Resolves, Unresolved, Store
<1>6. UNCHANGED vars => UNCHANGED fleetVars
  BY DEF vars
<1> QED BY <1>1, <1>2, <1>3, <1>4, <1>5, <1>6 DEF IdentifyNext

(***************************************************************************)
(* What is offered as an exact callsign.                                     *)
(***************************************************************************)
LEMMA SpokenIsSupported ==
    ASSUME NEW t, NEW run \in SpelledOutRuns(t), run \in Seq(STRING), Len(run) >= 3
    PROVE  Supported(run, t)
<1>1. SubSeq(run, 0 + 1, 0 + Len(run)) = run
  OBVIOUS
<1>2. 0 \in 0..(Len(run) - Len(run))
  OBVIOUS
<1>3. Within(run, run)
  BY <1>1, <1>2 DEF Within
<1> QED BY <1>3 DEF Supported

Exact == (SpokenCallsigns \union JournalledCallsigns) \ {Nobody}

(* The strongest evidence marks a ship, and no other evidence marks it so.     *)
LEMMA MarkedByCallsign ==
    ASSUME NEW m
    PROVE  /\ m \in Exact => m \in DOMAIN ResolverCandidates /\ ResolverCandidates[m].via = ByCallsign
           /\ m \in DOMAIN ResolverCandidates /\ ResolverCandidates[m].via = ByCallsign => m \in Exact
<1> DEFINE ships == <<Exact, LiveMatches, Hints, PartialCallsigns>>
           Is(k) == m \in ships[k] /\ \A j \in 1..(k - 1) : m \notin ships[j]
           first == CHOOSE k \in 1..4 : Is(k)
           all == UNION {ships[k] : k \in 1..4}
<1>1. /\ DOMAIN ResolverCandidates = all
      /\ m \in all => ResolverCandidates[m].via = first
  BY DEF ResolverCandidates, Exact
<1>2. ships[1] = Exact
  OBVIOUS
<1> HIDE DEF ships
<1>3. ASSUME m \in Exact
      PROVE  m \in all /\ first = 1
  <2>1. Is(1)
    BY <1>2, <1>3
  <2>2. \A k \in 1..4 : Is(k) => k = 1
    <3> SUFFICES ASSUME NEW k \in 1..4, Is(k), k # 1
                 PROVE  FALSE
      OBVIOUS
    <3>1. 1 \in 1..(k - 1)
      OBVIOUS
    <3> QED BY <1>2, <1>3, <3>1
  <2>3. m \in all
    BY <1>2, <1>3
  <2> HIDE DEF Is
  <2> QED BY <2>1, <2>2, <2>3
<1>4. ASSUME m \in all, first = 1
      PROVE  m \in Exact
  <2> DEFINE K == {k \in 1..4 : m \in ships[k]}
  <2>1. K \in SUBSET Nat /\ K # {}
    BY <1>4
  <2>2. PICK k \in K : \A j \in K : k <= j
    <3> HIDE DEF K
    <3> QED BY <2>1, LeastNat
  <2>3. Is(k)
    BY <2>2
  <2>4. Is(first)
    <3> HIDE DEF Is
    <3> QED BY <2>2, <2>3
  <2> QED BY <1>2, <1>4, <2>4
<1> HIDE DEF first, all
<1> QED BY <1>1, <1>3, <1>4 DEF ByCallsign

LEMMA ExactIs ==
    ASSUME Indexed, NEW m \in DOMAIN fleet
    PROVE  LET Is(c) == c \in DOMAIN callsigns /\ callsigns[c] = m
           IN  /\ m \in Exact => \E i \in Turns : \E c \in DOMAIN callsigns : Is(c) /\ Supported(c, Text(i))
               /\ (\E i \in Turns : \E run \in SpelledOutRuns(Text(i)) :
                      Len(run) >= CALLSIGN_RUN_MIN_LEN /\ ~AllDigits(run) /\ Is(run)) => m \in Exact
<1> DEFINE Is(c) == c \in DOMAIN callsigns /\ callsigns[c] = m
<1>1. m # Nobody
  BY MatchAssumption DEF Indexed
<1>2. \A c : MatchByCallsign(c) = m <=> Is(c)
  BY <1>1 DEF MatchByCallsign
<1>3. ASSUME m \in SpokenCallsigns
      PROVE  \E i \in Turns : \E c \in DOMAIN callsigns : Is(c) /\ Supported(c, Text(i))
  <2>1. PICK i \in Turns : \E run \in SpelledOutRuns(Text(i)) : Long(run) /\ MatchByCallsign(run) = m
    BY <1>3 DEF SpokenCallsigns
  <2>2. PICK run \in SpelledOutRuns(Text(i)) : Long(run) /\ MatchByCallsign(run) = m
    BY <2>1
  <2>3. Is(run) /\ run \in Seq(STRING)
    BY <1>2, <2>2 DEF Indexed
  <2>4. Len(run) >= 3
    BY <2>2, <2>3, IdentifyAssumption DEF Long
  <2>5. Supported(run, Text(i))
    BY <2>3, <2>4, SpokenIsSupported
  <2> QED BY <2>3, <2>5
<1>4. ASSUME m \in JournalledCallsigns
      PROVE  \E i \in Turns : \E c \in DOMAIN callsigns : Is(c) /\ Supported(c, Text(i))
  <2>1. PICK i \in Turns : /\ Supported(journal[i].callsign, Text(i))
                           /\ MatchByCallsign(journal[i].callsign) = m
    BY <1>4 DEF JournalledCallsigns
  <2> QED BY <1>2, <2>1
<1>5. ASSUME NEW i \in Turns, NEW run \in SpelledOutRuns(Text(i)),
             Len(run) >= CALLSIGN_RUN_MIN_LEN, ~AllDigits(run), Is(run)
      PROVE  m \in SpokenCallsigns
  <2>1. Long(run) /\ MatchByCallsign(run) = m
    BY <1>2, <1>5 DEF Long
  <2> QED BY <1>5, <2>1 DEF SpokenCallsigns
<1>6. m \in Exact <=> m \in SpokenCallsigns \/ m \in JournalledCallsigns
  BY <1>1 DEF Exact
<1> HIDE DEF Is
<1>7. m \in Exact => \E i \in Turns : \E c \in DOMAIN callsigns : Is(c) /\ Supported(c, Text(i))
  BY <1>3, <1>4, <1>6
<1>8. (\E i \in Turns : \E run \in SpelledOutRuns(Text(i)) :
          Len(run) >= CALLSIGN_RUN_MIN_LEN /\ ~AllDigits(run) /\ Is(run)) => m \in Exact
  BY <1>5, <1>6
<1> QED BY <1>7, <1>8 DEF Is

(* What CallsignEvidence says of one step.                                     *)
EvidenceStep ==
    pc' = "resolving" /\ pc = "listening" =>
        \A m \in DOMAIN fleet :
            LET Is(c) == c \in DOMAIN callsigns /\ callsigns[c] = m
            IN  /\ m \in DOMAIN offered' /\ offered'[m].via = ByCallsign =>
                      \E i \in Turns : \E c \in DOMAIN callsigns : Is(c) /\ Supported(c, Text(i))
                /\ (\E i \in Turns : \E run \in SpelledOutRuns(Text(i)) :
                       Len(run) >= CALLSIGN_RUN_MIN_LEN /\ ~AllDigits(run) /\ Is(run)) =>
                      m \in DOMAIN offered' /\ offered'[m].via = ByCallsign

LEMMA AskIsTheStep ==
    ASSUME [IdentifyNext]_vars, pc' = "resolving", pc = "listening"
    PROVE  offered' = ResolverCandidates
<1>1. (\E t \in Speech : Hear(t)) => pc' = "extracting"
  BY DEF Hear
<1>2. (\E r : Extracts(r)) => pc = "extracting"
  BY DEF Extracts
<1>3. Resolves \/ Unresolved \/ Store \/ Feed => pc # "listening"
  BY DEF Resolves, Unresolved, Store, Feed
<1>4. (\E row \in todo, reply \in Replies : Correct(row, reply)) => pc = "correcting"
  BY DEF Correct
<1>5. UNCHANGED vars => pc' = pc
  BY DEF vars
<1>6. Ask => offered' = ResolverCandidates
  BY DEF Ask
<1> QED BY <1>1, <1>2, <1>3, <1>4, <1>5, <1>6 DEF IdentifyNext

(* A ship is offered as one that spelled its callsign out exactly when one of the  *)
(* window's transmissions says a callsign the cache knows it by, whatever was     *)
(* heard, journalled or reported.                                             *)
THEOREM CallsignsAreEvidence == IdentifySpec => CallsignEvidence
<1>1. ASSUME Indexed, [IdentifyNext]_vars
      PROVE  EvidenceStep
  <2>1. SUFFICES ASSUME pc' = "resolving", pc = "listening", NEW m \in DOMAIN fleet
                 PROVE  LET Is(c) == c \in DOMAIN callsigns /\ callsigns[c] = m
                        IN  /\ m \in DOMAIN offered' /\ offered'[m].via = ByCallsign =>
                                  \E i \in Turns : \E c \in DOMAIN callsigns : Is(c) /\ Supported(c, Text(i))
                            /\ (\E i \in Turns : \E run \in SpelledOutRuns(Text(i)) :
                                   Len(run) >= CALLSIGN_RUN_MIN_LEN /\ ~AllDigits(run) /\ Is(run)) =>
                                  m \in DOMAIN offered' /\ offered'[m].via = ByCallsign
    BY DEF EvidenceStep
  <2>2. offered' = ResolverCandidates
    BY <1>1, <2>1, AskIsTheStep
  <2>3. m \in Exact <=> m \in DOMAIN offered' /\ offered'[m].via = ByCallsign
    BY <2>2, MarkedByCallsign
  <2> QED BY <1>1, <2>3, ExactIs
<1> QED BY <1>1, IndexedInit, IndexedStep, PTL DEF IdentifySpec, CallsignEvidence, EvidenceStep

(***************************************************************************)
(* A name two ships carry.                                                   *)
(***************************************************************************)
LEMMA HoldersAreFound ==
    ASSUME Indexed, NEW n \in DOMAIN view
    PROVE  Holders(n) \subseteq MatchByNameCandidates(n)
<1> DEFINE near == {x \in ScoredNames(n) :
                      \A k \in ScoredNames(n) : Ratio(n, k) - Ratio(n, x) <= AIS_NAME_AMBIGUOUS_GAP}
<1>1. n \in ShipNames /\ n # None /\ DOMAIN view \subseteq ShipNames
  BY RowsOfTheFeed DEF Indexed
<1>2. Ratio(n, n) = 100
  BY <1>1, IdentifyAssumption
<1>3. n \in ScoredNames(n)
  BY <1>2, MatchAssumption DEF ScoredNames
<1>4. \A k \in ScoredNames(n) : Ratio(n, k) \in 0..100
  <2>1. ScoredNames(n) \subseteq DOMAIN view
    BY DEF ScoredNames
  <2> QED BY <1>1, <2>1, IdentifyAssumption
<1>5. ASSUME NEW k \in ScoredNames(n)
      PROVE  Ratio(n, k) - Ratio(n, n) <= AIS_NAME_AMBIGUOUS_GAP
  <2>1. Ratio(n, k) \in Int /\ Ratio(n, k) <= 100
    BY <1>4
  <2>2. AIS_NAME_AMBIGUOUS_GAP \in Nat
    BY MatchAssumption
  <2> QED BY ONLY <1>2, <2>1, <2>2
<1>6. n \in near
  BY <1>3, <1>5
<1>7. MatchByNameCandidates(n) = UNION {Holders(x) : x \in near}
  BY <1>1, <1>3 DEF MatchByNameCandidates
<1> HIDE DEF near
<1> QED BY <1>6, <1>7

(* What is found are ships of the cache, so there are finitely many.            *)
LEMMA FoundAreShips ==
    ASSUME Indexed, NEW n
    PROVE  IsFiniteSet(MatchByNameCandidates(n))
<1>1. MatchByNameCandidates(n) \subseteq DOMAIN fleet
  BY DEF MatchByNameCandidates, Holders
<1> QED BY <1>1, MatchAssumption, FS_Subset DEF Indexed

SharedStep ==
    pc = "resolving" /\ pc' = "correcting" =>
        \A r \in rows' :
            r.mmsi # Nobody /\ fleet[r.mmsi].name = r.name /\ Cardinality(Holders(r.name)) > 1
              => Holders(r.name) \subseteq r.contested

LEMMA RowShowsHolders ==
    ASSUME Indexed, NEW n, NEW found, found = MatchByNameCandidates(n), Cardinality(Holders(n)) > 1
    PROVE  Holders(n) \subseteq (IF Cardinality(found) > 1 THEN found ELSE {})
<1>1. PICK m \in Holders(n) : TRUE
  BY FS_EmptySet
<1>2. n \in DOMAIN view
  BY <1>1 DEF Holders, Indexed
<1>3. Holders(n) \subseteq found /\ IsFiniteSet(found)
  BY <1>2, HoldersAreFound, FoundAreShips
<1>4. Cardinality(Holders(n)) <= Cardinality(found)
  BY <1>3, FS_Subset
<1>5. Cardinality(Holders(n)) \in Nat /\ Cardinality(found) \in Nat
  BY <1>3, FS_Subset, FS_CardinalityType
<1> QED BY <1>3, <1>4, <1>5

LEMMA RowsAreRows ==
    ASSUME [IdentifyNext]_vars, pc = "resolving", pc' = "correcting", NEW r \in rows'
    PROVE  \E ids, m : r = Row(ids, m)
<1>1. CASE Resolves
  <2>1. PICK groups, who : rows' = Grouped(groups, who)
    BY <1>1 DEF Resolves
  <2> QED BY <2>1 DEF Grouped
<1>2. CASE Unresolved
  BY <1>2 DEF Unresolved
<1>3. (\E t \in Speech : Hear(t)) \/ Ask => pc = "listening"
  BY DEF Hear, Ask
<1>4. (\E x : Extracts(x)) => pc = "extracting"
  BY DEF Extracts
<1>5. (\E row \in todo, reply \in Replies : Correct(row, reply)) => pc = "correcting"
  BY DEF Correct
<1>6. Store => pc = "correcting"
  BY DEF Store
<1>7. Feed \/ UNCHANGED vars => pc' = pc
  BY DEF Feed, vars
<1> QED BY <1>1, <1>2, <1>3, <1>4, <1>5, <1>6, <1>7 DEF IdentifyNext

(* Whatever resembles what, and however close the next best name: the row that   *)
(* names one of several ships of a name lists every one the cache has.          *)
THEOREM SharedNamesAreShown == IdentifySpec => SharedNameShown
<1>1. ASSUME Indexed, [IdentifyNext]_vars
      PROVE  SharedStep
  <2>1. SUFFICES ASSUME pc = "resolving", pc' = "correcting", NEW r \in rows',
                        r.mmsi # Nobody, Cardinality(Holders(r.name)) > 1
                 PROVE  Holders(r.name) \subseteq r.contested
    BY DEF SharedStep
  <2>2. PICK ids, m : r = Row(ids, m)
    BY <1>1, <2>1, RowsAreRows
  <2>3. r.contested = IF Cardinality(MatchByNameCandidates(r.name)) > 1
                      THEN MatchByNameCandidates(r.name) ELSE {}
    BY <2>2 DEF Row
  <2> QED BY <1>1, <2>1, <2>3, RowShowsHolders
<1> QED BY <1>1, IndexedInit, IndexedStep, PTL DEF IdentifySpec, SharedNameShown, SharedStep
-----------------------------------------------------------------------------
(***************************************************************************)
(* Sequences flattened, and steps taken one after the other.                 *)
(***************************************************************************)
(* A function that starts with b and goes on by step.                           *)
Runs(f, n, Y, b, step) ==
    f \in [0..n -> Y] /\ f[0] = b /\ \A i \in 1..n : f[i] = step[i][f[i - 1]]

(* What is defined by its predecessor exists: the shortest prefix without would be *)
(* one step longer than a prefix with.                                         *)
LEMMA StepsExist ==
    ASSUME NEW n \in Nat, NEW Y, NEW b \in Y, NEW step \in [1..n -> [Y -> Y]]
    PROVE  \E f : Runs(f, n, Y, b, step)
<1> DEFINE Has(k) == \E f \in [0..k -> Y] : f[0] = b /\ \A i \in 1..k : f[i] = step[i][f[i - 1]]
           U == {k \in 0..n : ~Has(k)}
<1>1. SUFFICES ASSUME U # {}
               PROVE  FALSE
  <2>1. SUFFICES ASSUME U = {}
                 PROVE  Has(n)
    BY DEF Runs
  <2> HIDE DEF Has
  <2> QED BY <2>1
<1>2. PICK k \in U : \A j \in U : k <= j
  <2>1. U \in SUBSET Nat
    OBVIOUS
  <2> HIDE DEF U
  <2> QED BY <1>1, <2>1, LeastNat
<1>3. Has(0)
  <2> DEFINE f == [i \in 0..0 |-> b]
  <2>1. f \in [0..0 -> Y] /\ f[0] = b /\ \A i \in 1..0 : f[i] = step[i][f[i - 1]]
    OBVIOUS
  <2> QED BY <2>1
<1>4. k \in 1..n /\ k - 1 \in 0..n /\ k - 1 \notin U /\ ~Has(k)
  <2>1. k \in 0..n /\ ~Has(k)
    OBVIOUS
  <2>2. k # 0
    <3> HIDE DEF Has
    <3> QED BY <1>3, <2>1
  <2>3. k - 1 \notin U
    <3> HIDE DEF U
    <3> QED BY <1>2, <2>1, <2>2
  <2> HIDE DEF U, Has
  <2> QED BY <2>1, <2>2, <2>3
<1>5. Has(k - 1)
  <2> HIDE DEF Has
  <2> QED BY <1>4
<1>6. PICK f \in [0..(k - 1) -> Y] : f[0] = b /\ \A i \in 1..(k - 1) : f[i] = step[i][f[i - 1]]
  BY <1>5
<1> DEFINE g == [i \in 0..k |-> IF i = k THEN step[k][f[k - 1]] ELSE f[i]]
<1>7. step[k][f[k - 1]] \in Y
  <2>1. k - 1 \in 0..(k - 1) /\ k \in 1..n
    BY <1>4
  <2> QED BY <2>1
<1>8. g \in [0..k -> Y] /\ g[0] = b
  BY <1>4, <1>6, <1>7
<1>9. ASSUME NEW i \in 1..k
      PROVE  g[i] = step[i][g[i - 1]]
  <2>1. g[i - 1] = f[i - 1] /\ k \in Nat
    BY <1>4
  <2>2. CASE i = k
    BY <2>1, <2>2
  <2>3. CASE i # k
    BY <1>6, <2>1, <2>3
  <2> QED BY <2>2, <2>3
<1>10. Has(k)
  <2> HIDE DEF g
  <2> QED BY <1>8, <1>9
<1> QED BY <1>4, <1>10

(* And stays in the set it starts in: the first that did not would have a          *)
(* predecessor that did.                                                       *)
LEMMA StepsStay ==
    ASSUME NEW n \in Nat, NEW Y, NEW f, f[0] \in Y, \A i \in 1..n : f[i - 1] \in Y => f[i] \in Y
    PROVE  \A i \in 0..n : f[i] \in Y
<1> DEFINE U == {k \in 0..n : f[k] \notin Y}
<1>1. SUFFICES ASSUME U # {}
               PROVE  FALSE
  OBVIOUS
<1>2. PICK k \in U : \A j \in U : k <= j
  <2>1. U \in SUBSET Nat
    OBVIOUS
  <2> HIDE DEF U
  <2> QED BY <1>1, <2>1, LeastNat
<1>3. k \in 1..n /\ k - 1 \in 0..n /\ f[k] \notin Y
  OBVIOUS
<1>4. f[k - 1] \in Y
  BY <1>2, <1>3
<1> QED BY <1>3, <1>4

(* Sequences strung together: each prefix is the one before it and one part more. *)
Strung(f, X, s) ==
    /\ f \in [0..Len(s) -> Seq(X)] /\ f[0] = <<>> /\ f[Len(s)] = FlattenSeq(s)
    /\ \A i \in 1..Len(s) : f[i] = f[i - 1] \o s[i]

LEMMA FlattenSteps ==
    ASSUME NEW X, NEW s \in Seq(Seq(X))
    PROVE  \E f : Strung(f, X, s)
<1> DEFINE n == Len(s)
           Y == Seq(X)
           Defines(h) == h = [i \in 1..n |-> IF i = 1 THEN s[i] ELSE h[i - 1] \o s[i]]
           flatten == CHOOSE h : Defines(h)
<1>1. n \in Nat /\ \A i \in 1..n : s[i] \in Y
  OBVIOUS
<1>2. CASE n = 0
  <2>1. s = <<>> /\ FlattenSeq(s) = s
    BY <1>2 DEF FlattenSeq
  <2> DEFINE f == [i \in 0..0 |-> <<>>]
  <2>2. f \in [0..0 -> Seq(X)] /\ f[0] = <<>> /\ \A i \in 1..0 : f[i] = f[i - 1] \o s[i]
    OBVIOUS
  <2>3. Strung(f, X, s)
    BY <1>2, <2>1, <2>2 DEF Strung
  <2> QED BY <2>3
<1>3. CASE n # 0
  <2>1. FlattenSeq(s) = flatten[n]
    BY <1>3 DEF FlattenSeq
  <2> DEFINE step == [i \in 1..n |-> [y \in Y |-> IF i = 1 THEN s[i] ELSE y \o s[i]]]
  <2>2. step \in [1..n -> [Y -> Y]]
    <3>1. ASSUME NEW i \in 1..n, NEW y \in Y
          PROVE  (IF i = 1 THEN s[i] ELSE y \o s[i]) \in Y
      BY <1>1
    <3> HIDE DEF Y, n
    <3> QED BY <3>1
  <2>3. <<>> \in Y
    OBVIOUS
  <2>4. \A i \in 1..n, y \in Y : step[i][y] = IF i = 1 THEN s[i] ELSE y \o s[i]
    OBVIOUS
  <2> HIDE DEF step, Y, n
  <2>5. PICK f : Runs(f, n, Y, <<>>, step)
    <3>1. n \in Nat
      BY <1>1
    <3> QED BY ONLY <2>2, <2>3, <3>1, StepsExist
  <2>6. f \in [0..n -> Y] /\ \A i \in 1..n : f[i] = step[i][f[i - 1]]
    BY <2>5 DEF Runs
  <2>7. \A i \in 1..n : f[i] = IF i = 1 THEN s[i] ELSE f[i - 1] \o s[i]
    <3> SUFFICES ASSUME NEW i \in 1..n
                 PROVE  f[i] = IF i = 1 THEN s[i] ELSE f[i - 1] \o s[i]
      OBVIOUS
    <3>1. f[i - 1] \in Y
      <4>1. i - 1 \in 0..n
        BY <1>1
      <4> QED BY ONLY <2>6, <4>1
    <3> QED BY <2>4, <2>6, <3>1
  <2> DEFINE h == [i \in 1..n |-> f[i]]
  <2>8. \A i \in 1..n : h[i] = IF i = 1 THEN s[i] ELSE h[i - 1] \o s[i]
    <3> SUFFICES ASSUME NEW i \in 1..n
                 PROVE  h[i] = IF i = 1 THEN s[i] ELSE h[i - 1] \o s[i]
      OBVIOUS
    <3>1. CASE i = 1
      BY <2>7, <3>1
    <3>2. CASE i # 1
      <4>1. i - 1 \in 1..n
        BY <1>1, <3>2
      <4>2. h[i - 1] = f[i - 1] /\ h[i] = f[i]
        BY <4>1
      <4> QED BY <2>7, <3>2, <4>2
    <3> QED BY <3>1, <3>2
  <2>9. h = [i \in 1..n |-> h[i]]
    OBVIOUS
  <2> HIDE DEF h
  <2>10. Defines(h)
    BY <2>8, <2>9
  <2>11. Defines(flatten)
    <3> HIDE DEF Defines
    <3> QED BY <2>10
  <2> HIDE DEF flatten
  <2>12. \A i \in 1..n : flatten[i] = IF i = 1 THEN s[i] ELSE flatten[i - 1] \o s[i]
    BY <2>11
  <2> DEFINE e == [i \in 0..n |-> IF i = 0 THEN <<>> ELSE flatten[i]]
  <2>13. e[0] = <<>> /\ \A i \in 1..n : e[i] = flatten[i]
    BY <1>1
  <2>14. ASSUME NEW i \in 1..n, e[i - 1] \in Y
         PROVE  e[i] \in Y
    <3>1. CASE i = 1
      BY <1>1, <2>12, <2>13, <3>1
    <3>2. CASE i # 1
      <4>1. e[i - 1] = flatten[i - 1]
        BY <1>1, <2>13, <3>2
      <4>2. \A u, v \in Seq(X) : u \o v \in Seq(X)
        OBVIOUS
      <4>3. flatten[i - 1] \in Seq(X) /\ s[i] \in Seq(X)
        BY <1>1, <2>14, <4>1 DEF Y
      <4>4. flatten[i - 1] \o s[i] \in Y
        BY <4>2, <4>3 DEF Y
      <4> QED BY <2>12, <2>13, <3>2, <4>4
    <3> QED BY <3>1, <3>2
  <2> HIDE DEF e
  <2>15. \A i \in 0..n : e[i] \in Y
    BY <1>1, <2>3, <2>13, <2>14, StepsStay
  <2>16. e \in [0..n -> Y]
    <3>1. e = [i \in 0..n |-> e[i]]
      BY DEF e
    <3> QED BY ONLY <2>15, <3>1
  <2>17. \A i \in 1..n : e[i] = e[i - 1] \o s[i]
    <3> SUFFICES ASSUME NEW i \in 1..n
                 PROVE  e[i] = e[i - 1] \o s[i]
      OBVIOUS
    <3>1. CASE i = 1
      <4>1. <<>> \o s[i] = s[i]
        BY <1>1 DEF Y
      <4>2. e[i - 1] = <<>> /\ e[i] = flatten[i] /\ flatten[i] = s[i]
        BY ONLY <2>12, <2>13, <3>1
      <4> QED BY ONLY <4>1, <4>2
    <3>2. CASE i # 1
      <4>1. i - 1 \in 1..n
        BY ONLY <1>1, <3>2
      <4>2. e[i - 1] = flatten[i - 1] /\ e[i] = flatten[i] /\ flatten[i] = flatten[i - 1] \o s[i]
        BY ONLY <2>12, <2>13, <3>2, <4>1
      <4> QED BY ONLY <4>2
    <3> QED BY <3>1, <3>2
  <2>18. e[n] = FlattenSeq(s)
    BY <1>1, <1>3, <2>1, <2>13
  <2>19. Strung(e, X, s)
    BY <2>13, <2>16, <2>17, <2>18 DEF Strung, n, Y
  <2> QED BY <2>19
<1> QED BY <1>2, <1>3

(* Sequences of words strung together are a sequence of words.                 *)
LEMMA FlattenIsASequence ==
    ASSUME NEW X, NEW s \in Seq(Seq(X))
    PROVE  FlattenSeq(s) \in Seq(X)
<1>1. PICK f : Strung(f, X, s)
  BY FlattenSteps
<1>2. Len(s) \in 0..Len(s)
  OBVIOUS
<1> QED BY <1>1, <1>2 DEF Strung

(* A set that holds 0 and the successor of each of its members up to n.          *)
LEMMA AllReached ==
    ASSUME NEW n \in Nat, NEW S, 0 \in S, \A i \in 1..n : i - 1 \in S => i \in S
    PROVE  \A i \in 0..n : i \in S
<1> DEFINE f == [i \in 0..n |-> i]
<1>1. f[0] \in S /\ \A i \in 1..n : f[i - 1] \in S => f[i] \in S
  OBVIOUS
<1>2. \A i \in 0..n : f[i] \in S
  <2> HIDE DEF f
  <2> QED BY ONLY <1>1, StepsStay
<1> QED BY <1>2

(* Where the parts of a flattened sequence lie: part k after off[k - 1].          *)
Laid(off, t, s, n) ==
    /\ off \in [0..n -> Nat] /\ off[0] = 0
    /\ \A k \in 1..n : off[k] = off[k - 1] + Len(s[k])
    /\ Len(t) = off[n]
    /\ \A k \in 1..n : \A j \in 1..Len(s[k]) : t[off[k - 1] + j] = s[k][j]

LEMMA OffsetsExist ==
    ASSUME NEW n \in Nat, NEW len, \A k \in 1..n : len[k] \in Nat
    PROVE  \E off \in [0..n -> Nat] : off[0] = 0 /\ \A k \in 1..n : off[k] = off[k - 1] + len[k]
<1> DEFINE step == [i \in 1..n |-> [y \in Nat |-> y + len[i]]]
<1>1. step \in [1..n -> [Nat -> Nat]] /\ 0 \in Nat
  OBVIOUS
<1>2. \A i \in 1..n, y \in Nat : step[i][y] = y + len[i]
  OBVIOUS
<1> HIDE DEF step
<1>3. PICK f : Runs(f, n, Nat, 0, step)
  BY ONLY <1>1, StepsExist
<1>4. f \in [0..n -> Nat] /\ f[0] = 0 /\ \A i \in 1..n : f[i] = step[i][f[i - 1]]
  BY <1>3 DEF Runs
<1>5. \A i \in 1..n : f[i] = f[i - 1] + len[i]
  <2> SUFFICES ASSUME NEW i \in 1..n
               PROVE  f[i] = f[i - 1] + len[i]
    OBVIOUS
  <2>1. f[i - 1] \in Nat
    BY <1>4
  <2> QED BY <1>2, <1>4, <2>1
<1> QED BY <1>4, <1>5

(* Offsets never shrink.                                                       *)
LEMMA OffsetsGrow ==
    ASSUME NEW n \in Nat, NEW off \in [0..n -> Nat], \A k \in 1..n : off[k - 1] <= off[k]
    PROVE  \A i, k \in 0..n : i <= k => off[i] <= off[k]
<1> SUFFICES ASSUME NEW i \in 0..n
             PROVE  \A k \in 0..n : i <= k => off[i] <= off[k]
  OBVIOUS
<1> DEFINE S == {k \in 0..n : i <= k => off[i] <= off[k]}
<1>1. 0 \in S
  OBVIOUS
<1>2. ASSUME NEW k \in 1..n, k - 1 \in S
      PROVE  k \in S
  <2>1. off[k] \in Nat /\ off[k - 1] \in Nat /\ off[i] \in Nat /\ off[k - 1] <= off[k]
    OBVIOUS
  <2>2. CASE i = k
    BY <2>1, <2>2
  <2>3. CASE i # k
    BY <1>2, <2>1, <2>3
  <2> QED BY <2>2, <2>3
<1> HIDE DEF S
<1>3. \A k \in 0..n : k \in S
  BY ONLY <1>1, <1>2, AllReached
<1> QED BY <1>3 DEF S

(* A place in a growing row of offsets lies between two neighbours.               *)
LEMMA PlaceLies ==
    ASSUME NEW n \in Nat, NEW off \in [0..n -> Nat], off[0] = 0, NEW p \in 1..off[n]
    PROVE  \E k \in 1..n : off[k - 1] < p /\ p <= off[k]
<1> DEFINE S == {k \in 0..n : p <= off[k]}
<1>1. S \in SUBSET Nat /\ n \in S
  OBVIOUS
<1>2. PICK k \in S : \A j \in S : k <= j
  <2> HIDE DEF S
  <2> QED BY <1>1, LeastNat
<1>3. k \in 1..n /\ p <= off[k] /\ k - 1 \in 0..n
  OBVIOUS
<1>4. k - 1 \notin S
  BY <1>2, <1>3
<1>5. off[k - 1] \in Nat /\ ~(p <= off[k - 1])
  BY <1>3, <1>4
<1> QED BY <1>3, <1>5

LEMMA CatIs ==
    ASSUME NEW X, NEW u \in Seq(X), NEW v \in Seq(X)
    PROVE  /\ u \o v \in Seq(X) /\ Len(u \o v) = Len(u) + Len(v)
           /\ \A q \in 1..Len(u) : (u \o v)[q] = u[q]
           /\ \A j \in 1..Len(v) : (u \o v)[Len(u) + j] = v[j]
<1>1. /\ u \o v \in Seq(X) /\ Len(u \o v) = Len(u) + Len(v)
      /\ \A i \in 1..(Len(u) + Len(v)) : (u \o v)[i] = IF i <= Len(u) THEN u[i] ELSE v[i - Len(u)]
  BY ConcatProperties
<1>2. Len(u) \in Nat /\ Len(v) \in Nat
  OBVIOUS
<1>3. ASSUME NEW q \in 1..Len(u)
      PROVE  (u \o v)[q] = u[q]
  <2>1. q \in 1..(Len(u) + Len(v)) /\ q <= Len(u)
    BY ONLY <1>2
  <2> QED BY ONLY <1>1, <2>1
<1>4. ASSUME NEW j \in 1..Len(v)
      PROVE  (u \o v)[Len(u) + j] = v[j]
  <2>1. /\ Len(u) + j \in 1..(Len(u) + Len(v)) /\ ~(Len(u) + j <= Len(u))
        /\ Len(u) + j - Len(u) = j
    BY ONLY <1>2
  <2> QED BY ONLY <1>1, <2>1
<1> QED BY ONLY <1>1, <1>3, <1>4

(* And no piece is lost, moved or doubled when sequences are strung together.   *)
LEMMA FlattenLays ==
    ASSUME NEW X, NEW s \in Seq(Seq(X))
    PROVE  \E off : Laid(off, FlattenSeq(s), s, Len(s))
<1> DEFINE n == Len(s)
           len == [k \in 1..n |-> Len(s[k])]
<1>1. n \in Nat /\ \A k \in 1..n : s[k] \in Seq(X) /\ Len(s[k]) \in Nat /\ len[k] = Len(s[k])
  OBVIOUS
<1>2. PICK off \in [0..n -> Nat] : off[0] = 0 /\ \A k \in 1..n : off[k] = off[k - 1] + Len(s[k])
  <2> HIDE DEF n, len
  <2>1. \A k \in 1..n : len[k] \in Nat
    BY ONLY <1>1
  <2>2. \E off \in [0..n -> Nat] : off[0] = 0 /\ \A k \in 1..n : off[k] = off[k - 1] + len[k]
    BY ONLY <1>1, <2>1, OffsetsExist
  <2> QED BY ONLY <1>1, <2>2
<1>3. PICK f : Strung(f, X, s)
  BY FlattenSteps
<1>4. /\ f \in [0..n -> Seq(X)] /\ f[0] = <<>> /\ f[n] = FlattenSeq(s)
      /\ \A i \in 1..n : f[i] = f[i - 1] \o s[i]
  BY <1>3 DEF Strung
<1> HIDE DEF n, len
<1> DEFINE At(m) == /\ Len(f[m]) = off[m]
                    /\ \A k \in 1..m : \A j \in 1..Len(s[k]) : f[m][off[k - 1] + j] = s[k][j]
           S == {m \in 0..n : At(m)}
<1>5. 0 \in S
  <2>1. Len(f[0]) = 0 /\ 1..0 = {} /\ 0 \in 0..n
    BY ONLY <1>1, <1>4
  <2> QED BY <1>2, <2>1
<1>6. ASSUME NEW m \in 1..n, m - 1 \in S
      PROVE  m \in S
  <2>1. /\ m - 1 \in 0..n /\ m \in 0..n /\ f[m - 1] \in Seq(X) /\ s[m] \in Seq(X)
        /\ f[m] = f[m - 1] \o s[m] /\ off[m] = off[m - 1] + Len(s[m]) /\ off[m - 1] \in Nat
    <3>1. m - 1 \in 0..n /\ m \in 0..n /\ m \in 1..n
      BY ONLY <1>1, <1>6
    <3>2. s[m] \in Seq(X) /\ off[m] = off[m - 1] + Len(s[m]) /\ off[m - 1] \in Nat
      BY ONLY <1>1, <1>2, <3>1
    <3>3. f[m - 1] \in Seq(X) /\ f[m] = f[m - 1] \o s[m]
      BY ONLY <1>4, <3>1
    <3> QED BY ONLY <3>1, <3>2, <3>3
  <2>2. At(m - 1)
    BY <1>6
  <2>3. /\ Len(f[m]) = Len(f[m - 1]) + Len(s[m])
        /\ \A q \in 1..Len(f[m - 1]) : f[m][q] = f[m - 1][q]
        /\ \A j \in 1..Len(s[m]) : f[m][Len(f[m - 1]) + j] = s[m][j]
    <3>1. PICK u \in Seq(X), v \in Seq(X) : u = f[m - 1] /\ v = s[m]
      BY ONLY <2>1
    <3>2. /\ Len(u \o v) = Len(u) + Len(v)
          /\ \A q \in 1..Len(u) : (u \o v)[q] = u[q]
          /\ \A j \in 1..Len(v) : (u \o v)[Len(u) + j] = v[j]
      BY ONLY CatIs
    <3>3. f[m] = u \o v
      BY ONLY <2>1, <3>1
    <3> QED BY ONLY <3>1, <3>2, <3>3
  <2>4. ASSUME NEW k \in 1..m, NEW j \in 1..Len(s[k])
        PROVE  f[m][off[k - 1] + j] = s[k][j]
    <3>1. CASE k = m
      BY <2>2, <2>3, <3>1
    <3>2. CASE k # m
      <4>1. k \in 1..(m - 1) /\ k \in 1..n /\ k - 1 \in 0..n /\ k \in 0..n
        BY <1>1, <3>2
      <4>2. off[k - 1] \in Nat /\ off[k] = off[k - 1] + Len(s[k]) /\ off[k] \in Nat
        BY ONLY <1>2, <4>1
      <4>3. off[k] <= off[m - 1]
        <5>1. \A i \in 1..n : off[i - 1] <= off[i]
          <6> SUFFICES ASSUME NEW i \in 1..n
                       PROVE  off[i - 1] <= off[i]
            OBVIOUS
          <6>1. off[i - 1] \in Nat /\ Len(s[i]) \in Nat /\ off[i] = off[i - 1] + Len(s[i])
            BY ONLY <1>1, <1>2
          <6> QED BY ONLY <6>1
        <5>2. \A i, l \in 0..n : i <= l => off[i] <= off[l]
          BY ONLY <1>1, <1>2, <5>1, OffsetsGrow
        <5> QED BY <2>1, <4>1, <5>2
      <4>4. off[k - 1] + j \in 1..Len(f[m - 1])
        <5>1. Len(s[k]) \in Nat /\ j \in 1..Len(s[k]) /\ Len(f[m - 1]) = off[m - 1]
          BY ONLY <1>1, <2>2, <4>1
        <5>2. \A a, b, c, l \in Nat : b = a + l /\ b <= c => \A i \in 1..l : a + i \in 1..c
          OBVIOUS
        <5> QED BY ONLY <2>1, <4>2, <4>3, <5>1, <5>2
      <4> QED BY <2>2, <2>3, <4>1, <4>4
    <3> QED BY <3>1, <3>2
  <2>5. Len(f[m]) = off[m]
    BY <2>1, <2>2, <2>3
  <2> QED BY <2>1, <2>4, <2>5
<1>7. At(n)
  <2> HIDE DEF S
  <2>1. \A m \in 0..n : m \in S
    BY ONLY <1>1, <1>5, <1>6, AllReached
  <2>2. n \in S
    BY ONLY <1>1, <2>1
  <2> QED BY ONLY <2>2 DEF S
<1>8. Laid(off, FlattenSeq(s), s, n)
  BY <1>2, <1>4, <1>7 DEF Laid
<1> QED BY <1>8 DEF n
-----------------------------------------------------------------------------
(***************************************************************************)
(* FlightIdentify.tla: which aircraft a transmission names.                  *)
(***************************************************************************)
(* The words, and the one that a repair puts before them.                      *)
Word == STRING \union {"klm"}

LEMMA TextsAreOfWords ==
    /\ Transmission \subseteq Seq(Word) /\ CallsignWords \in Nat
    /\ Phrases \in Seq(Word \X Word \X Word)
    /\ \A w \in DOMAIN Glued : Glued[w] \in Seq(Word)
    /\ \A r \in Traffic : IsFiniteSet(DOMAIN r)
    /\ "klm" \in Word
<1>1. ASSUME NEW S, NEW T, S \subseteq T
      PROVE  Seq(S) \subseteq Seq(T)
  BY <1>1
<1>2. STRING \subseteq Word /\ "klm" \in Word
  BY DEF Word
<1>3. STRING \X STRING \X STRING \subseteq Word \X Word \X Word
  BY <1>2
<1>4. Seq(STRING) \subseteq Seq(Word)
  BY <1>1, <1>2
<1>5. Seq(STRING \X STRING \X STRING) \subseteq Seq(Word \X Word \X Word)
  BY <1>1, <1>3
<1> QED BY <1>2, <1>4, <1>5, FlightAssumption

LEMMA JoinedIsAText ==
    ASSUME NEW t \in Seq(Word), NEW phrase \in Word \X Word \X Word
    PROVE  Joined(t, phrase) \in Seq(Word)
<1> DEFINE At(i) == i \in 1..(Len(t) - 1) /\ t[i] = phrase[1] /\ t[i + 1] = phrase[2]
           part(i) == IF At(i) THEN <<phrase[3]>> ELSE IF At(i - 1) THEN <<>> ELSE <<t[i]>>
           parts == [i \in 1..Len(t) |-> part(i)]
<1>1. Joined(t, phrase) = FlattenSeq(parts)
  BY DEF Joined
<1>2. ASSUME NEW i \in 1..Len(t)
      PROVE  part(i) \in Seq(Word)
  <2>1. <<phrase[3]>> \in Seq(Word) /\ <<>> \in Seq(Word) /\ <<t[i]>> \in Seq(Word)
    OBVIOUS
  <2> HIDE DEF At
  <2> QED BY <2>1
<1>3. parts \in Seq(Seq(Word))
  <2>1. Len(t) \in Nat
    OBVIOUS
  <2> HIDE DEF part
  <2> QED BY <1>2, <2>1
<1> HIDE DEF parts
<1> QED BY <1>1, <1>3, FlattenIsASequence

LEMMA WordsIsAText ==
    ASSUME NEW text \in Seq(Word)
    PROVE  Words(text) \in Seq(Word)
<1> DEFINE n == Len(Phrases)
           Y == Seq(Word)
           Defines(h) == h = [i \in 0..n |-> IF i = 0 THEN text ELSE Joined(h[i - 1], Phrases[i])]
           after == CHOOSE h : Defines(h)
           t == after[n]
           part(i) == IF t[i] \in DOMAIN Glued THEN Glued[t[i]] ELSE <<t[i]>>
           parts == [i \in 1..Len(t) |-> part(i)]
           step == [i \in 1..n |-> [y \in Y |-> Joined(y, Phrases[i])]]
<1>1. Words(text) = FlattenSeq(parts)
  BY DEF Words
<1>2. n \in Nat /\ \A i \in 1..n : Phrases[i] \in Word \X Word \X Word
  BY TextsAreOfWords
<1>3. \A i \in 1..n, y \in Y : Joined(y, Phrases[i]) \in Y
  BY <1>2, JoinedIsAText
<1>4. step \in [1..n -> [Y -> Y]] /\ \A i \in 1..n, y \in Y : step[i][y] = Joined(y, Phrases[i])
  <2> HIDE DEF n, Y
  <2> QED BY <1>3
<1>5. text \in Y
  OBVIOUS
<1> HIDE DEF n, Y, step
<1>6. PICK f : Runs(f, n, Y, text, step)
  BY ONLY <1>2, <1>4, <1>5, StepsExist
<1>7. f \in [0..n -> Y] /\ f[0] = text /\ \A i \in 1..n : f[i] = step[i][f[i - 1]]
  BY <1>6 DEF Runs
<1>8. ASSUME NEW i \in 0..n
      PROVE  f[i] = IF i = 0 THEN text ELSE Joined(f[i - 1], Phrases[i])
  <2>1. CASE i = 0
    BY <1>7, <2>1
  <2>2. CASE i # 0
    <3>1. i \in 1..n /\ i - 1 \in 0..n
      BY <1>2, <2>2
    <3>2. f[i - 1] \in Y
      BY ONLY <1>7, <3>1
    <3> QED BY <1>4, <1>7, <2>2, <3>1, <3>2
  <2> QED BY <2>1, <2>2
<1>9. Defines(f)
  <2>1. f = [i \in 0..n |-> f[i]]
    BY ONLY <1>7
  <2> QED BY <1>8, <2>1
<1>10. Defines(after)
  <2> HIDE DEF Defines
  <2> QED BY <1>9
<1> HIDE DEF after
<1>11. \A i \in 0..n : after[i] = IF i = 0 THEN text ELSE Joined(after[i - 1], Phrases[i])
  BY <1>10
<1>12. after[0] \in Y
  BY <1>2, <1>5, <1>11
<1>13. ASSUME NEW i \in 1..n, after[i - 1] \in Y
       PROVE  after[i] \in Y
  BY <1>2, <1>3, <1>11, <1>13
<1>14. t \in Y
  <2>1. \A i \in 0..n : after[i] \in Y
    BY ONLY <1>2, <1>12, <1>13, StepsStay
  <2> QED BY <1>2, <2>1
<1> HIDE DEF t
<1>15. ASSUME NEW i \in 1..Len(t)
       PROVE  part(i) \in Seq(Word)
  <2>1. t[i] \in Word
    BY <1>14 DEF Y
  <2>2. <<t[i]>> \in Seq(Word)
    BY <2>1
  <2> QED BY <2>2, TextsAreOfWords
<1>16. parts \in Seq(Seq(Word))
  <2>1. Len(t) \in Nat
    BY <1>14 DEF Y
  <2> HIDE DEF part
  <2> QED BY <1>15, <2>1
<1> HIDE DEF parts
<1> QED BY <1>1, <1>16, FlattenIsASequence

(* How many words after the airline's are the number: all up to the first that    *)
(* does not belong to it.                                                      *)
LEMMA ReachIsTheNumber ==
    ASSUME NEW t \in Seq(Word), NEW i \in 1..Len(t)
    PROVE  Reach(t, i) \in 0..CallsignWords /\ SpokenNumber(t, i, Reach(t, i))
<1> DEFINE In(k) == i + k <= Len(t) /\ \A j \in (i + 1)..(i + k) : Usable(t, j)
           S == {k \in 1..CallsignWords : In(k)}
           U == {k \in 0..CallsignWords : k + 1 \notin S}
<1>0. CallsignWords \in Nat /\ Len(t) \in Nat
  BY TextsAreOfWords
<1>1. Reach(t, i) = Cardinality(S)
  BY DEF Reach
<1>2. PICK n \in U : \A k \in U : n <= k
  <2>1. U \in SUBSET Nat /\ U # {}
    <3>1. CallsignWords \in U
      BY <1>0
    <3>2. \A k \in U : k \in Nat
      BY <1>0
    <3> HIDE DEF U
    <3> QED BY <3>1, <3>2
  <2> HIDE DEF U
  <2> QED BY <2>1, LeastNat
<1>3. n \in 0..CallsignWords /\ n + 1 \notin S
  OBVIOUS
<1>4. ASSUME NEW k \in 1..n
      PROVE  k \in S
  <2>1. k - 1 \in 0..CallsignWords /\ ~(n <= k - 1)
    BY <1>0, <1>3
  <2>2. k - 1 \notin U
    <3> HIDE DEF U
    <3> QED BY <1>2, <2>1
  <2>3. k - 1 + 1 = k
    OBVIOUS
  <2> HIDE DEF S
  <2> QED BY <2>1, <2>2, <2>3
<1>5. ASSUME NEW k \in S, k > n
      PROVE  FALSE
  <2>1. k \in 1..CallsignWords /\ In(k)
    OBVIOUS
  <2>2. n + 1 \in 1..CallsignWords /\ n + 1 <= k
    BY <1>0, <1>3, <1>5, <2>1
  <2>3. In(n + 1)
    <3>1. i + (n + 1) <= Len(t) /\ (i + 1)..(i + (n + 1)) \subseteq (i + 1)..(i + k)
      BY <1>0, <2>1, <2>2
    <3> QED BY <2>1, <3>1
  <2> QED BY <1>3, <2>2, <2>3
<1>6. S = 1..n
  <2>1. S \subseteq 1..CallsignWords
    OBVIOUS
  <2> HIDE DEF S
  <2>2. \A k \in S : k \in 1..n
    BY <1>0, <1>3, <1>5, <2>1
  <2> QED BY <1>4, <2>2
<1>7. Reach(t, i) = n
  <2>1. Cardinality(1..n) = n
    BY <1>0, <1>3, FS_Interval
  <2> HIDE DEF S
  <2> QED BY <1>1, <1>6, <2>1
<1>8. ASSUME NEW j \in 1..Len(t)
      PROVE  Usable(t, j) <=> BelongsToNumber(t, j)
  <2>1. j = Len(t) <=> ~(j < Len(t))
    BY <1>0
  <2> QED BY <2>1 DEF Usable, BelongsToNumber
<1>9. i + n <= Len(t) /\ \A k \in 1..n : BelongsToNumber(t, i + k)
  <2>1. CASE n = 0
    BY <1>0, <2>1
  <2>2. CASE n # 0
    <3>1. In(n)
      <4>1. n \in 1..n
        BY <1>3, <2>2
      <4> QED BY <1>4, <4>1
    <3>2. ASSUME NEW k \in 1..n
          PROVE  BelongsToNumber(t, i + k)
      <4>1. i + k \in 1..Len(t) /\ i + k \in (i + 1)..(i + n)
        BY <1>0, <1>3, <3>1
      <4> QED BY <1>8, <3>1, <4>1
    <3> QED BY <3>1, <3>2
  <2> QED BY <2>1, <2>2
<1>10. n = CallsignWords \/ i + n = Len(t) \/ ~BelongsToNumber(t, i + n + 1)
  <2> SUFFICES ASSUME n # CallsignWords, i + n # Len(t), BelongsToNumber(t, i + n + 1)
               PROVE  FALSE
    OBVIOUS
  <2>1. n + 1 \in 1..CallsignWords /\ i + (n + 1) <= Len(t)
    BY <1>0, <1>3, <1>9
  <2>2. ASSUME NEW j \in (i + 1)..(i + (n + 1))
        PROVE  Usable(t, j)
    <3>1. j \in 1..Len(t)
      BY <1>0, <2>1
    <3>2. CASE j = i + n + 1
      BY <1>8, <3>1, <3>2
    <3>3. CASE j # i + n + 1
      <4>1. j - i \in 1..n /\ i + (j - i) = j
        BY <1>3, <3>3
      <4>2. BelongsToNumber(t, j)
        BY <1>9, <4>1
      <4> QED BY <1>8, <3>1, <4>2
    <3> QED BY <3>2, <3>3
  <2>3. n + 1 \in S
    BY <2>1, <2>2
  <2> QED BY <1>3, <2>3
<1> HIDE DEF U, S, In
<1> QED BY <1>3, <1>7, <1>9, <1>10 DEF SpokenNumber

(* What is extracted was spoken: the airline's name and the number after it.     *)
LEMMA ExtractedIsSpoken ==
    ASSUME NEW text \in Seq(Word), Extract(text) # <<>>
    PROVE  Extract(text) \in SpokenDesignators(Words(text))
<1> DEFINE t == Words(text)
           anchors == {i \in 1..Len(t) : Yields(t, i)}
           least == CHOOSE i \in anchors : \A j \in anchors : i <= j
<1>1. t \in Seq(Word)
  BY WordsIsAText
<1>2. anchors # {} /\ Extract(text) = Anchor(t[least]) \o TailAfter(t, least)
  BY DEF Extract
<1> HIDE DEF t
<1>3. \E i \in anchors : \A j \in anchors : i <= j
  <2>1. anchors \in SUBSET Nat
    BY <1>1
  <2> HIDE DEF anchors
  <2> QED BY <1>2, <2>1, LeastNat
<1>4. least \in anchors
  <2> HIDE DEF anchors
  <2> QED BY <1>3
<1> HIDE DEF least
<1>5. least \in 1..Len(t) /\ Anchor(t[least]) # <<>>
  BY <1>4 DEF Yields
<1> DEFINE n == Reach(t, least)
<1>6. n \in 0..CallsignWords /\ SpokenNumber(t, least, n)
  BY <1>1, <1>5, ReachIsTheNumber
<1>7. n \in 0..CallsignWords
  BY <1>6
<1>8. TailAfter(t, least) = FlattenSeq([k \in 1..n |-> Chars(t, least + k)])
  BY DEF TailAfter
<1> HIDE DEF n
<1> DEFINE p == <<least, n>>
           P == {q \in (1..Len(t)) \X (0..CallsignWords) :
                    Anchor(t[q[1]]) # <<>> /\ SpokenNumber(t, q[1], q[2])}
           Of(q) == Anchor(t[q[1]]) \o FlattenSeq([k \in 1..q[2] |-> Chars(t, q[1] + k)])
<1>9. p[1] = least /\ p[2] = n
  OBVIOUS
<1>10. p \in P
  BY <1>5, <1>6
<1>11. Extract(text) = Of(p)
  BY <1>2, <1>8, <1>9
<1>12. SpokenDesignators(t) = {Of(q) : q \in P}
  BY DEF SpokenDesignators
<1> HIDE DEF P, Of, p
<1> QED BY <1>10, <1>11, <1>12 DEF t

(* The designator in hand is what was extracted; until the clue is settled there  *)
(* is none.                                                                    *)
Identifying ==
    /\ uttered \in Seq(Word) /\ IsFiniteSet(DOMAIN range)
    /\ stage \in {"exact", "fuzzy"} => candidate = Extract(uttered) /\ candidate # <<>>
    /\ stage # "done" => clue = <<>>
    /\ FlightWasHeard

LEMMA NamedAfterItself ==
    ASSUME Identifying, stage \in {"exact", "fuzzy"}, NEW f,
           f = candidate \/ FuzzilyMatches(candidate, f)
    PROVE  SpokenOf(Words(uttered), f)
<1>1. candidate \in SpokenDesignators(Words(uttered))
  BY ExtractedIsSpoken DEF Identifying
<1>2. CodesAlike(CodeOf(candidate), CodeOf(f)) /\ TailOfFlight(candidate) = TailOfFlight(f)
  BY DEF FuzzilyMatches, CodesAlike
<1> QED BY <1>1, <1>2 DEF SpokenOf

LEMMA RepairIsHeard ==
    ASSUME Identifying, QnhRepair, clue' # <<>>
    PROVE  clue' \in FlightsIn(range) /\ (ReadFromQnh(clue))'
<1> DEFINE at == Repairs(uttered, range)
           first == CHOOSE i \in at : \A j \in at : i <= j
           f == Instead(uttered, first)
           says == <<"klm">> \o SubSeq(uttered, first + 1, Len(uttered))
<1>1. clue = <<>> /\ uttered' = uttered /\ range' = range /\ looked' = range
  BY DEF QnhRepair, Identifying
<1>2. at # {} /\ clue' = f
  BY <1>1 DEF QnhRepair
<1>3. at \in SUBSET Nat
  BY DEF Repairs, Identifying
<1>4. first \in at
  <2>1. \E i \in at : \A j \in at : i <= j
    <3> HIDE DEF at
    <3> QED BY <1>2, <1>3, LeastNat
  <2> HIDE DEF at
  <2> QED BY <2>1
<1> HIDE DEF first
<1>5. /\ first \in 1..Len(uttered) /\ uttered[first] = "qnh"
      /\ SubSeq(f, 1, 3) = Telephony["klm"] /\ Figures(f) # <<>> /\ ~IsPressure(f)
      /\ Cardinality({h \in DOMAIN range : range[h] = f}) = 1
  BY <1>4 DEF Repairs
<1>6. says \in Seq(Word)
  <2>1. uttered \in Seq(Word) /\ first + 1 \in 1..(Len(uttered) + 1)
    BY <1>5 DEF Identifying
  <2>2. SubSeq(uttered, first + 1, Len(uttered)) \in Seq(Word)
    BY <2>1, SubSeqProperties
  <2>3. <<"klm">> \in Seq(Word)
    BY TextsAreOfWords
  <2> QED BY <2>2, <2>3, ConcatProperties
<1>7. f = Extract(says)
  BY DEF Instead
<1>8. f \in SpokenDesignators(Words(says))
  BY <1>2, <1>6, <1>7, ExtractedIsSpoken
<1> HIDE DEF f
<1> DEFINE those == {h \in DOMAIN range : range[h] = f}
<1>9. PICK h : those = {h}
  <2>1. IsFiniteSet(those)
    BY FS_Subset DEF Identifying
  <2> HIDE DEF those
  <2>2. Cardinality(those) = 1
    BY <1>5 DEF those
  <2> QED BY <2>1, <2>2, FS_Singleton
<1>10. f \in FlightsIn(range)
  BY <1>9 DEF FlightsIn
<1>11. \A g, k \in DOMAIN range : range[g] = f /\ range[k] = f => g = k
  BY <1>9
<1>12. (ReadFromQnh(clue))'
  BY <1>1, <1>2, <1>5, <1>8, <1>11 DEF ReadFromQnh
<1> QED BY <1>2, <1>10, <1>12

LEMMA IdentifyingStep ==
    ASSUME Identifying, [FlightNext]_flightVars
    PROVE  Identifying'
<1>1. ASSUME uttered' \in Seq(Word), IsFiniteSet(DOMAIN range'), clue' = <<>>,
             stage' \in {"exact", "fuzzy"} => candidate' = Extract(uttered') /\ candidate' # <<>>
      PROVE  Identifying'
  BY <1>1 DEF Identifying, FlightWasHeard
<1>2. ASSUME NEW text \in Transmission, Hears(text)
      PROVE  Identifying'
  <2>1. /\ uttered' = text /\ candidate' = Extract(text) /\ clue' = clue /\ range' = range
        /\ stage = "idle" /\ stage' \in {"exact", "repairing"}
        /\ stage' = "exact" => candidate' # <<>>
    BY <1>2 DEF Hears
  <2>2. text \in Seq(Word)
    BY TextsAreOfWords
  <2> QED BY <1>1, <2>1, <2>2 DEF Identifying
<1>3. ASSUME stage \in {"exact", "fuzzy"}, stage' = "done", looked' = range, range' = range,
             uttered' = uttered, clue' \in FlightsIn(range),
             clue' = candidate \/ FuzzilyMatches(candidate, clue')
      PROVE  Identifying'
  <2>1. SpokenOf(Words(uttered), clue')
    BY <1>3, NamedAfterItself
  <2>2. FlightWasHeard'
    BY <1>3, <2>1 DEF FlightWasHeard
  <2> QED BY <1>3, <2>2 DEF Identifying
<1>4. CASE MatchesExactly
  <2>1. stage = "exact" /\ uttered' = uttered /\ candidate' = candidate /\ range' = range
    BY <1>4 DEF MatchesExactly
  <2>2. CASE candidate \in FlightsIn(range)
    BY <1>3, <1>4, <2>1, <2>2 DEF MatchesExactly
  <2>3. CASE candidate \notin FlightsIn(range)
    <3>1. stage' = "fuzzy" /\ clue' = clue
      BY <1>4, <2>3 DEF MatchesExactly
    <3> QED BY <1>1, <2>1, <3>1 DEF Identifying
  <2> QED BY <2>2, <2>3
<1>5. CASE MatchesFuzzily
  <2> DEFINE alike == {f \in FlightsIn(range) : FuzzilyMatches(candidate, f)}
  <2>1. /\ stage = "fuzzy" /\ stage' = "done" /\ looked' = range /\ uttered' = uttered
        /\ range' = range
        /\ IF candidate \in alike THEN clue' = candidate
           ELSE IF alike = {} THEN UNCHANGED clue ELSE clue' \in alike
    BY <1>5 DEF MatchesFuzzily
  <2>2. CASE clue' \in alike
    BY <1>3, <2>1, <2>2
  <2>3. CASE clue' = clue
    BY <1>1, <2>1, <2>3 DEF Identifying
  <2> HIDE DEF alike
  <2> QED BY <2>1, <2>2, <2>3
<1>6. CASE QnhRepair
  <2>1. stage = "repairing" /\ stage' = "done" /\ looked' = range /\ uttered' = uttered /\ range' = range
    BY <1>6 DEF QnhRepair
  <2>2. CASE clue' = <<>>
    BY <1>1, <2>1, <2>2 DEF Identifying
  <2>3. CASE clue' # <<>>
    <3>1. clue' \in FlightsIn(range) /\ (ReadFromQnh(clue))'
      BY <1>6, <2>3, RepairIsHeard
    <3>2. FlightWasHeard'
      BY <2>1, <3>1 DEF FlightWasHeard
    <3> QED BY <2>1, <3>2 DEF Identifying
  <2> QED BY <2>2, <2>3
<1>7. CASE Replaced
  <2>1. /\ stage # "done" /\ range' \in Traffic
        /\ UNCHANGED <<uttered, stage, candidate, clue>>
    BY <1>7 DEF Replaced
  <2>2. IsFiniteSet(DOMAIN range')
    BY <2>1, TextsAreOfWords
  <2> QED BY <1>1, <2>1, <2>2 DEF Identifying
<1>8. CASE UNCHANGED flightVars
  BY <1>8 DEF flightVars, Identifying, FlightWasHeard, ReadFromQnh
<1> QED BY <1>2, <1>4, <1>5, <1>6, <1>7, <1>8 DEF FlightNext

(* A flight that is named was in range when it was looked for, and its number was *)
(* spoken right after an airline's name like its own, or after a "QNH" that can    *)
(* be no pressure; whatever words are heard and however often the poller replaces *)
(* what is in range in between.                                                *)
THEOREM NamedFlightsWereHeard == FlightSpec => []FlightWasHeard
<1>1. FlightInit => Identifying
  <2> SUFFICES ASSUME FlightInit
               PROVE  Identifying
    OBVIOUS
  <2>1. uttered \in Seq(Word)
    BY DEF FlightInit
  <2>2. IsFiniteSet(DOMAIN range)
    BY TextsAreOfWords DEF FlightInit
  <2> QED BY <2>1, <2>2 DEF FlightInit, Identifying, FlightWasHeard
<1>2. Identifying => FlightWasHeard
  BY DEF Identifying
<1> QED BY <1>1, <1>2, IdentifyingStep, PTL DEF FlightSpec
-----------------------------------------------------------------------------
(***************************************************************************)
(* Labels.tla: the verdicts, their file and what is read from it.            *)
(***************************************************************************)
LEMMA MinIs ==
    ASSUME NEW S \in SUBSET Nat, S # {}
    PROVE  Min(S) \in S /\ \A k \in S : Min(S) <= k
<1>1. \E x \in S : \A y \in S : x <= y
  BY LeastNat
<1> QED BY <1>1 DEF Min

LEMMA MaxIs ==
    ASSUME NEW n \in Nat, NEW S \in SUBSET (1..n), S # {}
    PROVE  Max(S) \in S /\ \A k \in S : Max(S) >= k
<1>1. S \in SUBSET Nat /\ \A k \in S : k <= n
  OBVIOUS
<1>2. \E x \in S : \A y \in S : x >= y
  BY <1>1, GreatestNat
<1> QED BY <1>2 DEF Max

LEMMA SubSeqIs ==
    ASSUME NEW X, NEW t \in Seq(X), NEW a \in 1..(Len(t) + 1), NEW b \in (a - 1)..Len(t)
    PROVE  /\ SubSeq(t, a, b) \in Seq(X) /\ Len(SubSeq(t, a, b)) = b - a + 1
           /\ \A i \in 1..(b - a + 1) : SubSeq(t, a, b)[i] = t[a + i - 1]
<1>1. a \in Int /\ b \in Int /\ \A i \in a..b : t[i] \in X
  OBVIOUS
<1>2. /\ SubSeq(t, a, b) \in Seq(X)
      /\ Len(SubSeq(t, a, b)) = IF a <= b THEN b - a + 1 ELSE 0
      /\ \A i \in 1..(b - a + 1) : SubSeq(t, a, b)[i] = t[a + i - 1]
  BY ONLY <1>1, SubSeqProperties
<1>3. b - a + 1 = IF a <= b THEN b - a + 1 ELSE 0
  OBVIOUS
<1> QED BY ONLY <1>2, <1>3

LEMMA SameSequence ==
    ASSUME NEW X, NEW u \in Seq(X), NEW v \in Seq(X), Len(u) = Len(v),
           \A i \in 1..Len(u) : u[i] = v[i]
    PROVE  u = v
BY SeqEqual

(* Text that begins and ends with what str.strip leaves, and one without line breaks. *)
Trim(u)    == u # <<>> /\ u[1] \notin Space /\ u[Len(u)] \notin Space
NoBreak(u) == \A i \in 1..Len(u) : u[i] \notin LineEnd

LEMMA StrippedIs ==
    ASSUME NEW X, NEW t \in Seq(X)
    PROVE  /\ Stripped(t) \in Seq(X) /\ (Stripped(t) # <<>> => Trim(Stripped(t)))
           /\ \A i \in 1..Len(Stripped(t)) : \E j \in 1..Len(t) : Stripped(t)[i] = t[j]
           /\ t = <<>> \/ Trim(t) => Stripped(t) = t
<1> DEFINE I == {i \in 1..Len(t) : t[i] \notin Space}
           first == IF I # {} THEN Min(I) ELSE 0
           last  == IF I # {} THEN Max(I) ELSE 0
           u == SubSeq(t, first, last)
<1>1. Len(t) \in Nat /\ I \in SUBSET (1..Len(t)) /\ I \in SUBSET Nat
  OBVIOUS
<1>2. Stripped(t) = IF first = 0 THEN <<>> ELSE u
  BY DEF Stripped, SelectInSeq, SelectLastInSeq
<1>3. CASE I = {}
  <2>1. Stripped(t) = <<>>
    BY <1>2, <1>3
  <2>2. ~Trim(t)
    <3> SUFFICES ASSUME t # <<>>
                 PROVE  1 \in I \/ t[1] \in Space
      BY <1>3 DEF Trim
    <3>1. 1 \in 1..Len(t)
      OBVIOUS
    <3> QED BY <3>1
  <2>3. <<>> \in Seq(X) /\ 1..Len(<<>>) = {}
    OBVIOUS
  <2> QED BY <2>1, <2>2, <2>3
<1>4. CASE I # {}
  <2>1. /\ first \in I /\ \A k \in I : first <= k
        /\ last \in I /\ \A k \in I : last >= k
    <3> HIDE DEF I
    <3>1. Min(I) \in I /\ \A k \in I : Min(I) <= k
      BY ONLY <1>1, <1>4, MinIs
    <3>2. Max(I) \in I /\ \A k \in I : Max(I) >= k
      BY ONLY <1>1, <1>4, MaxIs
    <3> QED BY <1>4, <3>1, <3>2
  <2>2. first \in 1..Len(t) /\ last \in 1..Len(t) /\ first <= last
        /\ t[first] \notin Space /\ t[last] \notin Space
    BY <2>1
  <2> HIDE DEF first, last, I
  <2>3. Stripped(t) = u
    BY <1>2, <2>2
  <2>4. /\ u \in Seq(X) /\ Len(u) = last - first + 1
        /\ \A i \in 1..(last - first + 1) : u[i] = t[first + i - 1]
    <3>1. first \in 1..(Len(t) + 1) /\ last \in (first - 1)..Len(t)
      BY <1>1, <2>2
    <3> QED BY ONLY <3>1, SubSeqIs, t \in Seq(X)
  <2> HIDE DEF u
  <2>5. Trim(u)
    <3>1. /\ 1 \in 1..(last - first + 1) /\ last - first + 1 \in 1..(last - first + 1)
          /\ first + 1 - 1 = first /\ first + (last - first + 1) - 1 = last
      BY <2>2
    <3>2. u[1] = t[first] /\ u[Len(u)] = t[last] /\ u # <<>>
      BY <2>4, <3>1
    <3> QED BY <2>2, <3>2 DEF Trim
  <2>6. \A i \in 1..Len(u) : \E j \in 1..Len(t) : u[i] = t[j]
    <3> SUFFICES ASSUME NEW i \in 1..Len(u)
                 PROVE  \E j \in 1..Len(t) : u[i] = t[j]
      OBVIOUS
    <3>1. first + i - 1 \in 1..Len(t) /\ i \in 1..(last - first + 1)
      BY <1>1, <2>2, <2>4
    <3> QED BY <2>4, <3>1
  <2>7. ASSUME Trim(t)
        PROVE  u = t
    <3>1. 1 \in I /\ Len(t) \in I
      <4>1. 1 \in 1..Len(t) /\ Len(t) \in 1..Len(t)
        BY <1>1, <2>2
      <4> QED BY <2>7, <4>1 DEF I, Trim
    <3>2. first = 1 /\ last = Len(t)
      BY <1>1, <2>1, <2>2, <3>1
    <3>3. Len(u) = Len(t) /\ \A i \in 1..Len(u) : u[i] = t[i]
      BY <1>1, <2>4, <3>2
    <3> QED BY ONLY <2>4, <3>3, SameSequence, t \in Seq(X)
  <2>8. t # <<>>
    BY <2>2
  <2> QED BY <2>3, <2>4, <2>5, <2>6, <2>7, <2>8
<1> QED BY <1>3, <1>4

(* What the lines of a text begin after and hold, blank ones left out.            *)
Held(text) == {l \in Lines(text) : l[2] # <<>>}

(* A text of lines, each closed by a line break, is cut into these lines again.    *)
TextOf(n, line) == FlattenSeq([k \in 1..n |-> line[k] \o <<"nl">>])

CutAt(at, n, line) ==
    /\ at \in [1..n -> Nat]
    /\ \A i, k \in 1..n : i # k => at[i] # at[k]
    /\ \A l : l \in Held(TextOf(n, line)) <=> \E k \in 1..n : l = <<at[k], line[k]>>

Proper(n, line, X) == \A k \in 1..n : line[k] \in Seq(X) /\ NoBreak(line[k]) /\ Trim(line[k])

LEMMA CutIntoLines ==
    ASSUME NEW X, "nl" \in X, NEW n \in Nat, NEW line,
           Proper(n, line, X)
    PROVE  \E at : CutAt(at, n, line)
<1> DEFINE s == [k \in 1..n |-> line[k] \o <<"nl">>]
           text == FlattenSeq(s)
<1>0. \A k \in 1..n : line[k] \in Seq(X) /\ NoBreak(line[k]) /\ Trim(line[k])
  BY DEF Proper
<1>1. \A k \in 1..n : /\ line[k] \in Seq(X) /\ Len(line[k]) \in Nat
                      /\ s[k] \in Seq(X) /\ Len(s[k]) = Len(line[k]) + 1
                      /\ \A j \in 1..Len(line[k]) : s[k][j] = line[k][j]
                      /\ s[k][Len(line[k]) + 1] = "nl"
  <2> SUFFICES ASSUME NEW k \in 1..n
               PROVE  /\ line[k] \in Seq(X) /\ Len(line[k]) \in Nat
                      /\ s[k] \in Seq(X) /\ Len(s[k]) = Len(line[k]) + 1
                      /\ \A j \in 1..Len(line[k]) : s[k][j] = line[k][j]
                      /\ s[k][Len(line[k]) + 1] = "nl"
    OBVIOUS
  <2>1. PICK u \in Seq(X) : u = line[k]
    BY <1>0
  <2>2. PICK v \in Seq(X) : v = <<"nl">> /\ Len(v) = 1 /\ v[1] = "nl"
    <3>1. \A x \in X : <<x>> \in Seq(X) /\ Len(<<x>>) = 1 /\ <<x>>[1] = x
      OBVIOUS
    <3> QED BY ONLY <3>1, "nl" \in X
  <2>3. /\ u \o v \in Seq(X) /\ Len(u \o v) = Len(u) + Len(v)
        /\ \A q \in 1..Len(u) : (u \o v)[q] = u[q]
        /\ \A j \in 1..Len(v) : (u \o v)[Len(u) + j] = v[j]
    BY ONLY CatIs
  <2>4. s[k] = u \o v /\ Len(u) \in Nat /\ 1 \in 1..Len(v)
    BY <2>1, <2>2
  <2> HIDE DEF s
  <2> QED BY ONLY <2>1, <2>2, <2>3, <2>4
<1>2. s \in Seq(Seq(X)) /\ Len(s) = n
  <2>1. s = [k \in 1..n |-> s[k]]
    OBVIOUS
  <2> HIDE DEF s
  <2> QED BY ONLY <1>1, <2>1, n \in Nat
<1> HIDE DEF s
<1>3. PICK off : Laid(off, text, s, n)
  <2>1. \E off : Laid(off, FlattenSeq(s), s, Len(s))
    BY ONLY <1>2, FlattenLays
  <2> QED BY <1>2, <2>1
<1>text. text \in Seq(X)
  BY ONLY <1>2, FlattenIsASequence
<1> HIDE DEF text
<1>4. /\ off \in [0..n -> Nat] /\ off[0] = 0 /\ Len(text) = off[n]
      /\ \A k \in 1..n : off[k] = off[k - 1] + Len(line[k]) + 1 /\ off[k - 1] \in Nat
      /\ \A k \in 1..n : \A j \in 1..Len(line[k]) : text[off[k - 1] + j] = line[k][j]
      /\ \A k \in 1..n : text[off[k]] = "nl"
  <2>1. /\ off \in [0..n -> Nat] /\ off[0] = 0 /\ Len(text) = off[n]
        /\ \A k \in 1..n : off[k] = off[k - 1] + Len(s[k])
        /\ \A k \in 1..n : \A j \in 1..Len(s[k]) : text[off[k - 1] + j] = s[k][j]
    BY ONLY <1>3 DEF Laid
  <2>2. ASSUME NEW k \in 1..n
        PROVE  /\ off[k] = off[k - 1] + Len(line[k]) + 1 /\ off[k - 1] \in Nat
               /\ \A j \in 1..Len(line[k]) : text[off[k - 1] + j] = line[k][j]
               /\ text[off[k]] = "nl"
    <3>1. off[k - 1] \in Nat
      <4>1. k - 1 \in 0..n
        BY ONLY n \in Nat, k \in 1..n
      <4> QED BY ONLY <2>1, <4>1
    <3>2. Len(line[k]) \in Nat /\ Len(s[k]) = Len(line[k]) + 1 /\ off[k] = off[k - 1] + Len(s[k])
      BY ONLY <1>1, <2>1
    <3>3. off[k] = off[k - 1] + Len(line[k]) + 1 /\ off[k] = off[k - 1] + (Len(line[k]) + 1)
      BY ONLY <3>1, <3>2
    <3>4. \A j \in 1..Len(line[k]) : text[off[k - 1] + j] = line[k][j]
      <4>1. \A j \in 1..Len(line[k]) : j \in 1..Len(s[k])
        BY ONLY <3>2
      <4>2. \A j \in 1..Len(s[k]) : text[off[k - 1] + j] = s[k][j]
        BY ONLY <2>1, k \in 1..n
      <4>3. \A j \in 1..Len(line[k]) : s[k][j] = line[k][j]
        BY ONLY <1>1, k \in 1..n
      <4> QED BY ONLY <4>1, <4>2, <4>3
    <3>5. text[off[k]] = "nl"
      <4>1. Len(line[k]) + 1 \in 1..Len(s[k])
        BY ONLY <3>2
      <4>2. text[off[k - 1] + (Len(line[k]) + 1)] = s[k][Len(line[k]) + 1]
        BY ONLY <2>1, <4>1, k \in 1..n
      <4>3. s[k][Len(line[k]) + 1] = "nl"
        BY ONLY <1>1, k \in 1..n
      <4> QED BY ONLY <3>3, <4>2, <4>3
    <3> QED BY ONLY <3>1, <3>3, <3>4, <3>5
  <2> QED BY ONLY <2>1, <2>2
<1>5. \A i, k \in 0..n : i <= k => off[i] <= off[k]
  <2>1. \A k \in 1..n : off[k - 1] <= off[k]
    <3> SUFFICES ASSUME NEW k \in 1..n
                 PROVE  off[k - 1] <= off[k]
      OBVIOUS
    <3>1. off[k - 1] \in Nat /\ Len(line[k]) \in Nat /\ off[k] = off[k - 1] + Len(line[k]) + 1
      BY ONLY <1>1, <1>4
    <3> QED BY ONLY <3>1
  <2> QED BY ONLY <1>4, <2>1, OffsetsGrow, n \in Nat
<1>6. \A k \in 1..n : /\ k - 1 \in 0..n /\ k \in 0..n /\ off[k - 1] \in Nat /\ off[k] \in Nat
                      /\ off[k - 1] < off[k]
  <2> SUFFICES ASSUME NEW k \in 1..n
               PROVE  /\ k - 1 \in 0..n /\ k \in 0..n /\ off[k - 1] \in Nat /\ off[k] \in Nat
                      /\ off[k - 1] < off[k]
    OBVIOUS
  <2>1. off[k - 1] \in Nat /\ Len(line[k]) \in Nat /\ off[k] = off[k - 1] + Len(line[k]) + 1
    BY ONLY <1>1, <1>4
  <2> QED BY ONLY <2>1, n \in Nat
<1> DEFINE breaks == {i \in 1..Len(text) : text[i] \in LineEnd}
           cuts == {0, Len(text) + 1} \union breaks
           Next2(a, b) == a \in cuts /\ b \in cuts /\ a < b /\ \A c \in cuts : c <= a \/ b <= c
<1>7. \A i : i \in breaks <=> \E k \in 1..n : i = off[k]
  <2>1. ASSUME NEW i \in breaks
        PROVE  \E k \in 1..n : i = off[k]
    <3>1. i \in 1..off[n] /\ text[i] \in LineEnd
      BY <1>4
    <3>2. PICK k \in 1..n : off[k - 1] < i /\ i <= off[k]
      BY ONLY <1>4, <3>1, PlaceLies, n \in Nat
    <3>3. /\ off[k - 1] \in Nat /\ off[k] = off[k - 1] + Len(line[k]) + 1 /\ Len(line[k]) \in Nat
          /\ i \in Nat
      BY ONLY <1>1, <1>4, <3>1
    <3>4. ASSUME i # off[k]
          PROVE  FALSE
      <4>1. i - off[k - 1] \in 1..Len(line[k]) /\ off[k - 1] + (i - off[k - 1]) = i
        <5>1. \A x, y, l \in Nat : x < i /\ i <= y /\ y = x + l + 1 /\ i # y =>
                 i - x \in 1..l /\ x + (i - x) = i
          BY ONLY <3>3
        <5>2. off[k] \in Nat
          BY ONLY <3>3
        <5> QED BY ONLY <3>2, <3>3, <3>4, <5>1, <5>2
      <4>2. text[i] = line[k][i - off[k - 1]]
        BY ONLY <1>4, <4>1
      <4> QED BY <1>0, <3>1, <4>1, <4>2 DEF NoBreak
    <3> QED BY <3>4
  <2>2. ASSUME NEW k \in 1..n
        PROVE  off[k] \in breaks
    <3>1. n \in 0..n /\ k \in 0..n /\ k <= n
      BY ONLY n \in Nat
    <3>2. off[k] \in 1..off[n]
      BY ONLY <1>4, <1>5, <1>6, <3>1
    <3>3. text[off[k]] = "nl"
      BY ONLY <1>4
    <3> QED BY <1>4, <3>2, <3>3 DEF LineEnd
  <2> QED BY ONLY <2>1, <2>2
<1>8. \A c : c \in cuts <=> c = off[n] + 1 \/ \E k \in 0..n : c = off[k]
  <2> HIDE DEF breaks
  <2>1. \A k \in 0..n : k = 0 \/ k \in 1..n
    BY ONLY n \in Nat
  <2>2. 0 \in 0..n /\ \A k \in 1..n : k \in 0..n
    BY ONLY n \in Nat
  <2> QED BY <1>4, <1>7, <2>1, <2>2
<1>9. \A l : l \in Lines(text) <=> \E a, b : /\ Next2(a, b)
                                            /\ l = <<a, Stripped(SubSeq(text, a + 1, b - 1))>>
  <2> DEFINE P == {p \in cuts \X cuts : p[1] < p[2] /\ \A c \in cuts : c <= p[1] \/ p[2] <= c}
             F(p) == <<p[1], Stripped(SubSeq(text, p[1] + 1, p[2] - 1))>>
  <2>1. Lines(text) = {F(p) : p \in P}
    BY DEF Lines
  <2> HIDE DEF cuts, breaks
  <2>2. \A a, b : Next2(a, b) <=> <<a, b>> \in P
    OBVIOUS
  <2>3. \A p \in P : p = <<p[1], p[2]>>
    OBVIOUS
  <2>4. \A a, b : F(<<a, b>>) = <<a, Stripped(SubSeq(text, a + 1, b - 1))>>
    OBVIOUS
  <2> HIDE DEF P, F, Next2
  <2>5. ASSUME NEW l \in Lines(text)
        PROVE  \E a, b : Next2(a, b) /\ l = <<a, Stripped(SubSeq(text, a + 1, b - 1))>>
    <3>1. PICK p \in P : l = F(p)
      BY ONLY <2>1, <2>5
    <3>2. Next2(p[1], p[2]) /\ l = F(<<p[1], p[2]>>)
      BY ONLY <2>2, <2>3, <3>1
    <3> QED BY ONLY <2>4, <3>2
  <2>6. ASSUME NEW a, NEW b, Next2(a, b)
        PROVE  <<a, Stripped(SubSeq(text, a + 1, b - 1))>> \in Lines(text)
    BY ONLY <2>1, <2>2, <2>4, <2>6
  <2> QED BY ONLY <2>5, <2>6
<1> HIDE DEF breaks, cuts
<1>10. \A c \in cuts : c \in Nat /\ c <= off[n] + 1
  <2>1. n \in 0..n /\ off[n] \in Nat
    BY ONLY <1>4, n \in Nat
  <2>2. ASSUME NEW k \in 0..n
        PROVE  off[k] \in Nat /\ off[k] <= off[n] + 1
    <3>1. k <= n /\ off[k] \in Nat
      BY ONLY <1>4, k \in 0..n, n \in Nat
    <3>2. off[k] <= off[n]
      BY ONLY <1>5, <2>1, <3>1, k \in 0..n
    <3> QED BY ONLY <2>1, <3>1, <3>2
  <2>3. off[n] + 1 \in Nat /\ off[n] + 1 <= off[n] + 1
    BY ONLY <2>1
  <2> QED BY ONLY <1>8, <2>2, <2>3
(* The breaks of one line are neighbours, and between them lies that line.      *)
<1>11. ASSUME NEW k \in 1..n
       PROVE  Next2(off[k - 1], off[k]) /\ SubSeq(text, off[k - 1] + 1, off[k] - 1) = line[k]
  <2>1. off[k - 1] \in cuts /\ off[k] \in cuts
    BY ONLY <1>6, <1>8
  <2>2. ASSUME NEW c \in cuts
        PROVE  c <= off[k - 1] \/ off[k] <= c
    <3>1. CASE c = off[n] + 1
      <4>1. off[k] <= off[n] + 1
        BY ONLY <1>10, <2>1
      <4> QED BY ONLY <3>1, <4>1
    <3>2. CASE \E i \in 0..n : c = off[i]
      <4>1. PICK i \in 0..n : c = off[i]
        BY ONLY <3>2
      <4>2. i <= k - 1 \/ k <= i
        OBVIOUS
      <4> QED BY ONLY <1>5, <1>6, <4>1, <4>2
    <3> QED BY ONLY <1>8, <3>1, <3>2
  <2>3. /\ off[k - 1] \in Nat /\ Len(line[k]) \in Nat /\ off[k] = off[k - 1] + Len(line[k]) + 1
        /\ off[k] <= Len(text)
    <3>1. n \in 0..n /\ k \in 0..n /\ k <= n
      BY ONLY n \in Nat
    <3> QED BY ONLY <1>1, <1>4, <1>5, <3>1
  <2>4. SubSeq(text, off[k - 1] + 1, off[k] - 1) = line[k]
    <3> DEFINE a == off[k - 1] + 1
               b == off[k] - 1
               u == SubSeq(text, a, b)
    <3>1. Len(text) \in Nat /\ a \in 1..(Len(text) + 1) /\ b \in (a - 1)..Len(text) /\ b - a + 1 = Len(line[k])
      <4>1. PICK x \in Nat : x = off[k - 1]
        BY ONLY <2>3
      <4>2. PICK l \in Nat : l = Len(line[k])
        BY ONLY <2>3
      <4>3. PICK z \in Nat : z = Len(text)
        BY ONLY <1>text
      <4>4. off[k] = x + l + 1 /\ x + l + 1 <= z
        BY ONLY <2>3, <4>1, <4>2, <4>3
      <4>5. a = x + 1 /\ b = x + l
        BY ONLY <4>1, <4>4
      <4> HIDE DEF a, b
      <4>6. a \in 1..(z + 1) /\ b \in (a - 1)..z /\ b - a + 1 = l
        BY ONLY <4>4, <4>5
      <4> QED BY ONLY <4>2, <4>3, <4>6
    <3>2. \A i \in 1..Len(line[k]) : a + i - 1 = off[k - 1] + i
      BY ONLY <2>3
    <3> HIDE DEF a, b
    <3>3. u \in Seq(X) /\ Len(u) = b - a + 1 /\ \A i \in 1..(b - a + 1) : u[i] = text[a + i - 1]
      BY ONLY <1>text, <3>1, SubSeqIs
    <3> HIDE DEF u
    <3>4. Len(u) = Len(line[k])
      BY ONLY <3>1, <3>3
    <3>6. ASSUME NEW i \in 1..Len(u)
          PROVE  u[i] = line[k][i]
      <4>1. i \in 1..(b - a + 1) /\ i \in 1..Len(line[k]) /\ a + i - 1 = off[k - 1] + i
        BY ONLY <3>1, <3>2, <3>4, i \in 1..Len(u)
      <4>2. u[i] = text[off[k - 1] + i] /\ text[off[k - 1] + i] = line[k][i]
        BY ONLY <1>4, <3>3, <4>1, k \in 1..n
      <4> QED BY ONLY <4>2
    <3>5. u = line[k]
      BY ONLY <1>1, <3>3, <3>4, <3>6, SameSequence, k \in 1..n
    <3> QED BY ONLY <3>5 DEF u, a, b
  <2> QED BY ONLY <1>6, <2>1, <2>2, <2>4
(* Nothing else is left between two neighbours: after the last break comes the end. *)
<1>12. ASSUME NEW a, NEW b, Next2(a, b), Stripped(SubSeq(text, a + 1, b - 1)) # <<>>
       PROVE  \E k \in 1..n : a = off[k - 1] /\ b = off[k]
  <2>1. a \in Nat /\ b \in Nat /\ a < b /\ b <= off[n] + 1 /\ off[n] \in Nat /\ n \in 0..n
    BY ONLY <1>4, <1>10, <1>12, n \in Nat
  <2>2. PICK i \in 0..n : a = off[i]
    BY ONLY <1>8, <1>12, <2>1
  <2>3. i # n
    <3> SUFFICES ASSUME i = n
                 PROVE  FALSE
      OBVIOUS
    <3>1. b = off[n] + 1
      BY ONLY <2>1, <2>2, i = n
    <3>2. SubSeq(text, a + 1, b - 1) = <<>>
      <4>1. a + 1 \in Int /\ b - 1 \in Int /\ b - 1 < a + 1
        BY ONLY <2>1, <2>2, <3>1, i = n
      <4> QED BY ONLY <4>1, SubSeqEmpty
    <3>3. Stripped(<<>>) = <<>>
      <4>1. <<>> \in Seq(X)
        OBVIOUS
      <4> QED BY ONLY <4>1, StrippedIs
    <3> QED BY ONLY <1>12, <3>2, <3>3
  <2>4. i + 1 \in 1..n /\ i + 1 \in 0..n /\ (i + 1) - 1 = i
    BY ONLY <2>3, n \in Nat, i \in 0..n
  <2>5. off[i] < off[i + 1] /\ off[i] \in Nat /\ off[i + 1] \in Nat /\ off[i + 1] \in cuts
    BY ONLY <1>6, <1>8, <2>4
  <2>6. b <= off[i + 1]
    BY ONLY <1>12, <2>2, <2>5
  <2>7. b = off[i + 1]
    <3>1. CASE b = off[n] + 1
      <4>1. off[i + 1] <= off[n]
        BY ONLY <1>5, <2>1, <2>4
      <4> QED BY ONLY <2>1, <2>5, <2>6, <3>1, <4>1
    <3>2. CASE \E k \in 0..n : b = off[k]
      <4>1. PICK k \in 0..n : b = off[k]
        BY ONLY <3>2
      <4>2. ~(k <= i)
        BY ONLY <1>5, <2>1, <2>2, <4>1
      <4>3. i + 1 <= k
        BY ONLY <4>2, n \in Nat, i \in 0..n, k \in 0..n
      <4>4. off[i + 1] <= off[k]
        BY ONLY <1>5, <2>4, <4>1, <4>3
      <4> QED BY ONLY <2>1, <2>5, <2>6, <4>1, <4>4
    <3> QED BY ONLY <1>8, <1>12, <3>1, <3>2
  <2> QED BY ONLY <2>2, <2>4, <2>7
<1> DEFINE at == [k \in 1..n |-> off[k - 1]]
<1>13. at \in [1..n -> Nat] /\ \A k \in 1..n : at[k] = off[k - 1]
  BY <1>6
<1>14. ASSUME NEW i \in 1..n, NEW k \in 1..n, i # k
       PROVE  at[i] # at[k]
  <2>1. i <= k - 1 \/ k <= i - 1
    BY <1>14
  <2> QED BY ONLY <1>5, <1>6, <1>13, <2>1
<1> HIDE DEF at
<1>15. ASSUME NEW k \in 1..n
       PROVE  <<at[k], line[k]>> \in Held(text)
  <2>1. Stripped(line[k]) = line[k] /\ line[k] # <<>>
    BY StrippedIs, <1>0, <1>1 DEF Trim
  <2>2. <<at[k], line[k]>> \in Lines(text)
    <3>1. Next2(off[k - 1], off[k]) /\ <<at[k], line[k]>> = <<off[k - 1], Stripped(SubSeq(text, off[k - 1] + 1, off[k] - 1))>>
      BY ONLY <1>11, <1>13, <2>1
    <3> QED BY ONLY <1>9, <3>1
  <2>3. <<at[k], line[k]>>[2] = line[k]
    OBVIOUS
  <2> QED BY ONLY <2>1, <2>2, <2>3 DEF Held
<1>16. ASSUME NEW l \in Held(text)
       PROVE  \E k \in 1..n : l = <<at[k], line[k]>>
  <2>1. l \in Lines(text) /\ l[2] # <<>>
    BY ONLY <1>16 DEF Held
  <2>2. PICK a, b : Next2(a, b) /\ l = <<a, Stripped(SubSeq(text, a + 1, b - 1))>>
    BY ONLY <1>9, <2>1
  <2>3. Stripped(SubSeq(text, a + 1, b - 1)) # <<>>
    BY ONLY <2>1, <2>2
  <2>4. PICK k \in 1..n : a = off[k - 1] /\ b = off[k]
    BY ONLY <1>12, <2>2, <2>3
  <2>5. SubSeq(text, a + 1, b - 1) = line[k] /\ a = at[k]
    BY ONLY <1>11, <1>13, <2>4
  <2>6. Stripped(line[k]) = line[k]
    BY StrippedIs, <1>0, <1>1
  <2> QED BY ONLY <2>2, <2>5, <2>6
<1> QED BY <1>13, <1>14, <1>15, <1>16 DEF TextOf, CutAt, text, s

(* A line of the file: two stamps, the verdict, and the note behind a tab.        *)
Rest(v, w)       == v \o (IF w = <<>> THEN <<>> ELSE <<"tab">> \o w)
Line(s, e, v, w) == <<s, "tab", e, "tab">> \o Rest(v, w)
NoTab(u)         == \A i \in 1..Len(u) : u[i] # "tab"

LEMMA RestIs ==
    ASSUME NEW X, "tab" \in X,
           NEW v \in Seq(X), Trim(v), NoBreak(v), NoTab(v),
           NEW w \in Seq(X), w = <<>> \/ Trim(w), NoBreak(w)
    PROVE  /\ Rest(v, w) \in Seq(X) /\ Trim(Rest(v, w)) /\ NoBreak(Rest(v, w))
           /\ LET tab == SelectInSeq(Rest(v, w), LAMBDA p : p = "tab")
              IN  (IF tab = 0 THEN Rest(v, w) ELSE SubSeq(Rest(v, w), 1, tab - 1)) = v
<1> DEFINE z == Rest(v, w)
           I == {i \in 1..Len(z) : z[i] = "tab"}
           tab == IF I # {} THEN Min(I) ELSE 0
<1>0. Len(v) \in Nat \ {0} /\ Len(w) \in Nat /\ 1 \in 1..Len(v) /\ Len(v) \in 1..Len(v)
  BY DEF Trim
<1>1. SelectInSeq(z, LAMBDA p : p = "tab") = tab
  BY DEF SelectInSeq
<1>2. CASE w = <<>>
  <2>1. z = v
    BY <1>2, ConcatEmptySeq DEF Rest
  <2>2. I = {}
    BY <2>1 DEF NoTab
  <2>3. tab = 0
    BY ONLY <2>2
  <2> HIDE DEF z, I, tab
  <2> QED BY <1>1, <2>1, <2>3 DEF z
<1>3. CASE w # <<>>
  <2>1. PICK t \in Seq(X) : t = <<"tab">> /\ Len(t) = 1 /\ t[1] = "tab"
    <3>1. \A x \in X : <<x>> \in Seq(X) /\ Len(<<x>>) = 1 /\ <<x>>[1] = x
      OBVIOUS
    <3> QED BY ONLY <3>1, "tab" \in X
  <2>2. PICK q \in Seq(X) : q = t \o w
    BY ONLY <2>1, ConcatProperties, w \in Seq(X)
  <2>3. /\ Len(q) = 1 + Len(w) /\ q[1] = "tab" /\ \A j \in 1..Len(w) : q[1 + j] = w[j]
    <3>1. /\ Len(t \o w) = Len(t) + Len(w)
          /\ \A i \in 1..Len(t) : (t \o w)[i] = t[i]
          /\ \A j \in 1..Len(w) : (t \o w)[Len(t) + j] = w[j]
      BY ONLY CatIs, w \in Seq(X)
    <3> QED BY ONLY <2>1, <2>2, <3>1
  <2>4. z = v \o q
    BY <1>3, <2>1, <2>2 DEF Rest
  <2>5. /\ v \o q \in Seq(X) /\ Len(v \o q) = Len(v) + Len(q)
        /\ \A i \in 1..Len(v) : (v \o q)[i] = v[i]
        /\ \A j \in 1..Len(q) : (v \o q)[Len(v) + j] = q[j]
    BY ONLY CatIs, v \in Seq(X)
  <2> HIDE DEF z
  <2>6. /\ z \in Seq(X) /\ Len(z) = Len(v) + 1 + Len(w)
        /\ \A i \in 1..Len(v) : z[i] = v[i]
        /\ z[Len(v) + 1] = "tab"
        /\ \A j \in 1..Len(w) : z[Len(v) + 1 + j] = w[j]
    <3>1. z \in Seq(X) /\ Len(z) = Len(v) + 1 + Len(w) /\ \A i \in 1..Len(v) : z[i] = v[i]
      BY ONLY <1>0, <2>3, <2>4, <2>5
    <3>2. 1 \in 1..Len(q) /\ \A j \in 1..Len(w) : 1 + j \in 1..Len(q) /\ Len(v) + (1 + j) = Len(v) + 1 + j
      BY ONLY <1>0, <2>3
    <3>3. z[Len(v) + 1] = "tab" /\ \A j \in 1..Len(w) : z[Len(v) + (1 + j)] = w[j]
      BY ONLY <2>3, <2>4, <2>5, <3>2
    <3> QED BY ONLY <3>1, <3>2, <3>3
  <2>7. \A i \in 1..Len(z) : \/ i \in 1..Len(v) \/ i = Len(v) + 1
                             \/ \E j \in 1..Len(w) : i = Len(v) + 1 + j
    <3> SUFFICES ASSUME NEW i \in 1..Len(z), ~(i \in 1..Len(v)), i # Len(v) + 1
                 PROVE  \E j \in 1..Len(w) : i = Len(v) + 1 + j
      OBVIOUS
    <3>1. i - Len(v) - 1 \in 1..Len(w) /\ i = Len(v) + 1 + (i - Len(v) - 1)
      BY ONLY <1>0, <2>6, i \in 1..Len(z), ~(i \in 1..Len(v)), i # Len(v) + 1
    <3> QED BY ONLY <3>1
  <2>8. Trim(z)
    <3>1. 1 \in 1..Len(v) /\ Len(w) \in 1..Len(w) /\ z # <<>>
      BY <1>0, <1>3, <2>6
    <3>2. z[1] = v[1] /\ z[Len(z)] = w[Len(w)]
      BY ONLY <1>0, <2>6, <3>1
    <3> QED BY <1>3, <3>1, <3>2 DEF Trim
  <2>9. NoBreak(z)
    <3>1. "tab" \notin LineEnd
      BY DEF LineEnd
    <3> QED BY <2>6, <2>7, <3>1 DEF NoBreak
  <2>10. tab = Len(v) + 1
    <3>1. Len(v) + 1 \in I
      BY <1>0, <2>6
    <3>2. \A i \in I : i \in Nat /\ i >= 1 /\ ~(i \in 1..Len(v))
      <4>1. \A i \in 1..Len(v) : z[i] # "tab"
        BY ONLY <2>6, NoTab(v) DEF NoTab
      <4>2. \A i \in I : z[i] = "tab" /\ i \in Nat /\ i >= 1
        OBVIOUS
      <4> QED BY ONLY <4>1, <4>2
    <3>3. I \in SUBSET Nat /\ I # {}
      BY <3>1, <3>2
    <3> HIDE DEF I
    <3>4. Min(I) \in I /\ \A k \in I : Min(I) <= k
      BY ONLY <3>3, MinIs
    <3>5. Min(I) = Len(v) + 1
      BY ONLY <1>0, <3>1, <3>2, <3>4
    <3> QED BY <3>3, <3>5
  <2>11. SubSeq(z, 1, Len(v)) = v
    <3>1. Len(z) \in Nat /\ 1 \in 1..(Len(z) + 1) /\ Len(v) \in (1 - 1)..Len(z) /\ Len(v) - 1 + 1 = Len(v)
      BY ONLY <1>0, <2>6
    <3>2. /\ SubSeq(z, 1, Len(v)) \in Seq(X) /\ Len(SubSeq(z, 1, Len(v))) = Len(v)
          /\ \A i \in 1..Len(v) : SubSeq(z, 1, Len(v))[i] = z[1 + i - 1]
      <4>1. /\ SubSeq(z, 1, Len(v)) \in Seq(X) /\ Len(SubSeq(z, 1, Len(v))) = Len(v) - 1 + 1
            /\ \A i \in 1..(Len(v) - 1 + 1) : SubSeq(z, 1, Len(v))[i] = z[1 + i - 1]
        BY ONLY <2>6, <3>1, SubSeqIs
      <4> QED BY ONLY <3>1, <4>1
    <3>3. \A i \in 1..Len(v) : 1 + i - 1 = i
      BY ONLY <1>0
    <3>4. \A i \in 1..Len(v) : SubSeq(z, 1, Len(v))[i] = v[i]
      BY ONLY <2>6, <3>2, <3>3
    <3> QED BY ONLY <3>2, <3>4, SameSequence, v \in Seq(X)
  <2>12. tab # 0 /\ tab - 1 = Len(v)
    BY ONLY <1>0, <2>10
  <2> HIDE DEF tab, I
  <2> QED BY <1>1, <2>6, <2>8, <2>9, <2>11, <2>12 DEF z
<1> QED BY <1>2, <1>3

LEMMA FourPieces ==
    ASSUME NEW X, NEW a \in X, NEW b \in X, NEW c \in X, NEW d \in X
    PROVE  /\ <<a, b, c, d>> \in Seq(X) /\ Len(<<a, b, c, d>>) = 4
           /\ <<a, b, c, d>>[1] = a /\ <<a, b, c, d>>[2] = b
           /\ <<a, b, c, d>>[3] = c /\ <<a, b, c, d>>[4] = d
OBVIOUS

LEMMA LineIs ==
    ASSUME NEW X, "tab" \in X, NEW s \in Stamp, NEW e \in Stamp, Stamp \subseteq X,
           Stamp \intersect Space = {},
           NEW v \in Seq(X), Trim(v), NoBreak(v), NoTab(v),
           NEW w \in Seq(X), w = <<>> \/ Trim(w), NoBreak(w)
    PROVE  /\ Line(s, e, v, w) \in Seq(X) /\ Trim(Line(s, e, v, w)) /\ NoBreak(Line(s, e, v, w))
           /\ Understood(Line(s, e, v, w)) /\ Expected(Line(s, e, v, w)) = v
           /\ Line(s, e, v, w)[1] = s /\ Line(s, e, v, w)[3] = e
<1>1. PICK z \in Seq(X) : z = Rest(v, w) /\ Trim(z) /\ NoBreak(z)
  BY RestIs
<1>2. Stripped(v) = v
  BY StrippedIs
<1>3. (IF SelectInSeq(z, LAMBDA p : p = "tab") = 0 THEN z
       ELSE SubSeq(z, 1, SelectInSeq(z, LAMBDA p : p = "tab") - 1)) = v
  BY <1>1, RestIs
<1>4. PICK h \in Seq(X) : /\ h = <<s, "tab", e, "tab">> /\ Len(h) = 4
                          /\ h[1] = s /\ h[2] = "tab" /\ h[3] = e /\ h[4] = "tab"
  <2>2. s \in X /\ e \in X
    OBVIOUS
  <2> DEFINE h == <<s, "tab", e, "tab">>
  <2>3. /\ h \in Seq(X) /\ Len(h) = 4
        /\ h[1] = s /\ h[2] = "tab" /\ h[3] = e /\ h[4] = "tab"
    BY ONLY <2>2, "tab" \in X, FourPieces
  <2> WITNESS h \in Seq(X)
  <2> QED BY ONLY <2>3
<1>5. PICK u \in Seq(X) : u = Line(s, e, v, w) /\ u = h \o z
  <2>1. h \o z \in Seq(X) /\ Line(s, e, v, w) = h \o z
    BY <1>1, <1>4, ConcatProperties DEF Line
  <2> QED BY ONLY <2>1
<1>6. /\ Len(u) = 4 + Len(z) /\ u[1] = s /\ u[2] = "tab" /\ u[3] = e /\ u[4] = "tab"
      /\ \A j \in 1..Len(z) : u[4 + j] = z[j]
  <2>1. /\ Len(h \o z) = Len(h) + Len(z)
        /\ \A i \in 1..Len(h) : (h \o z)[i] = h[i]
        /\ \A j \in 1..Len(z) : (h \o z)[Len(h) + j] = z[j]
    BY ONLY CatIs
  <2>2. 1 \in 1..Len(h) /\ 2 \in 1..Len(h) /\ 3 \in 1..Len(h) /\ 4 \in 1..Len(h)
    BY ONLY <1>4
  <2> QED BY ONLY <1>4, <1>5, <2>1, <2>2
<1>7. Len(z) \in Nat \ {0} /\ Len(z) \in 1..Len(z) /\ Len(u) \in Nat
  BY <1>1 DEF Trim
<1>8. s \notin Space /\ e \notin Space /\ LineEnd \subseteq Space /\ "tab" \notin LineEnd
  BY DEF Space, LineEnd
<1>9. Trim(u)
  <2>1. u # <<>> /\ u[Len(u)] = z[Len(z)]
    BY <1>6, <1>7
  <2> QED BY <1>1, <1>6, <1>8, <2>1 DEF Trim
<1>10. NoBreak(u)
  <2> SUFFICES ASSUME NEW i \in 1..Len(u)
               PROVE  u[i] \notin LineEnd
    BY DEF NoBreak
  <2>1. i \in {1, 2, 3, 4} \/ \E j \in 1..Len(z) : i = 4 + j
    <3> SUFFICES ASSUME i \notin {1, 2, 3, 4}
                 PROVE  \E j \in 1..Len(z) : i = 4 + j
      OBVIOUS
    <3>1. i - 4 \in 1..Len(z) /\ i = 4 + (i - 4)
      BY ONLY <1>6, <1>7, i \in 1..Len(u), i \notin {1, 2, 3, 4}
    <3> QED BY ONLY <3>1
  <2>2. \A j \in 1..Len(z) : u[4 + j] \notin LineEnd
    BY ONLY <1>1, <1>6 DEF NoBreak
  <2> QED BY ONLY <1>6, <1>8, <2>1, <2>2
<1>11. Understood(u)
  BY <1>6, <1>7 DEF Understood
<1>12. SubSeq(u, 5, Len(u)) = z
  <2>1. 5 \in 1..(Len(u) + 1) /\ Len(u) \in (5 - 1)..Len(u) /\ Len(u) - 5 + 1 = Len(z)
    BY ONLY <1>6, <1>7
  <2>2. /\ SubSeq(u, 5, Len(u)) \in Seq(X) /\ Len(SubSeq(u, 5, Len(u))) = Len(u) - 5 + 1
        /\ \A i \in 1..(Len(u) - 5 + 1) : SubSeq(u, 5, Len(u))[i] = u[5 + i - 1]
    BY ONLY <2>1, SubSeqIs
  <2>3. \A i \in 1..Len(z) : 5 + i - 1 = 4 + i
    BY ONLY <1>7
  <2>4. Len(SubSeq(u, 5, Len(u))) = Len(z)
        /\ \A i \in 1..Len(SubSeq(u, 5, Len(u))) : SubSeq(u, 5, Len(u))[i] = z[i]
    BY ONLY <1>6, <2>1, <2>2, <2>3
  <2> QED BY ONLY <2>2, <2>4, SameSequence, z \in Seq(X)
<1>13. Expected(u) = v
  BY ONLY <1>2, <1>3, <1>12 DEF Expected
<1> QED BY <1>5, <1>6, <1>9, <1>10, <1>11, <1>13

LEMMA SetToSeqIs ==
    ASSUME NEW S, IsFiniteSet(S)
    PROVE  LET q == SetToSeq(S)
               n == Cardinality(S)
           IN  /\ n \in Nat /\ q \in [1..n -> S]
               /\ \A i, k \in 1..n : q[i] = q[k] => i = k
               /\ \A x \in S : \E k \in 1..n : q[k] = x
<1> DEFINE n == Cardinality(S)
           q == SetToSeq(S)
<1>1. n \in Nat /\ Bijection(1..n, S) # {}
  BY FS_CardinalityType DEF ExistsBijection
<1>2. \E f \in [1..n -> S] : IsInjective(f)
  BY <1>1 DEF Bijection, Injection
<1>3. q \in [1..n -> S] /\ IsInjective(q)
  BY <1>2 DEF SetToSeq
<1> HIDE DEF q
<1>4. q \in Injection(1..n, S)
  BY <1>3 DEF Injection
<1>5. Cardinality(1..n) = n
  BY <1>1, FS_Interval
<1>6. q \in Surjection(1..n, S)
  <2> HIDE DEF n
  <2> QED BY <1>4, <1>5, FS_Injection DEF n
<1> QED BY <1>1, <1>3, <1>6 DEF Surjection, IsInjective, q

(* As many as they are images of, one each.                                    *)
LEMMA AsMany ==
    ASSUME NEW K, IsFiniteSet(K), NEW f, NEW T,
           \A y : y \in T <=> \E k \in K : y = f[k],
           \A i, k \in K : f[i] = f[k] => i = k
    PROVE  IsFiniteSet(T) /\ Cardinality(T) = Cardinality(K)
<1> DEFINE g == [k \in K |-> f[k]]
<1>1. g \in [K -> T] /\ (\A i, k \in K : g[i] = g[k] => i = k) /\ \A y \in T : \E k \in K : g[k] = y
  OBVIOUS
<1>2. DOMAIN g = K
  OBVIOUS
<1> HIDE DEF g
<1>3. g \in Bijection(K, T)
  BY ONLY <1>1, <1>2 DEF Bijection, Injection, Surjection, IsInjective
<1> QED BY ONLY <1>3, FS_Bijection, IsFiniteSet(K) DEF ExistsBijection
-----------------------------------------------------------------------------
(* The pieces a line of the file is made of.                                   *)
Piece == Stamp \union {"sp", "nl", "tab"} \union UNION {ToSet(t) : t \in Truth \union Note}

(* A verdict and a note as they are stored: trimmed, the verdict on one line.     *)
Entered(c) ==
    /\ c.truth \in Seq(Piece) /\ (c.truth = <<>> \/ Trim(c.truth))
    /\ \A i \in 1..Len(c.truth) : c.truth[i] # "nl"
    /\ c.note \in Seq(Piece) /\ (c.note = <<>> \/ Trim(c.note))

LabelInv ==
    /\ IsFiniteSet(DOMAIN comments)
    /\ \A id \in DOMAIN archive : archive[id] \in Rec /\ archive[id].id = id
    /\ \A id \in DOMAIN comments : Entered(comments[id])

LEMMA SanitisedIs ==
    ASSUME NEW t \in Seq(Piece), t = <<>> \/ Trim(t)
    PROVE  /\ SanitiseNewlines(t) \in Seq(Piece) /\ Len(SanitiseNewlines(t)) = Len(t)
           /\ SanitiseNewlines(t) = <<>> \/ Trim(SanitiseNewlines(t))
           /\ SanitiseNewlines(t) = <<>> <=> t = <<>>
           /\ \A i \in 1..Len(t) : SanitiseNewlines(t)[i] = IF t[i] = "nl" THEN "sp" ELSE t[i]
           /\ (\A i \in 1..Len(t) : t[i] # "nl") => SanitiseNewlines(t) = t
<1> DEFINE u == SanitiseNewlines(t)
<1>1. u = [i \in 1..Len(t) |-> IF t[i] = "nl" THEN "sp" ELSE t[i]]
  BY DEF SanitiseNewlines, ReplaceAll
<1>2. Len(t) \in Nat /\ "sp" \in Piece /\ "nl" \in Space
  BY DEF Piece, Space
<1> HIDE DEF u
<1>3. /\ u \in Seq(Piece) /\ Len(u) = Len(t)
      /\ \A i \in 1..Len(t) : u[i] = IF t[i] = "nl" THEN "sp" ELSE t[i]
  BY <1>1, <1>2
<1>4. u = <<>> <=> t = <<>>
  BY <1>3
<1>5. ASSUME Trim(t)
      PROVE  Trim(u)
  <2>1. 1 \in 1..Len(t) /\ Len(t) \in 1..Len(t) /\ t # <<>> /\ t[1] \notin Space /\ t[Len(t)] \notin Space
    BY <1>2, <1>5 DEF Trim
  <2>2. u[1] = t[1] /\ u[Len(u)] = t[Len(t)]
    BY <1>2, <1>3, <2>1
  <2> QED BY <1>4, <2>1, <2>2 DEF Trim
<1>6. ASSUME \A i \in 1..Len(t) : t[i] # "nl"
      PROVE  u = t
  <2>1. \A i \in 1..Len(u) : u[i] = t[i]
    BY <1>3, <1>6
  <2> QED BY ONLY <1>3, <2>1, SameSequence, t \in Seq(Piece)
<1> QED BY <1>3, <1>4, <1>5, <1>6 DEF u

LEMMA TypedIs ==
    ASSUME NEW t \in Truth \union Note
    PROVE  t \in Seq(Piece)
<1>1. t \in Seq(ToSet(t)) /\ ToSet(t) \subseteq Piece
  BY LabelAssumption DEF Piece
<1> HIDE DEF Piece
<1>2. \A i \in 1..Len(t) : t[i] \in ToSet(t)
  BY <1>1
<1> QED BY <1>1, <1>2

LEMMA LabelInvInit == LabelInit => LabelInv
<1> SUFFICES ASSUME LabelInit
             PROVE  LabelInv
  OBVIOUS
<1>1. DOMAIN archive = {} /\ DOMAIN comments = {}
  BY DEF LabelInit
<1> QED BY <1>1, FS_EmptySet DEF LabelInv

(* What is inserted is a record under its own id.                              *)
LEMMA InsertIs ==
    ASSUME LabelInv, NEW records \in Seq(Rec), archive' = InsertAll(archive, records)
    PROVE  \A id \in DOMAIN archive' : archive'[id] \in Rec /\ archive'[id].id = id
<1> DEFINE I(id) == {i \in 1..Len(records) : records[i].id = id}
           at(id) == IF I(id) # {} THEN Min(I(id)) ELSE 0
           D == DOMAIN archive \union {r.id : r \in ToSet(records)}
<1>0. \A j \in 1..Len(records) : records[j] \in Rec
  OBVIOUS
<1>1. archive' = [id \in D |-> IF id \in DOMAIN archive THEN archive[id] ELSE records[at(id)]]
  BY DEF InsertAll, SelectInSeq
<1>2. ASSUME NEW id \in D, id \notin DOMAIN archive
      PROVE  records[at(id)] \in Rec /\ records[at(id)].id = id
  <2>1. PICK i \in 1..Len(records) : records[i].id = id
    BY <1>2 DEF ToSet
  <2>2. I(id) \in SUBSET Nat /\ I(id) # {}
    BY <2>1
  <2> DEFINE S == I(id)
  <2>3. S \in SUBSET (1..Len(records)) /\ \A j \in S : records[j].id = id
    OBVIOUS
  <2>4. at(id) = Min(S)
    BY <2>2
  <2> HIDE DEF S
  <2>5. Min(S) \in S
    <3>1. S \in SUBSET Nat /\ S # {}
      BY <2>2 DEF S
    <3> QED BY ONLY <3>1, MinIs
  <2> HIDE DEF at, I
  <2>6. records[Min(S)] \in Rec
    BY ONLY <1>0, <2>3, <2>5
  <2> QED BY ONLY <2>3, <2>4, <2>5, <2>6
<1> HIDE DEF at, D
<1>3. ASSUME NEW id \in DOMAIN archive'
      PROVE  archive'[id] \in Rec /\ archive'[id].id = id
  <2>1. id \in D /\ archive'[id] = IF id \in DOMAIN archive THEN archive[id] ELSE records[at(id)]
    BY <1>1, <1>3
  <2> QED BY <1>2, <2>1 DEF LabelInv
<1> QED BY <1>3

LEMMA LabelInvStep == LabelInv /\ [LabelNext]_labelVars => LabelInv'
<1> SUFFICES ASSUME LabelInv, [LabelNext]_labelVars
             PROVE  LabelInv'
  OBVIOUS
<1>1. ASSUME NEW r \in Rec, Archived(r)
      PROVE  LabelInv'
  <2>1. <<r>> \in Seq(Rec) /\ archive' = InsertAll(archive, <<r>>) /\ comments' = comments
    BY <1>1 DEF Archived
  <2>2. \A id \in DOMAIN archive' : archive'[id] \in Rec /\ archive'[id].id = id
    BY <2>1, InsertIs
  <2> QED BY <2>1, <2>2 DEF LabelInv
<1>2. ASSUME NEW f \in File, NEW g \in File, ImportFiles(<<f, g>>)
      PROVE  LabelInv'
  <2>1. comments' = comments
    BY <1>2 DEF ImportFiles
  <2>2. PICK files \in Seq(Seq(Rec)) : files = <<f, g>> /\ Len(files) = 2
    <3>1. f \in Seq(Rec) /\ g \in Seq(Rec)
      BY LabelAssumption
    <3>2. \A x, y \in Seq(Rec) : <<x, y>> \in Seq(Seq(Rec)) /\ Len(<<x, y>>) = 2
      OBVIOUS
    <3> QED BY ONLY <3>1, <3>2
  <2>3. PICK read \in 0..2 : archive' = InsertAll(archive, FlattenSeq(SubSeq(files, 1, read)))
    BY <1>2, <2>2 DEF ImportFiles
  <2>4. SubSeq(files, 1, read) \in Seq(Seq(Rec))
    <3>1. 1 \in 1..(Len(files) + 1) /\ read \in (1 - 1)..Len(files)
      BY <2>2
    <3> QED BY ONLY <2>2, <3>1, SubSeqIs
  <2>5. FlattenSeq(SubSeq(files, 1, read)) \in Seq(Rec)
    BY ONLY <2>4, FlattenIsASequence
  <2>6. \A id \in DOMAIN archive' : archive'[id] \in Rec /\ archive'[id].id = id
    BY <2>3, <2>5, InsertIs
  <2> QED BY <2>1, <2>6 DEF LabelInv
<1>3. ASSUME NEW id \in Ids, NEW truth \in Truth, NEW note \in Note, Upsert(id, truth, note)
      PROVE  LabelInv'
  <2> DEFINE t == SanitiseNewlines(Stripped(truth))
             n == Stripped(note)
             c == [truth |-> t, note |-> n]
             D == IF t = <<>> /\ n = <<>> THEN DOMAIN comments \ {id} ELSE DOMAIN comments \union {id}
  <2>1. archive' = archive /\ comments' = [i \in D |-> IF i = id THEN c ELSE comments[i]]
    BY <1>3 DEF Upsert
  <2>2. Entered(c)
    <3>1. truth \in Seq(Piece) /\ note \in Seq(Piece)
      BY TypedIs
    <3>2. Stripped(truth) \in Seq(Piece) /\ (Stripped(truth) = <<>> \/ Trim(Stripped(truth)))
          /\ n \in Seq(Piece) /\ (n = <<>> \/ Trim(n))
      BY <3>1, StrippedIs
    <3> DEFINE u == Stripped(truth)
    <3>3. /\ t \in Seq(Piece) /\ Len(t) = Len(u) /\ (t = <<>> \/ Trim(t))
          /\ \A i \in 1..Len(u) : t[i] = IF u[i] = "nl" THEN "sp" ELSE u[i]
      BY <3>2, SanitisedIs
    <3>4. \A i \in 1..Len(t) : t[i] # "nl"
      BY <3>3
    <3>5. c.truth = t /\ c.note = n
      OBVIOUS
    <3> HIDE DEF t, n, c
    <3> QED BY <3>2, <3>3, <3>4, <3>5 DEF Entered
  <2>3. IsFiniteSet(D)
    BY FS_AddElement, FS_RemoveElement DEF LabelInv
  <2> HIDE DEF c, D
  <2>4. DOMAIN comments' = D /\ \A i \in D : comments'[i] = IF i = id THEN c ELSE comments[i]
    BY <2>1
  <2>5. \A i \in D : i = id \/ i \in DOMAIN comments
    BY DEF D
  <2>6. \A i \in DOMAIN comments' : Entered(comments'[i])
    BY <2>2, <2>4, <2>5 DEF LabelInv
  <2> QED BY <2>1, <2>3, <2>4, <2>6 DEF LabelInv
<1>4. CASE UNCHANGED labelVars
  BY <1>4 DEF labelVars, LabelInv
<1> QED BY <1>1, <1>2, <1>3, <1>4 DEF LabelNext

LEMMA ReviewedLineIs ==
    ASSUME LabelInv, NEW day, NEW id \in Reviewed(day), Typed(id)
    PROVE  /\ LineOf(id) \in Seq(Piece) /\ Trim(LineOf(id)) /\ NoBreak(LineOf(id))
           /\ Understood(LineOf(id)) /\ Expected(LineOf(id)) = comments[id].truth
           /\ LineOf(id)[1] = archive[id].start /\ LineOf(id)[3] = archive[id].end
<1>1. PICK r \in Rec : r = archive[id] /\ r.start \in Stamp /\ r.end \in Stamp
  BY LabelAssumption DEF Reviewed, LabelInv
<1>2. PICK c : c = comments[id] /\ Entered(c) /\ c.truth # <<>>
  BY DEF Reviewed, LabelInv
<1>3. PICK v \in Seq(Piece) : v = c.truth /\ Trim(v) /\ \A i \in 1..Len(v) : v[i] # "nl"
  BY <1>2 DEF Entered
<1>4. PICK n \in Seq(Piece) : n = c.note /\ (n = <<>> \/ Trim(n))
  BY <1>2 DEF Entered
<1>5. /\ \A i \in 1..Len(v) : v[i] # "sep" /\ v[i] # "tab"
      /\ \A i \in 1..Len(n) : n[i] # "sep"
  <2>1. v \o n \in Seq(Piece) /\ Len(v \o n) = Len(v) + Len(n)
        /\ (\A i \in 1..Len(v) : (v \o n)[i] = v[i])
        /\ \A j \in 1..Len(n) : (v \o n)[Len(v) + j] = n[j]
    BY ONLY CatIs, ConcatProperties, v \in Seq(Piece), n \in Seq(Piece)
  <2>2. "sep" \notin ToSet(v \o n) /\ "tab" \notin ToSet(v)
    BY <1>2, <1>3, <1>4 DEF Typed
  <2>3. \A i \in 1..Len(v) : i \in 1..Len(v \o n)
    BY ONLY <2>1, v \in Seq(Piece), n \in Seq(Piece)
  <2>4. \A j \in 1..Len(n) : Len(v) + j \in 1..Len(v \o n)
    BY ONLY <2>1, v \in Seq(Piece), n \in Seq(Piece)
  <2>5. DOMAIN (v \o n) = 1..Len(v \o n) /\ DOMAIN v = 1..Len(v)
    BY ONLY <2>1, v \in Seq(Piece)
  <2>6. \A i \in 1..Len(v \o n) : (v \o n)[i] # "sep"
    BY ONLY <2>2, <2>5 DEF ToSet
  <2>7. \A i \in 1..Len(v) : v[i] # "tab"
    BY ONLY <2>2, <2>5 DEF ToSet
  <2> QED BY ONLY <2>1, <2>3, <2>4, <2>6, <2>7
<1>6. SanitiseNewlines(v) = v
  BY <1>3, SanitisedIs
<1>7. PICK w \in Seq(Piece) : /\ w = SanitiseNewlines(n) /\ Len(w) = Len(n) /\ (w = <<>> \/ Trim(w))
                              /\ (w = <<>> <=> n = <<>>)
                              /\ \A i \in 1..Len(n) : w[i] = IF n[i] = "nl" THEN "sp" ELSE n[i]
  BY <1>4, SanitisedIs
<1>8. NoBreak(v) /\ NoTab(v) /\ NoBreak(w)
  BY <1>3, <1>5, <1>7 DEF NoBreak, NoTab, LineEnd
<1>9. "tab" \in Piece /\ Stamp \subseteq Piece /\ Stamp \intersect Space = {}
  BY LabelAssumption DEF Piece
<1> HIDE DEF Piece
<1>10. LineOf(id) = Line(r.start, r.end, v, w)
  <2> DEFINE h == <<r.start, "tab", r.end, "tab">>
             m == IF w = <<>> THEN <<>> ELSE <<"tab">> \o w
  <2>1. LineOf(id) = (h \o v) \o m
    BY <1>1, <1>2, <1>3, <1>4, <1>6, <1>7 DEF LineOf
  <2>2. h \in Seq(Piece) /\ m \in Seq(Piece)
    <3>1. <<"tab">> \in Seq(Piece) /\ <<>> \in Seq(Piece)
      BY <1>9
    <3>2. <<"tab">> \o w \in Seq(Piece)
      BY ONLY <3>1, ConcatProperties, w \in Seq(Piece)
    <3>3. r.start \in Piece /\ r.end \in Piece
      BY <1>1, <1>9
    <3>4. h \in Seq(Piece)
      BY ONLY <1>9, <3>3, FourPieces
    <3> QED BY ONLY <3>1, <3>2, <3>4
  <2> HIDE DEF h, m
  <2>3. (h \o v) \o m = h \o (v \o m)
    BY ONLY <2>2, ConcatAssociative, v \in Seq(Piece)
  <2> QED BY ONLY <2>1, <2>3 DEF Line, Rest, h, m
<1>11. LET u == Line(r.start, r.end, v, w)
       IN  /\ u \in Seq(Piece) /\ Trim(u) /\ NoBreak(u) /\ Understood(u) /\ Expected(u) = v
           /\ u[1] = r.start /\ u[3] = r.end
  BY ONLY <1>1, <1>3, <1>7, <1>8, <1>9, LineIs
<1> QED BY ONLY <1>1, <1>2, <1>3, <1>10, <1>11

(* What is read from the file of a day: the line of each reviewed conversation.    *)
LEMMA FileRead ==
    ASSUME LabelInv, NEW day, \A id \in Reviewed(day) : Typed(id)
    PROVE  \E at \in [Reviewed(day) -> Nat] :
              /\ \A i, k \in Reviewed(day) : at[i] = at[k] => i = k
              /\ \A l : l \in Held(LabelsText(day))
                        <=> \E id \in Reviewed(day) : l = <<at[id], LineOf(id)>>
<1> DEFINE R == Reviewed(day)
           n == Cardinality(R)
           q == SetToSeq(R)
           line == [k \in 1..n |-> LineOf(q[k])]
<1>1. IsFiniteSet(R)
  <2>1. R \subseteq DOMAIN comments /\ IsFiniteSet(DOMAIN comments)
    BY DEF Reviewed, LabelInv
  <2> QED BY <2>1, FS_Subset
<1>2. /\ n \in Nat /\ q \in [1..n -> R]
      /\ \A i, k \in 1..n : q[i] = q[k] => i = k
      /\ \A x \in R : \E k \in 1..n : q[k] = x
  BY ONLY <1>1, SetToSeqIs
<1>3. LabelsText(day) = FlattenSeq([k \in 1..n |-> LineOf(q[k]) \o <<"nl">>])
  BY DEF LabelsText
<1>4. LabelsText(day) = TextOf(n, line)
  <2>1. [k \in 1..n |-> LineOf(q[k]) \o <<"nl">>] = [k \in 1..n |-> line[k] \o <<"nl">>]
    OBVIOUS
  <2> QED BY ONLY <1>3, <2>1 DEF TextOf
<1>5. \A id \in R : LineOf(id) \in Seq(Piece) /\ Trim(LineOf(id)) /\ NoBreak(LineOf(id))
  BY ReviewedLineIs
<1>6. \A k \in 1..n : line[k] = LineOf(q[k])
  OBVIOUS
<1>7. "nl" \in Piece
  BY DEF Piece
<1> HIDE DEF n, q, line, R, Piece
<1>8. Proper(n, line, Piece)
  BY ONLY <1>2, <1>5, <1>6 DEF Proper
<1>9. PICK at : CutAt(at, n, line)
  <2>1. n \in Nat
    BY ONLY <1>2
  <2> QED BY ONLY <1>7, <1>8, <2>1, CutIntoLines
<1> DEFINE of == [id \in R |-> CHOOSE k \in 1..n : q[k] = id]
           place == [id \in R |-> at[of[id]]]
<1>10. of \in [R -> 1..n] /\ (\A id \in R : q[of[id]] = id) /\ \A k \in 1..n : q[k] \in R /\ of[q[k]] = k
  BY <1>2
<1> HIDE DEF of
<1>15. /\ at \in [1..n -> Nat]
       /\ \A i, k \in 1..n : i # k => at[i] # at[k]
       /\ \A l : l \in Held(LabelsText(day)) <=> \E k \in 1..n : l = <<at[k], line[k]>>
  BY ONLY <1>4, <1>9 DEF CutAt
<1>11. place \in [R -> Nat] /\ \A id \in R : place[id] = at[of[id]]
  BY <1>10, <1>15
<1> HIDE DEF place
<1>12. \A i, k \in R : place[i] = place[k] => i = k
  BY ONLY <1>15, <1>10, <1>11
<1>13. \A l : (\E k \in 1..n : l = <<at[k], line[k]>>) <=> \E id \in R : l = <<place[id], LineOf(id)>>
  <2>1. ASSUME NEW l, NEW k \in 1..n, l = <<at[k], line[k]>>
        PROVE  \E id \in R : l = <<place[id], LineOf(id)>>
    <3>1. q[k] \in R /\ place[q[k]] = at[k] /\ line[k] = LineOf(q[k])
      BY ONLY <1>6, <1>10, <1>11, k \in 1..n
    <3> QED BY ONLY <2>1, <3>1
  <2>2. ASSUME NEW l, NEW id \in R, l = <<place[id], LineOf(id)>>
        PROVE  \E k \in 1..n : l = <<at[k], line[k]>>
    <3>1. of[id] \in 1..n /\ at[of[id]] = place[id] /\ line[of[id]] = LineOf(id)
      BY ONLY <1>6, <1>10, <1>11, id \in R
    <3> QED BY ONLY <2>2, <3>1
  <2> QED BY ONLY <2>1, <2>2
<1>14. \A l : l \in Held(LabelsText(day)) <=> \E id \in R : l = <<place[id], LineOf(id)>>
  BY ONLY <1>15, <1>13
<1> QED BY ONLY <1>11, <1>12, <1>14 DEF R

(* A turn keeps its time when its day is put together again from the start's.      *)
LEMMA SameDay ==
    ASSUME NEW d \in Nat \ {0}, NEW s \in Nat, NEW t \in Nat, t \div d = s \div d
    PROVE  d * (s \div d) + (t % d) = t
<1>1. d * (t \div d) + (t % d) = t
  OBVIOUS
<1> QED BY <1>1

LEMMA Between ==
    ASSUME NEW a \in Nat, NEW b \in Nat, NEW k \in a..b
    PROVE  k \in Nat /\ a <= k /\ k <= b
OBVIOUS

(* The label of a conversation judges all its turns.                           *)
LEMMA OwnTurnsJudged ==
    ASSUME LabelInv, NEW id \in DOMAIN comments \intersect DOMAIN archive, archive[id].end # "",
           archive[id].channel = ScoredChannel, WithinADay(archive[id])
    PROVE  Judged(id)
<1>1. PICK r \in Rec : r = archive[id] /\ r.id = id
  BY DEF LabelInv
<1>2. /\ TimeOf[r.start] \in Nat /\ TimeOf[r.end] \in Nat /\ DayLength \in Nat \ {0}
      /\ r.turns \subseteq TimeOf[r.start]..TimeOf[r.end]
  BY <1>1, LabelAssumption
<1> DEFINE own == OwnLabel(id)
<1>3. own.start = r.start /\ own.end = r.end
  BY <1>1 DEF OwnLabel
<1>4. Outcome(own, r) \in Agreed(id)
  BY <1>1 DEF Outcome, Agreed
<1> HIDE DEF own
<1>5. ASSUME NEW t \in r.turns
      PROVE  \E turn \in TurnsScored(own, {archive[i] : i \in DOMAIN archive}) :
                turn.of = id /\ turn.at = t /\ turn.outcome \in Agreed(id)
  <2>1. t \in Nat /\ TimeOf[r.start] <= t /\ t <= TimeOf[r.end]
    <3>1. TimeOf[r.start] \in Nat /\ TimeOf[r.end] \in Nat
      BY ONLY <1>2
    <3>2. t \in TimeOf[r.start]..TimeOf[r.end]
      BY ONLY <1>2, <1>5
    <3> QED BY ONLY <3>1, <3>2, Between
  <2>2. t \div DayLength = TimeOf[r.start] \div DayLength
    BY <1>1 DEF WithinADay
  <2>3. DayLength * (TimeOf[r.start] \div DayLength) + (t % DayLength) = t
    BY ONLY <1>2, <2>1, <2>2, SameDay
  <2>4. t \in TurnTimes(r)
    BY ONLY <1>5, <2>3 DEF TurnTimes
  <2> DEFINE turn == [of |-> r.id, at |-> t, outcome |-> Outcome(own, r)]
  <2>5. turn \in TurnsScored(own, {archive[i] : i \in DOMAIN archive})
    <3>1. r \in {x \in {archive[i] : i \in DOMAIN archive} : x.channel = ScoredChannel}
      BY <1>1
    <3>2. t \in {tt \in TurnTimes(r) : TimeOf[own.start] <= tt /\ tt <= TimeOf[own.end]}
      BY ONLY <1>3, <2>1, <2>4
    <3> QED BY ONLY <3>1, <3>2 DEF TurnsScored
  <2> WITNESS turn \in TurnsScored(own, {archive[i] : i \in DOMAIN archive})
  <2> QED BY ONLY <1>1, <1>4
<1>6. \A t \in archive[id].turns :
         \E turn \in TurnsScored(OwnLabel(id), {archive[i] : i \in DOMAIN archive}) :
             turn.of = id /\ turn.at = t /\ turn.outcome \in Agreed(id)
  BY ONLY <1>1, <1>5 DEF own
<1> QED BY ONLY <1>6 DEF Judged

(* The label a conversation gives on a line that begins after a.                 *)
LabelFor(a, id) == [at |-> a, start |-> archive[id].start, end |-> archive[id].end,
                    mmsi |-> Resolved(comments[id].truth)]

Scored(day) == {id \in Reviewed(day) : Cardinality(Resolved(comments[id].truth)) = 1}

LEMMA ParsedIs ==
    ASSUME LabelInv, NEW day, \A id \in Reviewed(day) : Typed(id)
    PROVE  /\ ParseLabels(LabelsText(day)).raises
              <=> \E id \in Reviewed(day) : Resolved(comments[id].truth) = {}
           /\ \E at \in [Reviewed(day) -> Nat] :
                 /\ \A i, k \in Reviewed(day) : at[i] = at[k] => i = k
                 /\ \A y : y \in ParseLabels(LabelsText(day)).labels
                           <=> \E id \in Scored(day) : y = LabelFor(at[id], id)
<1> DEFINE R == Reviewed(day)
           read == Held(LabelsText(day))
           label(l) == [at |-> l[1], start |-> l[2][1], end |-> l[2][3], mmsi |-> Resolved(Expected(l[2]))]
<1>1. PICK at \in [R -> Nat] :
        /\ \A i, k \in R : at[i] = at[k] => i = k
        /\ \A l : l \in read <=> \E id \in R : l = <<at[id], LineOf(id)>>
  BY FileRead
<1>2. \A id \in R : /\ Understood(LineOf(id)) /\ Expected(LineOf(id)) = comments[id].truth
                    /\ LineOf(id)[1] = archive[id].start /\ LineOf(id)[3] = archive[id].end
  BY ReviewedLineIs
<1>3. ParseLabels(LabelsText(day)).raises
      <=> \E l \in read : ~Understood(l[2]) \/ Resolved(Expected(l[2])) = {}
  BY DEF ParseLabels, Held
<1>4. ParseLabels(LabelsText(day)).labels
      = {label(l) : l \in {l \in read : Understood(l[2]) /\ Cardinality(Resolved(Expected(l[2]))) = 1}}
  BY DEF ParseLabels, Held
<1> HIDE DEF read
<1>5. \A l \in read : \E id \in R : l[1] = at[id] /\ l[2] = LineOf(id)
  BY ONLY <1>1
<1>6. \A id \in R : \E l \in read : l[1] = at[id] /\ l[2] = LineOf(id)
  <2> SUFFICES ASSUME NEW id \in R
               PROVE  \E l \in read : l[1] = at[id] /\ l[2] = LineOf(id)
    OBVIOUS
  <2> DEFINE l == <<at[id], LineOf(id)>>
  <2>1. l \in read
    BY ONLY <1>1, id \in R
  <2> WITNESS l \in read
  <2> QED OBVIOUS
<1>7. ParseLabels(LabelsText(day)).raises <=> \E id \in R : Resolved(comments[id].truth) = {}
  <2>1. ASSUME NEW l \in read, ~Understood(l[2]) \/ Resolved(Expected(l[2])) = {}
        PROVE  \E id \in R : Resolved(comments[id].truth) = {}
    <3>1. PICK id \in R : l[2] = LineOf(id)
      BY ONLY <1>5, l \in read
    <3> QED BY ONLY <1>2, <2>1, <3>1
  <2>2. ASSUME NEW id \in R, Resolved(comments[id].truth) = {}
        PROVE  \E l \in read : ~Understood(l[2]) \/ Resolved(Expected(l[2])) = {}
    <3>1. PICK l \in read : l[2] = LineOf(id)
      BY ONLY <1>6, id \in R
    <3> QED BY ONLY <1>2, <2>2, <3>1
  <2> QED BY ONLY <1>3, <2>1, <2>2
<1>8. \A l, id : id \in R /\ l[1] = at[id] /\ l[2] = LineOf(id) => label(l) = LabelFor(at[id], id)
  BY ONLY <1>2 DEF LabelFor
<1>9. ASSUME NEW y
      PROVE  y \in ParseLabels(LabelsText(day)).labels <=> \E id \in Scored(day) : y = LabelFor(at[id], id)
  <2> HIDE DEF label
  <2>1. ASSUME NEW l \in read, Understood(l[2]), Cardinality(Resolved(Expected(l[2]))) = 1, y = label(l)
        PROVE  \E id \in Scored(day) : y = LabelFor(at[id], id)
    <3>1. PICK id \in R : l[1] = at[id] /\ l[2] = LineOf(id)
      BY ONLY <1>5, l \in read
    <3>2. id \in Scored(day)
      BY ONLY <1>2, <2>1, <3>1 DEF Scored
    <3>3. y = LabelFor(at[id], id)
      BY ONLY <1>8, <2>1, <3>1
    <3> QED BY ONLY <3>2, <3>3
  <2>2. ASSUME NEW id \in Scored(day), y = LabelFor(at[id], id)
        PROVE  \E l \in read : /\ Understood(l[2]) /\ Cardinality(Resolved(Expected(l[2]))) = 1
                               /\ y = label(l)
    <3>1. id \in R /\ Cardinality(Resolved(comments[id].truth)) = 1
      BY ONLY <2>2 DEF Scored
    <3>2. PICK l \in read : l[1] = at[id] /\ l[2] = LineOf(id)
      BY ONLY <1>6, <3>1
    <3>3. Understood(l[2]) /\ Cardinality(Resolved(Expected(l[2]))) = 1 /\ y = label(l)
      BY ONLY <1>2, <1>8, <2>2, <3>1, <3>2
    <3> QED BY ONLY <3>3
  <2> QED BY ONLY <1>4, <2>1, <2>2
<1> QED BY ONLY <1>1, <1>7, <1>9

LEMMA AgreeOnIs ==
    ASSUME LabelInv, NEW day, \A id \in Reviewed(day) : Typed(id)
    PROVE  AgreeOn(day)
<1> DEFINE R == Reviewed(day)
           S == Scored(day)
           labels == ParseLabels(LabelsText(day)).labels
<1>1. ParseLabels(LabelsText(day)).raises <=> \E id \in R : Resolved(comments[id].truth) = {}
  BY ParsedIs
<1>2. PICK at \in [R -> Nat] :
        /\ \A i, k \in R : at[i] = at[k] => i = k
        /\ \A y : y \in labels <=> \E id \in S : y = LabelFor(at[id], id)
  BY ParsedIs
<1>3. S \subseteq R /\ IsFiniteSet(S)
  <2>1. S \subseteq R /\ S \subseteq DOMAIN comments /\ IsFiniteSet(DOMAIN comments)
    BY DEF Scored, Reviewed, LabelInv
  <2> QED BY ONLY <2>1, FS_Subset
<1> HIDE DEF S, R, labels
<1>4. {[start |-> l.start, end |-> l.end, mmsi |-> l.mmsi] : l \in labels}
      = {[start |-> archive[id].start, end |-> archive[id].end, mmsi |-> Resolved(comments[id].truth)] : id \in S}
  <2>1. \A id : LET l == LabelFor(at[id], id)
                IN  /\ l.start = archive[id].start /\ l.end = archive[id].end
                    /\ l.mmsi = Resolved(comments[id].truth)
    BY DEF LabelFor
  <2> QED BY ONLY <1>2, <2>1
<1>5. Cardinality(labels) = Cardinality(S)
  <2> DEFINE f == [id \in S |-> LabelFor(at[id], id)]
  <2>1. \A id \in S : f[id] = LabelFor(at[id], id)
    OBVIOUS
  <2>2. \A i, k \in S : LabelFor(at[i], i) = LabelFor(at[k], k) => at[i] = at[k]
    BY DEF LabelFor
  <2> HIDE DEF f
  <2>3. \A y : y \in labels <=> \E id \in S : y = f[id]
    BY ONLY <1>2, <2>1
  <2>4. \A i, k \in S : f[i] = f[k] => i = k
    BY ONLY <1>2, <1>3, <2>1, <2>2
  <2> QED BY ONLY <1>3, <2>3, <2>4, AsMany
<1>6. \A id \in S : archive[id].channel = ScoredChannel /\ WithinADay(archive[id]) => Judged(id)
  <2>1. \A id \in S : id \in DOMAIN comments \intersect DOMAIN archive /\ archive[id].end # ""
    BY DEF S, Scored, Reviewed
  <2> QED BY <2>1, OwnTurnsJudged
<1>7. S = {id \in R : Cardinality(Resolved(comments[id].truth)) = 1}
  BY DEF S, R, Scored
<1> QED BY ONLY <1>1, <1>4, <1>5, <1>6, <1>7 DEF AgreeOn, R, labels

(* The verdicts the operator gave come back from their file: what is exported and   *)
(* read again names the same conversations, times and ships (AgreeOn).          *)
THEOREM LabelsAgreeAlways == LabelSpec => []LabelsAgree
<1>1. LabelInit => LabelInv
  BY LabelInvInit
<1>2. LabelInv /\ [LabelNext]_labelVars => LabelInv'
  BY LabelInvStep
<1>3. LabelInv => LabelsAgree
  BY AgreeOnIs DEF LabelsAgree
<1> QED BY <1>1, <1>2, <1>3, PTL DEF LabelSpec
=============================================================================
