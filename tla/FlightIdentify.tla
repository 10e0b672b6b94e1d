----------------------------- MODULE FlightIdentify -----------------------------
(***************************************************************************)
(* stt_proxy/flight_identify.py: which aircraft in range a transmission on   *)
(* the airband names, while the poller replaces what is in range.  A text is *)
(* a sequence of words, a flight a sequence of characters, the tables of the *)
(* code are constants and a likeness of words is an entry of a table.        *)
(***************************************************************************)
EXTENDS Integers, Sequences, FiniteSets, SequencesExt

CONSTANTS
    Telephony,     \* AIRLINE_TELEPHONY: spoken word to the airline's code
    Resembles,     \* long words heard, to the telephony word they fuzzily match
    Phrases,       \* _TELEPHONY_PHRASES, in order: <<first, second, joined>>
    Glued,         \* one token such as "klm28", to its airline word and the rest
    SpokenChars,   \* the words _decode_spoken_word knows, to their characters
    Tens,          \* _SUPPLEMENTAL_DIGIT_WORDS
    Numeral,       \* tokens that are digits, to these
    BOUNDARY,      \* _DIGIT_RUN_BOUNDARY_WORDS
    CallsignWords, \* how many words after the airline's are looked at
    Letter, Figure,    \* characters
    QNH_PRESSURE,  \* the figures that can be a pressure
    Transmission,  \* the texts that may be heard
    Traffic,       \* what may be in range: hex to flight
    MaxReplaced       \* bound

(* Texts and tables are of words.                                              *)
ASSUME FlightAssumption ==
    /\ Transmission \subseteq Seq(STRING) /\ CallsignWords \in Nat
    /\ Phrases \in Seq(STRING \X STRING \X STRING)
    /\ \A w \in DOMAIN Glued : Glued[w] \in Seq(STRING)
    /\ \A r \in Traffic : IsFiniteSet(DOMAIN r)

VARIABLES
    range,      \* _aircraft_cache: hex to flight
    uttered,    \* the transmission
    stage,      \* where callsign_clue is: it looks into the cache up to twice
    candidate,  \* the designator extracted, <<>> when there is none
    clue,       \* the flight, <<>> when none is named
    looked,     \* history: what was in range when the clue was settled
    replaced

flightVars == <<range, uttered, stage, candidate, clue, looked, replaced>>

(* lowered.replace(phrase, joined), then _unglue_designators.                  *)
Joined(t, phrase) ==
    LET At(i) == i \in 1..(Len(t) - 1) /\ t[i] = phrase[1] /\ t[i + 1] = phrase[2]
    IN  FlattenSeq([i \in 1..Len(t) |-> IF At(i) THEN <<phrase[3]>>
                                         ELSE IF At(i - 1) THEN <<>> ELSE <<t[i]>>])

Words(text) ==
    LET after[n \in 0..Len(Phrases)] ==
            IF n = 0 THEN text ELSE Joined(after[n - 1], Phrases[n])
        t == after[Len(Phrases)]
    IN  FlattenSeq([i \in 1..Len(t) |-> IF t[i] \in DOMAIN Glued THEN Glued[t[i]] ELSE <<t[i]>>])

(* _find_airline_anchor: the code, <<>> when the word names no airline.        *)
Anchor(w) ==
    CASE w \in DOMAIN Telephony -> Telephony[w]
      [] w \in DOMAIN Resembles -> Telephony[Resembles[w]]
      [] OTHER                  -> <<>>

(* _decode_digit_word and a numeral as it stands: what word i contributes.     *)
Chars(t, i) ==
    CASE t[i] \in DOMAIN Numeral     -> Numeral[t[i]]
      [] t[i] \in DOMAIN SpokenChars -> SpokenChars[t[i]]
      [] t[i] \in DOMAIN Tens        -> Tens[t[i]]
      [] /\ t[i] = "for" /\ i < Len(t) /\ t[i + 1] \in DOMAIN SpokenChars -> <<"4">>
      [] OTHER -> <<>>

Usable(t, i) == Chars(t, i) # <<>> /\ ~(i < Len(t) /\ t[i + 1] \in BOUNDARY)

(* The characters after the airline word at i: of the words next to it that    *)
(* can be used without a gap, CallsignWords at most.                           *)
Reach(t, i) ==
    Cardinality({k \in 1..CallsignWords :
        i + k <= Len(t) /\ \A j \in (i + 1)..(i + k) : Usable(t, j)})

TailAfter(t, i) == FlattenSeq([k \in 1..Reach(t, i) |-> Chars(t, i + k)])

(* extract_callsign_candidate: the first airline word with something after it, *)
(* or that is itself the airline's code.                                       *)
Yields(t, i) ==
    /\ Anchor(t[i]) # <<>>
    /\ TailAfter(t, i) # <<>> \/ t[i] = "klm"

Extract(text) ==
    LET t == Words(text)
        anchors == {i \in 1..Len(t) : Yields(t, i)}
    IN  IF anchors = {} THEN <<>>
        ELSE LET i == CHOOSE i \in anchors : \A j \in anchors : i <= j
             IN  Anchor(t[i]) \o TailAfter(t, i)

(* _split_code_tail: two to four letters, and the rest.                        *)
CodeLength(f) ==
    Cardinality({i \in 1..Len(f) : i <= 4 /\ \A j \in 1..i : f[j] \in Letter})
CodeOf(f) == SubSeq(f, 1, CodeLength(f))
TailOfFlight(f) == SubSeq(f, CodeLength(f) + 1, Len(f))

(* fuzz.ratio of two codes reaches the threshold when they are equal, or three *)
(* letters and the same three with one more.                                   *)
OneMore(a, b) == Len(a) = 3 /\ Len(b) = 4 /\ \E i \in 1..4 : RemoveAt(b, i) = a
CodesAlike(a, b) == a = b \/ OneMore(a, b) \/ OneMore(b, a)

(* A mutant: match_flight as it was before, the number compared loosely too.   *)
AnyFlightOfIt(c, f) ==
    /\ CodeLength(c) >= 2 /\ CodeLength(f) >= 2
    /\ CodesAlike(CodeOf(c), CodeOf(f))
    /\ Len(TailOfFlight(c)) = Len(TailOfFlight(f))

FuzzilyMatches(c, f) ==
    /\ CodeLength(c) >= 2 /\ CodeLength(f) >= 2
    /\ TailOfFlight(c) = TailOfFlight(f)
    /\ CodesAlike(CodeOf(c), CodeOf(f))

FlightsIn(r) == {r[h] : h \in DOMAIN r}

(* _qnh_repair: the flights that "klm" in the place of a "qnh" would name, one *)
(* aircraft and no pressure.                                                   *)
Figures(f) == SelectSeq(SubSeq(f, 4, Len(f)), LAMBDA c : c \in Figure)

IsPressure(f) ==
    Len(Figures(f)) >= 3 /\ SubSeq(Figures(f), 1, IF Len(Figures(f)) < 4 THEN 3 ELSE 4) \in QNH_PRESSURE

Instead(text, i) == Extract(<<"klm">> \o SubSeq(text, i + 1, Len(text)))

Repairs(text, r) ==
    {i \in 1..Len(text) :
        LET f == Instead(text, i) IN
        /\ text[i] = "qnh" /\ SubSeq(f, 1, 3) = Telephony["klm"]
        /\ Figures(f) # <<>> /\ ~IsPressure(f)
        /\ Cardinality({h \in DOMAIN r : r[h] = f}) = 1}

FlightInit ==
    /\ range \in Traffic /\ uttered = <<>> /\ stage = "idle"
    /\ candidate = <<>> /\ clue = <<>> /\ looked = range /\ replaced = 0

(* adsb.poll_once: the cache is replaced whole under its lock (of interest     *)
(* only between two looks).                                                    *)
Replaced ==
    /\ stage \notin {"idle", "done"} /\ replaced < MaxReplaced
    /\ replaced' = replaced + 1
    /\ range' \in Traffic
    /\ UNCHANGED <<uttered, stage, candidate, clue, looked>>

Hears(text) ==
    /\ stage = "idle"
    /\ uttered' = text /\ candidate' = Extract(text)
    /\ stage' = IF candidate' = <<>> THEN "repairing" ELSE "exact"
    /\ UNCHANGED <<range, clue, looked, replaced>>

(* match_flight: a first look for the designator itself, a second, at what is  *)
(* in range by then, for one like it.                                          *)
MatchesExactly ==
    /\ stage = "exact"
    /\ IF candidate \in FlightsIn(range)
       THEN clue' = candidate /\ stage' = "done" /\ looked' = range
       ELSE stage' = "fuzzy" /\ UNCHANGED <<clue, looked>>
    /\ UNCHANGED <<range, uttered, candidate, replaced>>

MatchesFuzzily ==
    /\ stage = "fuzzy"
    /\ stage' = "done" /\ looked' = range
    /\ LET alike == {f \in FlightsIn(range) : FuzzilyMatches(candidate, f)}
       IN  IF candidate \in alike THEN clue' = candidate
           ELSE IF alike = {} THEN UNCHANGED clue ELSE clue' \in alike
    /\ UNCHANGED <<range, uttered, candidate, replaced>>

QnhRepair ==
    /\ stage = "repairing"
    /\ stage' = "done" /\ looked' = range
    /\ LET at == Repairs(uttered, range)
       IN  IF at = {} THEN UNCHANGED <<candidate, clue>>
           ELSE LET f == Instead(uttered, CHOOSE i \in at : \A j \in at : i <= j)
                IN  candidate' = f /\ clue' = f
    /\ UNCHANGED <<range, uttered, replaced>>

FlightNext ==
    \/ \E text \in Transmission : Hears(text)
    \/ MatchesExactly \/ MatchesFuzzily \/ QnhRepair \/ Replaced

FlightSpec == FlightInit /\ [][FlightNext]_flightVars

(***************************************************************************)
(* A flight is named only when it was in range and its number was spoken     *)
(* right after the name of an airline like its own, every character of it    *)
(* and none that an altitude took; or after a "QNH", as KLM's, when it can   *)
(* be no pressure and no other aircraft in range has it.  Numbers alone      *)
(* (headings, levels, wind) name nobody, and a poll in between changes       *)
(* nothing in that.                                                          *)
(***************************************************************************)
BelongsToNumber(t, i) ==
    Chars(t, i) # <<>> /\ (i = Len(t) \/ t[i + 1] \notin BOUNDARY)

SpokenNumber(t, i, n) ==
    /\ i + n <= Len(t) /\ \A k \in 1..n : BelongsToNumber(t, i + k)
    /\ n = CallsignWords \/ i + n = Len(t) \/ ~BelongsToNumber(t, i + n + 1)

SpokenDesignators(t) ==
    {Anchor(t[p[1]]) \o FlattenSeq([k \in 1..p[2] |-> Chars(t, p[1] + k)]) :
        p \in {p \in (1..Len(t)) \X (0..CallsignWords) :
                 Anchor(t[p[1]]) # <<>> /\ SpokenNumber(t, p[1], p[2])}}

SpokenOf(t, flight) ==
    \E d \in SpokenDesignators(t) :
        CodesAlike(CodeOf(d), CodeOf(flight)) /\ TailOfFlight(d) = TailOfFlight(flight)

ReadFromQnh(flight) ==
    /\ \E i \in 1..Len(uttered) :
          uttered[i] = "qnh" /\ flight \in SpokenDesignators(Words(<<"klm">> \o SubSeq(uttered, i + 1, Len(uttered))))
    /\ SubSeq(flight, 1, 3) = Telephony["klm"]
    /\ Figures(flight) # <<>> /\ ~IsPressure(flight)
    /\ \A h, g \in DOMAIN looked : looked[h] = flight /\ looked[g] = flight => h = g

FlightWasHeard ==
    clue # <<>> =>
        /\ clue \in FlightsIn(looked)
        /\ SpokenOf(Words(uttered), clue) \/ ReadFromQnh(clue)

(***************************************************************************)
(* Not so for a flight that is named: that its own number was spoken in full *)
(* (match_flight's docstring: the tail must match exactly).  A letter spoken *)
(* first after the airline is taken for a letter of the code, which may      *)
(* differ: "KLM november two" names KLM2.                                    *)
(***************************************************************************)
TailExactlySpoken ==
    clue # <<>> /\ candidate # clue =>
        LET t == Words(uttered)
        IN  \E i \in 1..Len(t) : Anchor(t[i]) # <<>> /\ TailOfFlight(clue) = TailAfter(t, i)
=============================================================================
