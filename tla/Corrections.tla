------------------------------- MODULE Corrections -------------------------------
(***************************************************************************)
(* stt_proxy/corrections.py: what is read out of a transmission's text, by   *)
(* pure functions.  A text is a sequence of words, a callsign a sequence of  *)
(* characters, and the tables of the code are constants.                     *)
(***************************************************************************)
EXTENDS Integers, Sequences, FiniteSets, SequencesExt

CONSTANTS
    Phonetic, Digit,     \* _PHONETIC_LETTERS, _SPOKEN_DIGITS: word to character
    Literal,             \* the words that are characters already ("8", "9hf5093"),
                         \* to the sequence of their characters
    Stopline,            \* _HALLUCINATION_EXACT
    PromptWords, GenericWords, PROMPT_ECHO_MIN_WORDS,
    Pair, Respelt,       \* the substitutions of two words, and of one
    LooksLikeMaas,       \* the words close enough to "maas"
    ApproachNoun         \* the spellings of "approach", never the verb's "-ing"

Positions(t) == 1..Len(t)

(* _decode_spoken_word: the characters a word stands for, or none.             *)
Decoded(w) ==
    CASE w \in DOMAIN Phonetic -> <<Phonetic[w]>>
      [] w \in DOMAIN Digit    -> <<Digit[w]>>
      [] w \in DOMAIN Literal  -> Literal[w]
      [] OTHER                 -> <<>>

Speaks(w) == Decoded(w) # <<>>

(* The longest stretches of t that only have positions of S.                   *)
Stretches(t, S) ==
    {s \in Positions(t) \X Positions(t) :
        s[1] <= s[2] /\ s[1]..s[2] \subseteq S /\ s[1] - 1 \notin S /\ s[2] + 1 \notin S}

CharsOf(t, span) == FlattenSeq([k \in 1..(span[2] - span[1] + 1) |-> Decoded(t[span[1] + k - 1])])

SpelledOutRuns(t) == {CharsOf(t, s) : s \in Stretches(t, {i \in Positions(t) : Speaks(t[i])})}

AllDigits(run) == \A i \in DOMAIN run : \E w \in DOMAIN Digit : Digit[w] = run[i]

(* _phonetic_callsign_probes: runs that need no keyword, of three words or     *)
(* more, two of them phonetic letters.                                         *)
PhoneticProbes(t) ==
    LET Single(w) == \/ w \in DOMAIN Phonetic \union DOMAIN Digit
                     \/ w \in DOMAIN Literal /\ Len(Literal[w]) = 1
        Letters(s) == {i \in s[1]..s[2] : t[i] \in DOMAIN Phonetic}
    IN  {CharsOf(t, s) : s \in {s \in Stretches(t, {i \in Positions(t) : Single(t[i])}) :
                                   s[2] - s[1] >= 2 /\ Cardinality(Letters(s)) >= 2}}

(* _callsign_supported_by_text: written out, or within one spelled-out run.    *)
Within(c, s) == \E i \in 0..(Len(s) - Len(c)) : SubSeq(s, i + 1, i + Len(c)) = c

Squeezed(t) == FlattenSeq([i \in Positions(t) |-> IF t[i] \in DOMAIN Literal THEN Literal[t[i]]
                                                    ELSE <<t[i]>>])

Supported(c, t) ==
    Len(c) >= 3 /\ (Within(c, Squeezed(t)) \/ \E run \in SpelledOutRuns(t) : Within(c, run))

(* _partial_callsign_pattern: after the word "callsign", from the first        *)
(* character that is understood to the last, each word that is not stands for  *)
(* one character; at most two in a row, three known, seven in all.             *)
AnyChar == "."

PartialPattern(t) ==
    LET anchors == {i \in Positions(t) : t[i] = "callsign"}
        anchor  == CHOOSE i \in anchors : \A j \in anchors : i <= j
        known   == {i \in Positions(t) : i > anchor /\ Speaks(t[i])}
        first   == CHOOSE i \in known : \A j \in known : i <= j
        last    == CHOOSE i \in known : \A j \in known : i >= j
        garbled == (first..last) \ known
        pattern == FlattenSeq([k \in 1..(last - first + 1) |->
                       IF Speaks(t[first + k - 1]) THEN Decoded(t[first + k - 1]) ELSE <<AnyChar>>])
    IN  IF /\ anchors # {} /\ known # {} /\ garbled # {}
           /\ \A i \in garbled : ~({i + 1, i + 2} \subseteq garbled)
           /\ Len(pattern) <= 7 /\ Len(pattern) - Cardinality(garbled) >= 3
        THEN {pattern} ELSE {}
-----------------------------------------------------------------------------
(* The filters that keep a text from being used at all.                        *)

(* _is_hallucination: a stock phrase, nothing, or one phrase four times over.  *)
IsHallucination(t) ==
    \/ t = <<>> \/ t \in Stopline
    \/ \E k \in Positions(t) : /\ Len(t) % k = 0 /\ Len(t) \div k >= 4
                               /\ \A i \in Positions(t) : i > k => t[i] = t[i - k]

(* _is_prompt_echo: every word is the prompt's, and there are many, or one     *)
(* that this channel's traffic does not use.                                   *)
IsPromptEcho(t) ==
    /\ t # <<>> /\ \A i \in Positions(t) : t[i] \in PromptWords
    /\ \/ Len(t) >= PROMPT_ECHO_MIN_WORDS
       \/ \E i \in Positions(t) : t[i] \notin GenericWords

(* _apply_sttt_corrections, maritime: pairs and words first, then the station. *)
PairsJoined(t) ==
    LET Joins(i) == i < Len(t) /\ <<t[i], t[i + 1]>> \in DOMAIN Pair
    IN  FlattenSeq([i \in Positions(t) |->
            IF Joins(i) THEN <<Pair[<<t[i], t[i + 1]>>]>>
            ELSE IF i > 1 /\ Joins(i - 1) THEN <<>> ELSE <<t[i]>>])

WordsRespelt(t) ==
    [i \in Positions(t) |->
        IF /\ t[i] \in DOMAIN Respelt
           /\ ~(i < Len(t) /\ t[i] \in {"letter", "leather"} /\ t[i + 1] = "of")
        THEN Respelt[t[i]] ELSE t[i]]

(* The station before a mis-heard "approach", the noun; the same rule before   *)
(* "center" is left out, as no word of the vocabulary is one.                  *)
StationNamed(t) ==
    LET Calls(i) == i < Len(t) /\ t[i] \in LooksLikeMaas /\ t[i + 1] \in ApproachNoun
    IN  [i \in Positions(t) |-> IF Calls(i) THEN "maas"
                                ELSE IF i > 1 /\ Calls(i - 1) THEN "approach" ELSE t[i]]

Corrected(t) == StationNamed(WordsRespelt(PairsJoined(t)))
=============================================================================
