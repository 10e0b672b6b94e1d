------------------------------- MODULE MCIdentify -------------------------------
(* Two ships called Maria, the nearer without a word of its callsign on the    *)
(* air, and a third ship that a newcomer comes to share its name with.         *)
EXTENDS Identify

PB8K == <<"P", "B", "8", "K">>
NineHA4 == <<"9", "H", "A", "4">>
MARIA == <<"maria">>
MARIS == <<"maris">>
NORDIC_STAR == <<"nordic", "star">>

MCKnown == {[mmsi |-> 1, name |-> MARIA, callsign |-> PB8K],
            [mmsi |-> 2, name |-> MARIA, callsign |-> NineHA4],
            [mmsi |-> 3, name |-> NORDIC_STAR, callsign |-> None]}
MCReport == {[mmsi |-> 2, name |-> MARIS, callsign |-> None],
             [mmsi |-> 4, name |-> NORDIC_STAR, callsign |-> PB8K]}
MCKm == <<20, 5, 30, 10>>

MCSpeech == {<<"mass", "approach", "maria">>,
             <<"maria", "callsign", "papa", "bravo", "eight", "kilo">>,
             <<"this", "is", "nordic", "star">>,
             <<"maris", "callsign", "nine", "hotel", "xx", "four">>,
             <<"bravo", "eight", "kilo", "maris">>,
             <<"thank", "you">>, <<"motortanker", "neptune">>}
MCNamed == {MARIS, NORDIC_STAR}
MCClaimed == {PB8K}
MCPlaceholder == <<"null">>
MCCorpus == <<<<"maas", "approach">>, <<"maas", "nordic", "star">>>>
MCEdited(t) == [i \in DOMAIN t |-> IF t[i] = "maris" THEN "maria" ELSE t[i]]

MCPhonetic == [papa |-> "P", bravo |-> "B", kilo |-> "K", hotel |-> "H"]
MCDigit == [eight |-> "8", nine |-> "9", four |-> "4"]
MCLiteral == <<>>
MCStopline == {<<"thank", "you">>}
MCPromptWords == {"motortanker", "neptune", "maas", "approach"}
MCGenericWords == {"motortanker", "maas", "approach"}
MCPair == << >>
MCRespelt == [mass |-> "maas"]
MCLooksLikeMaas == {"maas", "mass"}
MCSubstantial == {"maria", "maris", "nordic", "star", "maas", "mass", "approach", "callsign",
                  "papa", "bravo", "eight", "kilo", "nine", "hotel", "four", "this"}
MCStopword == {"approach", "callsign", "papa", "bravo", "eight", "kilo", "nine", "hotel", "four",
               "this", "is"}

Scores == {<<MARIA, MARIS, 80>>, <<<<"maas">>, MARIA, 67>>, <<<<"maas">>, MARIS, 67>>,
           <<<<"nordic">>, NORDIC_STAR, 71>>}
MCRatio(a, b) ==
    IF a = b THEN 100
    ELSE LET s == {x \in Scores : {x[1], x[2]} = {a, b}}
         IN  IF s = {} THEN 0 ELSE (CHOOSE x \in s : TRUE)[3]
=============================================================================
