-------------------------------- MODULE Labels --------------------------------
(***************************************************************************)
(* The operator's verdicts on conversations: stored beside the archive       *)
(* (conversation_archive.py, /api/comments), exported as a text file         *)
(* (labels_text, /api/labels) and read back by bench_identify.parse_labels,  *)
(* which refuses a whole file for one line it does not understand, and whose *)
(* score judges the resolver by them, turn by turn.  A text is a sequence of *)
(* pieces: words, time stamps and what separates them.                       *)
(***************************************************************************)
EXTENDS Integers, Sequences, FiniteSets, SequencesExt

CONSTANTS
    Rec,          \* conversation records: [id, start, end, channel, mmsi, turns],
                  \* end "" when missing, mmsi "-" for none, the turns' real times
    File,         \* conversations.json files to import: sequences of records
    Day,          \* days that may be asked for: sets of time stamps
    Truth, Note,  \* what may be typed into the two fields
    Stamp,        \* the pieces that are time stamps
    TimeOf,       \* what they stand for
    DayLength,    \* of which a day is so long
    ScoredChannel,  \* Label.channel
    MmsiPiece,    \* the pieces that are numbers
    MmsisOf,      \* the ships the AIS cache has under a name
    MaxEdits      \* bound

(* What str.strip takes off, and where str.splitlines ends a line: "nl" stands *)
(* for \r and \n, "sep" for the other line boundaries (VT, FF, NEL, U+2028).   *)
Space    == {"sp", "tab", "nl", "sep"}
LineEnd  == {"nl", "sep"}

(* What a record has: stamps, and turns from the first one's time to the last  *)
(* one's, the order in which a transmission gets its number and its time.      *)
ASSUME LabelAssumption ==
    /\ \A t \in Truth \union Note : t \in Seq(ToSet(t))
    /\ \A f \in File : f \in Seq(Rec)
    /\ Stamp \intersect Space = {} /\ TimeOf \in [Stamp -> Nat] /\ DayLength \in Nat \ {0}
    /\ \A r \in Rec :
          /\ r.start \in Stamp /\ (r.end = "" \/ r.end \in Stamp)
          /\ r.end # "" => r.turns \subseteq TimeOf[r.start]..TimeOf[r.end]

VARIABLES
    archive,      \* conversations: id to the record first inserted
    comments,     \* comments: id to [truth, note], truth <<>> when there is none
    edits

labelVars == <<archive, comments, edits>>

Ids == {r.id : r \in Rec}

Stripped(t) ==
    LET first == SelectInSeq(t, LAMBDA p : p \notin Space)
        last  == SelectLastInSeq(t, LAMBDA p : p \notin Space)
    IN  IF first = 0 THEN <<>> ELSE SubSeq(t, first, last)

SanitiseNewlines(t) == ReplaceAll(t, "nl", "sp")

(* insert_conversation: what is archived stays as it was first.                *)
InsertAll(arch, records) ==
    LET firstOf(id) == records[SelectInSeq(records, LAMBDA r : r.id = id)]
    IN  [id \in DOMAIN arch \union {r.id : r \in ToSet(records)} |->
            IF id \in DOMAIN arch THEN arch[id] ELSE firstOf(id)]

LabelInit == archive = [id \in {} |-> 0] /\ comments = [id \in {} |-> 0] /\ edits = 0

Edit == edits < MaxEdits /\ edits' = edits + 1

Archived(r) ==
    /\ Edit /\ archive' = InsertAll(archive, <<r>>) /\ UNCHANGED comments

(* import_files: one file after the other, each committed before the next is   *)
(* read; one that is no list raises and keeps what came before it.             *)
ImportFiles(files) ==
    /\ Edit
    /\ \E read \in 0..Len(files) : archive' = InsertAll(archive, FlattenSeq(SubSeq(files, 1, read)))
    /\ UNCHANGED comments

(* upsert_comment, for any conversation the page shows, archived or not.       *)
Upsert(id, truth, note) ==
    LET t == SanitiseNewlines(Stripped(truth))
        n == Stripped(note)
    IN  /\ Edit
        /\ comments' = [i \in (IF t = <<>> /\ n = <<>> THEN DOMAIN comments \ {id}
                               ELSE DOMAIN comments \union {id}) |->
                           IF i = id THEN [truth |-> t, note |-> n] ELSE comments[i]]
        /\ UNCHANGED archive

(* labels_text.                                                                *)
Reviewed(day) ==
    {id \in DOMAIN comments \intersect DOMAIN archive :
        /\ comments[id].truth # <<>> /\ archive[id].end # "" /\ archive[id].start \in day}

(* A mutant: notes with the line breaks they were typed with.                  *)
LineAsEntered(id) ==
    <<archive[id].start, "tab", archive[id].end, "tab">> \o comments[id].truth
        \o (IF comments[id].note = <<>> THEN <<>> ELSE <<"tab">> \o comments[id].note)

LineOf(id) ==
    <<archive[id].start, "tab", archive[id].end, "tab">> \o SanitiseNewlines(comments[id].truth)
        \o (IF comments[id].note = <<>> THEN <<>> ELSE <<"tab">> \o SanitiseNewlines(comments[id].note))

LabelsText(day) == FlattenSeq([i \in 1..Cardinality(Reviewed(day)) |->
                                  LineOf(SetToSeq(Reviewed(day))[i]) \o <<"nl">>])

(* parse_labels: a line is two stamps and the rest, which ends with a tab and  *)
(* the note; a label keeps the position of its line.                           *)
Lines(text) ==
    LET cuts == {0, Len(text) + 1} \union {i \in 1..Len(text) : text[i] \in LineEnd}
    IN  {<<p[1], Stripped(SubSeq(text, p[1] + 1, p[2] - 1))>> :
            p \in {p \in cuts \X cuts : p[1] < p[2] /\ \A c \in cuts : c <= p[1] \/ p[2] <= c}}

Understood(line) ==
    /\ Len(line) >= 5 /\ line[1] \in Stamp /\ line[3] \in Stamp
    /\ line[2] \in {"sp", "tab"} /\ line[4] \in {"sp", "tab"}

Expected(line) ==
    LET rest == SubSeq(line, 5, Len(line))
        tab  == SelectInSeq(rest, LAMBDA p : p = "tab")
    IN  Stripped(IF tab = 0 THEN rest ELSE SubSeq(rest, 1, tab - 1))

(* _resolve_expected: the ship, none for "-", or a name of no ship or several. *)
Resolved(verdict) ==
    CASE verdict \in {<<"-">>, <<>>} -> {"-"}
      [] Len(verdict) = 1 /\ verdict[1] \in MmsiPiece -> {verdict[1]}
      [] verdict \in DOMAIN MmsisOf -> MmsisOf[verdict]
      [] OTHER -> {}

ParseLabels(text) ==
    LET read == {l \in Lines(text) : l[2] # <<>>}
    IN  [raises |-> \E l \in read : ~Understood(l[2]) \/ Resolved(Expected(l[2])) = {},
         labels |-> {[at |-> l[1], start |-> l[2][1], end |-> l[2][3], mmsi |-> Resolved(Expected(l[2]))] :
                        l \in {l \in read : Understood(l[2])
                                            /\ Cardinality(Resolved(Expected(l[2]))) = 1}}]

(* _turn_times: a turn keeps the time of day only, the day is the start's.     *)
TurnTimes(exchange) ==
    {DayLength * (TimeOf[exchange.start] \div DayLength) + (t % DayLength) : t \in exchange.turns}

(* score: every turn within the label's times, whichever exchange it is in.    *)
Outcome(label, exchange) ==
    CASE exchange.mmsi = label.mmsi /\ label.mmsi = "-" -> "correct_null"
      [] exchange.mmsi = label.mmsi /\ label.mmsi # "-" -> "correct"
      [] exchange.mmsi = "-" /\ label.mmsi # "-"        -> "missed"
      [] OTHER -> "wrong"

TurnsScored(label, exchanges) ==
    UNION {{[of |-> x.id, at |-> t, outcome |-> Outcome(label, x)] :
                t \in {t \in TurnTimes(x) : TimeOf[label.start] <= t /\ t <= TimeOf[label.end]}} :
           x \in {x \in exchanges : x.channel = ScoredChannel}}

LabelNext ==
    \/ \E r \in Rec : Archived(r)
    \/ \E f, g \in File : ImportFiles(<<f, g>>)
    \/ \E id \in Ids, t \in Truth, n \in Note : Upsert(id, t, n)

LabelSpec == LabelInit /\ [][LabelNext]_labelVars

(***************************************************************************)
(* The two ends of the file agree: it is read back unless a verdict names no *)
(* ship, and every reviewed conversation that was archived with an end gives *)
(* one label, with the times of the archive and the ship of the verdict;     *)
(* only a name two ships have gives none.  The label then judges every turn  *)
(* of its own conversation, by that verdict: on the channel that is scored,  *)
(* and up to midnight.  Notes may have any line breaks a text box can send.  *)
(* Typed as the form sends it: no other line boundary, and no tab in the     *)
(* verdict (LabelsAlwaysAgree is without these conditions, and does not      *)
(* hold; nor does EveryTurnJudged).                                          *)
(***************************************************************************)
OwnLabel(id) ==
    [start |-> archive[id].start, end |-> archive[id].end,
     mmsi |-> CHOOSE m \in Resolved(comments[id].truth) : TRUE]

Agreed(id) == IF archive[id].mmsi = OwnLabel(id).mmsi THEN {"correct", "correct_null"}
              ELSE {"wrong", "missed"}

Judged(id) ==
    \A t \in archive[id].turns :
        \E turn \in TurnsScored(OwnLabel(id), {archive[i] : i \in DOMAIN archive}) :
            turn.of = id /\ turn.at = t /\ turn.outcome \in Agreed(id)

WithinADay(r) == \A t \in r.turns : t \div DayLength = TimeOf[r.start] \div DayLength

AgreeOn(day) ==
    LET result   == ParseLabels(LabelsText(day))
        verdict(id) == Resolved(comments[id].truth)
        scored   == {id \in Reviewed(day) : Cardinality(verdict(id)) = 1}
    IN  IF \E id \in Reviewed(day) : verdict(id) = {} THEN result.raises
        ELSE /\ ~result.raises
             /\ {[start |-> l.start, end |-> l.end, mmsi |-> l.mmsi] : l \in result.labels}
                = {[start |-> archive[id].start, end |-> archive[id].end, mmsi |-> verdict(id)] : id \in scored}
             /\ Cardinality(result.labels) = Cardinality(scored)
             /\ \A id \in scored :
                   archive[id].channel = ScoredChannel /\ WithinADay(archive[id]) => Judged(id)

Typed(id) == "sep" \notin ToSet(comments[id].truth \o comments[id].note)
             /\ "tab" \notin ToSet(comments[id].truth)

LabelsAgree ==
    \A day \in Day : (\A id \in Reviewed(day) : Typed(id)) => AgreeOn(day)

LabelsAlwaysAgree == \A day \in Day : AgreeOn(day)

EveryTurnJudged ==
    \A id \in DOMAIN comments \intersect DOMAIN archive :
        archive[id].end # "" /\ Cardinality(Resolved(comments[id].truth)) = 1 => Judged(id)
=============================================================================
