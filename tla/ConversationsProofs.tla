--------------------------- MODULE ConversationsProofs ---------------------------
(***************************************************************************)
(* Conversations.tla for every value of its constants: its types, that a    *)
(* transmission has one home, that it implements Ledger.tla, that the       *)
(* archive covers the rolling store, that no two rows share one, and where   *)
(* talk is cut.                                                             *)
(***************************************************************************)
EXTENDS Conversations, LeastElement, FiniteSetTheorems, TLAPS

(* What the reaper holds at each of its steps: why OneHome is inductive.     *)
Handover ==
    /\ {} \notin batch
    /\ pc \in {"down", "load", "rearchive"} => journal = {}
    /\ pc \in {"down", "load", "rearchive", "idle", "take"} => batch = {}
    /\ pc \notin {"resolve", "store"} => window = {}
    /\ pc = "resolve" => window # {}
    /\ pc = "store" => Promise!SharesOut(Turns(exchanges), window)

IInv == TypeOK /\ OneHome /\ Handover

-----------------------------------------------------------------------------
(* The rows of a reply are what its exchanges claim, and what none claims.   *)
LEMMA ValidateTurns ==
    ASSUME NEW W, NEW n \in Nat, NEW reply \in [1..n -> SUBSET (W \union {0})]
    PROVE  Turns(ValidateExchanges(reply, W)) =
             {Claimed(reply, W, i) : i \in {j \in 1..n : Claimed(reply, W, j) # {}}}
             \union IF Unclaimed(reply, W) = {} THEN {} ELSE {Unclaimed(reply, W)}
<1> DEFINE C == Turns(ValidateExchanges(reply, W))
           claims == {Claimed(reply, W, i) : i \in {j \in 1..n : Claimed(reply, W, j) # {}}}
           rest == IF Unclaimed(reply, W) = {} THEN {} ELSE {Unclaimed(reply, W)}
           claimRows == {[at |-> RowsUpTo(reply, W, i), turns |-> Claimed(reply, W, i)] :
                           i \in {j \in 1..n : Claimed(reply, W, j) # {}}}
           restRow == [at |-> RowsUpTo(reply, W, Cardinality(1..n)) + 1,
                       turns |-> Unclaimed(reply, W)]
           restRows == IF Unclaimed(reply, W) = {} THEN {} ELSE {restRow}
<1>1. ValidateExchanges(reply, W) = claimRows \union restRows
  BY DEF ValidateExchanges
<1>2. ASSUME NEW r \in claimRows
      PROVE  r.turns \in claims
  <2>1. PICK i \in {j \in 1..n : Claimed(reply, W, j) # {}} :
          r = [at |-> RowsUpTo(reply, W, i), turns |-> Claimed(reply, W, i)]
    BY <1>2
  <2> QED BY <2>1
<1>3. ASSUME NEW t \in claims
      PROVE  \E r \in claimRows : r.turns = t
  <2>1. PICK i \in {j \in 1..n : Claimed(reply, W, j) # {}} : t = Claimed(reply, W, i)
    BY <1>3
  <2>2. [at |-> RowsUpTo(reply, W, i), turns |-> t] \in claimRows
    BY <2>1
  <2> QED BY <2>2
<1>4. \A r \in restRows : r.turns \in rest
  OBVIOUS
<1>5. ASSUME NEW t \in rest
      PROVE  \E r \in restRows : r.turns = t
  BY <1>5
<1>6. C = {r.turns : r \in claimRows \union restRows}
  BY <1>1 DEF Turns
<1> HIDE DEF C, claimRows, restRows, claims, rest
<1>7. C = claims \union rest
  BY <1>2, <1>3, <1>4, <1>5, <1>6
<1> QED BY <1>7 DEF C, claims, rest

(* _validate_exchanges accounts for every transmission of the window once,   *)
(* whatever the reply.                                                       *)
LEMMA ValidateSharesOut ==
    ASSUME NEW W, NEW n \in Nat, NEW reply \in [1..n -> SUBSET (W \union {0})]
    PROVE  Promise!SharesOut(Turns(ValidateExchanges(reply, W)), W)
<1> DEFINE C == Turns(ValidateExchanges(reply, W))
           claims == {Claimed(reply, W, i) : i \in {j \in 1..n : Claimed(reply, W, j) # {}}}
           rest == IF Unclaimed(reply, W) = {} THEN {} ELSE {Unclaimed(reply, W)}
<1>1. C = claims \union rest
  BY ValidateTurns
<1>2. ASSUME NEW i \in 1..n, NEW j \in 1..n, i # j
      PROVE  Claimed(reply, W, i) \intersect Claimed(reply, W, j) = {}
  <2>1. CASE i < j
    BY <2>1 DEF Claimed
  <2>2. CASE j < i
    BY <2>2 DEF Claimed
  <2> QED BY <2>1, <2>2, <1>2
<1>3. ASSUME NEW i \in 1..n
      PROVE  Claimed(reply, W, i) \subseteq W /\ Claimed(reply, W, i) \intersect Unclaimed(reply, W) = {}
  BY DEF Claimed, Unclaimed
<1>4. \A a, b \in C : a # b => a \intersect b = {}
  BY <1>1, <1>2, <1>3
<1>5. {} \notin C
  BY <1>1
<1>6. UNION C \subseteq W
  BY <1>1, <1>3 DEF Unclaimed
<1>7. ASSUME NEW c \in W
      PROVE  c \in UNION C
  <2>1. CASE c \in Unclaimed(reply, W)
    BY <2>1, <1>1
  <2>2. CASE \E i \in 1..n : c \in reply[i]
    <3> DEFINE named == {i \in 1..n : c \in reply[i]}
    <3>1. named \subseteq Nat /\ named # {}
      BY <2>2
    <3>2. PICK i \in named : \A j \in named : i <= j
      BY <3>1, LeastNat
    <3>3. c \in Claimed(reply, W, i)
      BY <3>2 DEF Claimed
    <3> QED BY <3>2, <3>3, <1>1
  <2> QED BY <2>1, <2>2 DEF Unclaimed
<1> QED BY <1>4, <1>5, <1>6, <1>7 DEF Promise!SharesOut

(* The rows a reply makes are rows of recorded transmissions.                *)
LEMMA ValidateRows ==
    ASSUME window \subseteq 1..Len(log), NEW n \in Nat,
           NEW reply \in [1..n -> SUBSET (window \union {0})]
    PROVE  ValidateExchanges(reply, window) \subseteq Rows
<1>1. ASSUME NEW i \in Nat
      PROVE  RowsUpTo(reply, window, i) \in Nat
  <2>1. IsFiniteSet(1..i)
    BY FS_Interval
  <2>2. {j \in 1..i : Claimed(reply, window, j) # {}} \in SUBSET (1..i)
    OBVIOUS
  <2>3. IsFiniteSet({j \in 1..i : Claimed(reply, window, j) # {}})
    BY <2>1, <2>2, FS_Subset
  <2> QED BY <2>3, FS_CardinalityType DEF RowsUpTo
<1>2. Cardinality(DOMAIN reply) = n
  BY FS_Interval
<1>3. ASSUME NEW i \in 1..n, Claimed(reply, window, i) # {}
      PROVE  [at |-> RowsUpTo(reply, window, i), turns |-> Claimed(reply, window, i)] \in Rows
  <2>1. Claimed(reply, window, i) \in (SUBSET (1..Len(log))) \ {{}}
    BY <1>3 DEF Claimed
  <2>2. RowsUpTo(reply, window, i) \in Nat
    BY <1>1
  <2> QED BY <2>1, <2>2 DEF Rows
<1>4. ASSUME Unclaimed(reply, window) # {}
      PROVE  [at |-> RowsUpTo(reply, window, n) + 1, turns |-> Unclaimed(reply, window)] \in Rows
  <2>1. Unclaimed(reply, window) \in (SUBSET (1..Len(log))) \ {{}}
    BY <1>4 DEF Unclaimed
  <2>2. RowsUpTo(reply, window, n) + 1 \in Nat
    BY <1>1
  <2> QED BY <2>1, <2>2 DEF Rows
<1> QED BY <1>2, <1>3, <1>4 DEF ValidateExchanges

(* Windows are cut out of the journal and share no chunk.                    *)
LEMMA WindowsShareOut ==
    ASSUME TypeOK
    PROVE  /\ UNION ClosedWindows \subseteq journal
           /\ Disjoint(ClosedWindows)
           /\ {} \notin ClosedWindows
<1>1. ASSUME NEW ch \in Channel, NEW W \in SplitWindows(OnChannel(journal, ch))
      PROVE  /\ W \subseteq OnChannel(journal, ch) /\ W # {}
             /\ \A V \in SplitWindows(OnChannel(journal, ch)) : V # W => V \intersect W = {}
  <2> DEFINE S == OnChannel(journal, ch)
  <2>1. PICK c \in S : W = {d \in S : WindowNo(S, d) = WindowNo(S, c)}
    BY <1>1 DEF SplitWindows
  <2>2. c \in W
    BY <2>1
  <2>3. ASSUME NEW V \in SplitWindows(S), NEW x \in V \intersect W
        PROVE  V = W
    <3>1. PICK e \in S : V = {d \in S : WindowNo(S, d) = WindowNo(S, e)}
      BY DEF SplitWindows
    <3>2. WindowNo(S, e) = WindowNo(S, c)
      BY <2>1, <3>1, <2>3
    <3> QED BY <2>1, <3>1, <3>2
  <2> QED BY <2>1, <2>2, <2>3
<1>2. \A W \in ClosedWindows : \E ch \in Channel : W \in SplitWindows(OnChannel(journal, ch))
  BY DEF ClosedWindows
<1>3. \A a, b \in Channel : a # b => OnChannel(journal, a) \intersect OnChannel(journal, b) = {}
  BY DEF OnChannel
<1>4. \A ch \in Channel : OnChannel(journal, ch) \subseteq journal
  BY DEF OnChannel
<1>5. ASSUME NEW V \in ClosedWindows, NEW W \in ClosedWindows, V # W
      PROVE  V \intersect W = {}
  <2>1. PICK a \in Channel : V \in SplitWindows(OnChannel(journal, a))
    BY <1>2
  <2>2. PICK b \in Channel : W \in SplitWindows(OnChannel(journal, b))
    BY <1>2
  <2>3. CASE a = b
    BY <2>1, <2>2, <2>3, <1>1, <1>5
  <2>4. CASE a # b
    <3>1. V \subseteq OnChannel(journal, a) /\ W \subseteq OnChannel(journal, b)
      BY <2>1, <2>2, <1>1
    <3> QED BY <3>1, <2>4, <1>3
  <2> QED BY <2>3, <2>4
<1> QED BY <1>1, <1>2, <1>4, <1>5 DEF Disjoint

-----------------------------------------------------------------------------
(* Types.  The steps that touch a row or a set of chunks have a step of      *)
(* their own; log only grows, so whatever was typed stays typed.             *)

LEMMA NewestSubset == \A rows : Newest(rows) \subseteq rows
BY DEF Newest

LEMMA FiledCounted ==
    ASSUME TypeOK
    PROVE  Cardinality(filed) \in Nat
<1>1. IsFiniteSet(1..Len(log))
  BY FS_Interval DEF TypeOK
<1>2. IsFiniteSet(SUBSET (1..Len(log)))
  BY <1>1, FS_SUBSET
<1>3. IsFiniteSet(filed)
  BY <1>2, FS_Subset DEF TypeOK
<1> QED BY <1>3, FS_CardinalityType

LEMMA FileTyped ==
    /\ Torn \in [intact : BOOLEAN, rows : SUBSET Rows]
    /\ \A rows \in SUBSET Rows : Saved(rows) \in [intact : BOOLEAN, rows : SUBSET Rows]
BY DEF Torn, Saved

(* What a save may leave in the file.                                         *)
LEMMA DumpMakes ==
    ASSUME NEW rows, Dump(rows)
    PROVE  /\ file' \in {file, Torn, Saved(rows)} /\ saveFailed' \in BOOLEAN
           /\ ~clash /\ ~saveFailed' => file' = Saved(rows)
BY DEF Dump

(* The save of an orderly exit moves nothing but the file and its own state.   *)
LEMMA ExitLeaves ==
    ASSUME AtExit
    PROVE  /\ UNCHANGED <<now, log, journal, pc, asOf, batch, window, exchanges, todo, resolved, db,
                          archFailed, crashes, closed, filed, raised, wiped>>
           /\ file' \in {file, Torn, Saved(exitRows)} /\ exitRows' \in {exitRows, resolved}
<1>1. CASE ExitSnapshot
  BY <1>1 DEF ExitSnapshot, proc, stores, hist
<1>2. CASE ExitOpens
  BY <1>2 DEF ExitOpens, proc, hist
<1>3. CASE ExitWrites
  BY <1>3, DumpMakes DEF ExitWrites, proc, hist
<1> QED BY <1>1, <1>2, <1>3 DEF AtExit

LEMMA TypeInit == Init => TypeOK
<1> SUFFICES ASSUME Init PROVE TypeOK
  OBVIOUS
<1>1. NoFile \in [intact : BOOLEAN, rows : SUBSET Rows]
  BY FileTyped DEF NoFile
<1>2. log \in Seq([time : Nat, channel : Channel])
  BY DEF Init
<1> QED BY <1>1, <1>2 DEF Init, TypeOK

LEMMA TypeNext ==
    ASSUME TypeOK, Handover, [Next]_vars
    PROVE  TypeOK'
<1> USE DEF TypeOK, Rows, exits
<1>1. CASE Tick
  BY <1>1 DEF Tick, proc, stores, hist
<1>2. ASSUME NEW ch \in Channel, Record(ch)
      PROVE  TypeOK'
  <2>1. log' \in Seq([time : Nat, channel : Channel]) /\ Len(log') = Len(log) + 1
    BY <1>2 DEF Record
  <2>2. 1..Len(log) \subseteq 1..Len(log') /\ Len(log) + 1 \in 1..Len(log')
    BY <2>1
  <2>3. Rows \subseteq Rows'
    BY <2>2
  <2> HIDE DEF Rows
  <2>4. journal' \subseteq 1..Len(log')
    BY <1>2, <2>2 DEF Record
  <2>5. exchanges' \subseteq Rows' /\ todo' \subseteq Rows' /\ resolved' \subseteq Rows'
    BY <1>2, <2>3 DEF Record, proc, stores
  <2>6. file' \in [intact : BOOLEAN, rows : SUBSET Rows']
    BY <1>2, <2>3 DEF Record, stores
  <2>7. batch' \subseteq SUBSET (1..Len(log')) /\ window' \subseteq 1..Len(log')
    BY <1>2, <2>2 DEF Record, proc
  <2>8. db' \subseteq SUBSET (1..Len(log')) /\ closed' \subseteq SUBSET (1..Len(log'))
        /\ filed' \subseteq SUBSET (1..Len(log'))
    BY <1>2, <2>2 DEF Record, stores, hist
  <2>9. raised' \subseteq 1..Len(log') /\ wiped' \subseteq 1..Len(log')
    BY <1>2, <2>2 DEF Record, hist
  <2>10. UNCHANGED <<now, pc, asOf, saveFailed, archFailed, exitPc, clash, crashes>>
         /\ exitRows' \subseteq Rows'
    BY <1>2, <2>3 DEF Record, proc, stores
  <2> QED BY <2>1, <2>4, <2>5, <2>6, <2>7, <2>8, <2>9, <2>10
<1>3. CASE ReadClock
  BY <1>3 DEF ReadClock, stores, hist
<1>4. CASE TakeClosedWindows
  <2>1. UNION ClosedWindows \subseteq 1..Len(log)
    BY WindowsShareOut
  <2>2. ClosedWindows \subseteq SUBSET (1..Len(log))
    BY <2>1
  <2> HIDE DEF Rows
  <2> QED BY <1>4, <2>2 DEF TakeClosedWindows, stores, Rows
<1>5. CASE BeginWindow
  <2>1. window' \in batch /\ batch' \subseteq batch
    BY <1>5 DEF BeginWindow
  <2> QED BY <1>5, <2>1 DEF BeginWindow, stores, hist
<1>6. CASE EndPass
  BY <1>6 DEF EndPass, stores, hist
<1>7. CASE Resolve
  <2>1. exchanges' \subseteq Rows
    <3>1. CASE exchanges' = Unresolved(window)
      <4>1. window \in (SUBSET (1..Len(log))) \ {{}}
        BY <1>7 DEF Resolve, Handover
      <4>2. [at |-> 1, turns |-> window] \in Rows
        BY <4>1
      <4> QED BY <3>1, <4>2 DEF Unresolved
    <3>2. CASE \E reply \in Replies(window) : exchanges' = ValidateExchanges(reply, window)
      <4>1. PICK reply \in Replies(window) : exchanges' = ValidateExchanges(reply, window)
        BY <3>2
      <4>2. PICK n \in 0..MaxExchanges : reply \in [1..n -> SUBSET (window \union {0})]
        BY <4>1 DEF Replies
      <4> HIDE DEF Rows
      <4> QED BY <4>1, <4>2, ValidateRows, BoundAssumption
    <3> QED BY <3>1, <3>2, <1>7 DEF Resolve
  <2> HIDE DEF Rows
  <2>2. Rows' = Rows
    BY <1>7 DEF Resolve, Rows
  <2> QED BY <1>7, <2>1, <2>2 DEF Resolve, stores, hist
<1>8. CASE ResolveRaises
  BY <1>8 DEF ResolveRaises, stores
<1>9. CASE StoreResolved
  <2>1. resolved' \subseteq Rows
    <3>1. ASSUME NEW r \in exchanges
          PROVE  [r EXCEPT !.at = Cardinality(filed) + r.at] \in Rows
      <4>1. r \in [at : Nat, turns : (SUBSET (1..Len(log))) \ {{}}]
        OBVIOUS
      <4>2. Cardinality(filed) \in Nat /\ r.at \in Nat
        BY <4>1, FiledCounted
      <4>3. [r EXCEPT !.at = Cardinality(filed) + r.at]
            = [at |-> Cardinality(filed) + r.at, turns |-> r.turns]
        BY <4>1
      <4>4. Cardinality(filed) + r.at \in Nat
        BY <4>2
      <4>5. r.turns \in (SUBSET (1..Len(log))) \ {{}}
        BY <4>1
      <4> QED BY <4>3, <4>4, <4>5
    <3> HIDE DEF Rows
    <3>2. resolved' \subseteq resolved \union {[r EXCEPT !.at = Cardinality(filed) + r.at] : r \in exchanges}
      BY <1>9, NewestSubset DEF StoreResolved, Extend
    <3> QED BY <3>1, <3>2
  <2>2. Turns(exchanges) \subseteq SUBSET (1..Len(log))
    BY DEF Turns
  <2> HIDE DEF Rows
  <2>3. Rows' = Rows
    BY <1>9 DEF StoreResolved, Rows
  <2> QED BY <1>9, <2>1, <2>2, <2>3 DEF StoreResolved
<1>10. CASE OpenFile
  <2> HIDE DEF Rows
  <2>1. Rows' = Rows
    BY <1>10 DEF OpenFile, Rows
  <2>2. file' \in [intact : BOOLEAN, rows : SUBSET Rows]
    BY <1>10, FileTyped DEF OpenFile
  <2>3. saveFailed' \in BOOLEAN /\ clash' \in BOOLEAN /\ pc' \in {"write", "archive"}
    BY <1>10 DEF OpenFile
  <2> QED BY <1>10, <2>1, <2>2, <2>3 DEF OpenFile, hist
<1>11. CASE WriteFile
  <2> HIDE DEF Rows
  <2>1. Rows' = Rows
    BY <1>11 DEF WriteFile, Rows
  <2>2. file' \in [intact : BOOLEAN, rows : SUBSET Rows]
    BY <1>11, FileTyped, DumpMakes DEF WriteFile
  <2>3. saveFailed' \in BOOLEAN
    BY <1>11, DumpMakes DEF WriteFile
  <2> QED BY <1>11, <2>1, <2>2, <2>3 DEF WriteFile, hist
<1>12. CASE Archive
  <2>1. PICK r \in todo : db' = Insert(r.turns) /\ todo' = todo \ {r}
    BY <1>12 DEF Archive
  <2>2. db' \subseteq SUBSET (1..Len(log))
    BY <2>1 DEF Insert
  <2> QED BY <1>12, <2>1, <2>2 DEF Archive, hist
<1>13. CASE ArchiveDone
  BY <1>13 DEF ArchiveDone, AfterArchive, stores, hist
<1>14. CASE ArchiveFails
  BY <1>14 DEF ArchiveFails, AfterArchive, hist
<1>15. CASE AtExit
  <2> HIDE DEF Rows
  <2>1. Rows' = Rows
    BY <1>15, ExitLeaves DEF Rows
  <2>2. file' \in [intact : BOOLEAN, rows : SUBSET Rows] /\ exitRows' \subseteq Rows
    BY <1>15, FileTyped, ExitLeaves
  <2>3. saveFailed' \in BOOLEAN /\ clash' \in BOOLEAN /\ exitPc' \in {"no", "open", "write", "done"}
    BY <1>15, DumpMakes DEF AtExit, ExitSnapshot, ExitOpens, ExitWrites, stores
  <2> QED BY <1>15, <2>1, <2>2, <2>3, ExitLeaves
<1>16. CASE Crash
  <2> HIDE DEF Rows
  <2>1. wiped' \subseteq 1..Len(log)
    <3>1. (UNION batch) \subseteq 1..Len(log)
      OBVIOUS
    <3>2. wiped' = wiped \union journal \union (UNION batch) \union window
      BY <1>16 DEF Crash
    <3>3. wiped \subseteq 1..Len(log) /\ journal \subseteq 1..Len(log) /\ window \subseteq 1..Len(log)
      OBVIOUS
    <3> DEFINE N == 1..Len(log)
    <3>4. (UNION batch) \subseteq N /\ wiped \subseteq N /\ journal \subseteq N /\ window \subseteq N
      BY <3>1, <3>3
    <3> HIDE DEF TypeOK, N
    <3>5. wiped' \subseteq N
      BY <3>2, <3>4
    <3> QED BY <3>5 DEF N
  <2>2. Rows' = Rows
    BY <1>16 DEF Crash, Rows
  <2>3. UNCHANGED <<now, log, asOf, file, db, saveFailed, archFailed, filed, raised>>
    BY <1>16 DEF Crash
  <2>4. /\ pc' = "down" /\ crashes' \in Nat /\ exitPc' = "no" /\ exitRows' = {} /\ clash' = FALSE
        /\ journal' = {} /\ batch' = {} /\ window' = {} /\ exchanges' = {} /\ todo' = {}
        /\ resolved' = {} /\ closed' = {}
    BY <1>16 DEF Crash
  <2> QED BY <2>1, <2>2, <2>3, <2>4
<1>17. CASE Restart
  BY <1>17 DEF Restart, hist
<1>18. CASE LoadConversations
  <2>1. resolved' \subseteq Rows
    BY <1>18, NewestSubset DEF LoadConversations
  <2> QED BY <1>18, <2>1 DEF LoadConversations, hist
<1>19. CASE UNCHANGED vars
  <2>1. /\ UNCHANGED <<now, log, journal, pc, asOf, batch, window, exchanges, todo, resolved, file, db>>
        /\ UNCHANGED <<saveFailed, archFailed, exitPc, exitRows, clash, crashes, closed, filed, raised, wiped>>
    BY <1>19 DEF vars, proc, stores, hist
  <2>2. Rows' = Rows
    BY <2>1
  <2> QED BY <2>1, <2>2
<1> QED BY <1>1, <1>2, <1>3, <1>4, <1>5, <1>6, <1>7, <1>8, <1>9, <1>10, <1>11, <1>12,
           <1>13, <1>14, <1>15, <1>16, <1>17, <1>18, <1>19 DEF Next, Reaper

-----------------------------------------------------------------------------
(* One home.  Only Record, the reaper's steps that pass chunks on, and Crash *)
(* move a transmission.                                                      *)

LEMMA HomeInit == Init => OneHome /\ Handover
<1> SUFFICES ASSUME Init PROVE OneHome /\ Handover
  OBVIOUS
<1>1. 1..Len(log) = {}
  BY DEF Init
<1> QED BY <1>1 DEF Init, OneHome, Handover, Disjoint

homes == <<log, journal, batch, window, exchanges, filed, raised, wiped>>

LEMMA HomeStays ==
    ASSUME OneHome, UNCHANGED homes
    PROVE  OneHome'
BY DEF OneHome, Disjoint, homes

LEMMA HomeNext ==
    ASSUME TypeOK, OneHome, Handover, [Next]_vars
    PROVE  OneHome'
<1>1. ASSUME NEW ch \in Channel, Record(ch)
      PROVE  OneHome'
  <2> DEFINE new == Len(log) + 1
  <2>1. 1..Len(log') = (1..Len(log)) \union {new} /\ new \notin 1..Len(log)
    BY <1>1 DEF Record, TypeOK
  <2>2. journal' = journal \union {new}
    BY <1>1 DEF Record
  <2>3. UNCHANGED <<batch, window, filed, raised, wiped>>
    BY <1>1 DEF Record, proc, hist
  <2> HIDE DEF new
  <2>4. new \notin journal \union (UNION batch) \union window \union (UNION filed) \union raised \union wiped
    BY <2>1 DEF OneHome
  <2> QED BY <2>1, <2>2, <2>3, <2>4 DEF OneHome, Disjoint
<1>2. CASE TakeClosedWindows
  <2>1. batch = {} /\ window = {}
    BY <1>2 DEF TakeClosedWindows, Handover
  <2>2. /\ batch' = ClosedWindows /\ journal' = journal \ UNION ClosedWindows
        /\ UNCHANGED <<log, window, filed, raised, wiped>>
    BY <1>2 DEF TakeClosedWindows
  <2>3. (UNION ClosedWindows) \subseteq journal /\ Disjoint(ClosedWindows)
    BY WindowsShareOut
  <2> DEFINE T == UNION ClosedWindows
  <2>4. T \subseteq journal /\ (UNION batch') = T /\ journal' = journal \ T
    BY <2>2, <2>3
  <2>5. Disjoint(batch') /\ Disjoint(filed')
    BY <2>2, <2>3 DEF OneHome
  <2> HIDE DEF T
  <2> QED BY <2>1, <2>2, <2>4, <2>5 DEF OneHome
<1>3. CASE BeginWindow
  <2>1. PICK W \in batch : window' = W /\ batch' = batch \ {W}
    BY <1>3 DEF BeginWindow
  <2>2. window = {} /\ UNCHANGED <<log, journal, filed, raised, wiped>>
    BY <1>3 DEF BeginWindow, Handover, hist
  <2>3. (UNION batch') = (UNION batch) \ W
    BY <2>1 DEF OneHome, Disjoint
  <2>4. W \subseteq UNION batch
    BY <2>1
  <2>5. Disjoint(batch')
    BY <2>1 DEF OneHome, Disjoint
  <2> QED BY <2>1, <2>2, <2>3, <2>4, <2>5 DEF OneHome
<1>4. CASE ResolveRaises
  <2>1. raised' = raised \union window /\ window' = {}
    BY <1>4 DEF ResolveRaises
  <2>2. UNCHANGED <<log, journal, batch, filed, wiped>>
    BY <1>4 DEF ResolveRaises
  <2> QED BY <2>1, <2>2 DEF OneHome, Disjoint
<1>5. CASE StoreResolved
  <2>1. filed' = filed \union Turns(exchanges) /\ window' = {}
    BY <1>5 DEF StoreResolved
  <2>2. UNCHANGED <<log, journal, batch, raised, wiped>>
    BY <1>5 DEF StoreResolved
  <2>3. Promise!SharesOut(Turns(exchanges), window)
    BY <1>5 DEF StoreResolved, Handover
  <2> DEFINE C == Turns(exchanges)
  <2> HIDE DEF C
  <2>4. (UNION C) = window /\ Disjoint(C)
    BY <2>3 DEF C, Promise!SharesOut, Disjoint
  <2>5. (UNION filed') = (UNION filed) \union window
    BY <2>1, <2>4 DEF C
  <2>6. \A a \in filed, b \in C : a \intersect b = {}
    BY <2>4 DEF OneHome
  <2>7. Disjoint(filed')
    BY <2>1, <2>4, <2>6 DEF C, OneHome, Disjoint
  <2>8. Disjoint(batch')
    BY <2>2 DEF OneHome, Disjoint
  <2> QED BY <2>1, <2>2, <2>5, <2>7, <2>8 DEF OneHome
<1>6. CASE Crash
  <2>1. wiped' = wiped \union journal \union (UNION batch) \union window
    BY <1>6 DEF Crash
  <2>2. /\ journal' = {} /\ batch' = {} /\ window' = {}
        /\ UNCHANGED <<log, filed, raised>>
    BY <1>6 DEF Crash
  <2> QED BY <2>1, <2>2 DEF OneHome, Disjoint
<1>7. CASE Resolve
  BY <1>7 DEF Resolve, hist, OneHome, Disjoint
<1>8. ASSUME \/ Tick \/ ReadClock \/ EndPass \/ OpenFile \/ WriteFile \/ Archive \/ ArchiveDone
             \/ ArchiveFails \/ AtExit \/ Restart \/ LoadConversations \/ UNCHANGED vars
      PROVE  UNCHANGED homes
  BY <1>8, ExitLeaves DEF Tick, ReadClock, EndPass, OpenFile, WriteFile, Archive, ArchiveDone,
              ArchiveFails, Restart, LoadConversations, vars, proc, hist, homes
<1> QED BY <1>1, <1>2, <1>3, <1>4, <1>5, <1>6, <1>7, <1>8, HomeStays DEF Next, Reaper

LEMMA HandoverNext ==
    ASSUME TypeOK, OneHome, Handover, [Next]_vars
    PROVE  Handover'
<1> USE DEF Handover
<1>1. ASSUME NEW ch \in Channel, Record(ch)
      PROVE  Handover'
  BY <1>1 DEF Record, Running, proc, Turns, Promise!SharesOut
<1>2. CASE TakeClosedWindows
  BY <1>2, WindowsShareOut DEF TakeClosedWindows
<1>3. CASE BeginWindow
  BY <1>3 DEF BeginWindow
<1>4. CASE EndPass
  BY <1>4 DEF EndPass
<1>5. CASE Resolve
  <2>1. Promise!SharesOut(Turns(exchanges'), window)
    <3>1. CASE exchanges' = Unresolved(window)
      <4>1. Turns(exchanges') = {window} /\ window # {}
        BY <3>1, <1>5 DEF Unresolved, Turns, Resolve
      <4> QED BY <4>1 DEF Promise!SharesOut
    <3>2. CASE \E reply \in Replies(window) : exchanges' = ValidateExchanges(reply, window)
      <4>1. PICK reply \in Replies(window) : exchanges' = ValidateExchanges(reply, window)
        BY <3>2
      <4>2. PICK n \in 0..MaxExchanges : reply \in [1..n -> SUBSET (window \union {0})]
        BY <4>1 DEF Replies
      <4> QED BY <4>1, <4>2, ValidateSharesOut, BoundAssumption
    <3> QED BY <3>1, <3>2, <1>5 DEF Resolve
  <2> QED BY <1>5, <2>1 DEF Resolve, Turns, Promise!SharesOut
<1>6. CASE ResolveRaises
  BY <1>6 DEF ResolveRaises
<1>7. CASE StoreResolved
  BY <1>7 DEF StoreResolved
<1>8. CASE Crash
  BY <1>8 DEF Crash
<1>9. CASE OpenFile \/ WriteFile
  BY <1>9 DEF OpenFile, WriteFile
<1>10. CASE Archive \/ ArchiveDone \/ ArchiveFails
  BY <1>10 DEF Archive, ArchiveDone, ArchiveFails, AfterArchive
<1>11. CASE Tick \/ AtExit \/ UNCHANGED vars
  BY <1>11, ExitLeaves DEF Tick, vars, proc, Turns, Promise!SharesOut
<1>12. CASE ReadClock \/ Restart \/ LoadConversations
  BY <1>12 DEF ReadClock, Restart, LoadConversations
<1> QED BY <1>1, <1>2, <1>3, <1>4, <1>5, <1>6, <1>7, <1>8, <1>9, <1>10, <1>11, <1>12
        DEF Next, Reaper

-----------------------------------------------------------------------------
(* The strengthening is inductive.                                           *)
THEOREM Inductive == Spec => []IInv
<1>1. Init => IInv
  BY TypeInit, HomeInit DEF IInv
<1>2. IInv /\ [Next]_vars => IInv'
  BY TypeNext, HomeNext, HandoverNext DEF IInv
<1> QED BY <1>1, <1>2, PTL DEF Spec

(* Whatever ids a resolver's reply holds, however often the process dies,    *)
(* every list, window and table holds recorded transmissions only.           *)
THEOREM TypeCorrect == Spec => []TypeOK
<1>1. IInv => TypeOK
  BY DEF IInv
<1> QED BY <1>1, Inductive, PTL

(* No transmission is lost without a trace or has two homes.                 *)
THEOREM EveryTransmissionHasOneHome == Spec => []OneHome
<1>1. IInv => OneHome
  BY DEF IInv
<1> QED BY <1>1, Inductive, PTL

-----------------------------------------------------------------------------
(* Refinement.  Recording is Hear, storing is File, and raising or dying is   *)
(* Lose; whatever else happens, the ledger does not see.                     *)

LEMMA LedgerStep ==
    ASSUME IInv, [Next]_vars
    PROVE  [Promise!Next]_(Promise!vars)
<1> USE DEF IInv, InHand
<1>1. ASSUME NEW ch \in Channel, Record(ch)
      PROVE  Promise!Hear
  <2>1. Len(log') = Len(log) + 1 /\ journal' = journal \union {Len(log')}
    BY <1>1 DEF Record, TypeOK
  <2> QED BY <1>1, <2>1 DEF Promise!Hear, Record, proc, hist
<1>2. CASE TakeClosedWindows
  <2>1. batch = {} /\ (UNION ClosedWindows) \subseteq journal
    BY <1>2, WindowsShareOut DEF TakeClosedWindows, Handover
  <2>2. InHand' = InHand
    BY <1>2, <2>1 DEF TakeClosedWindows
  <2> QED BY <1>2, <2>2 DEF TakeClosedWindows, Promise!vars
<1>3. CASE BeginWindow
  <2>1. PICK W \in batch : window' = W /\ batch' = batch \ {W}
    BY <1>3 DEF BeginWindow
  <2>2. window = {}
    BY <1>3 DEF BeginWindow, Handover
  <2>3. (UNION batch') \union W = UNION batch
    BY <2>1
  <2>4. InHand' = InHand
    BY <1>3, <2>1, <2>2, <2>3 DEF BeginWindow
  <2> QED BY <1>3, <2>4 DEF BeginWindow, hist, Promise!vars
<1>4. CASE ResolveRaises
  <2>1. InHand' = InHand \ window
    BY <1>4 DEF ResolveRaises, OneHome
  <2>2. (raised \union wiped)' = (raised \union wiped) \union window
    BY <1>4 DEF ResolveRaises
  <2>3. window \in SUBSET InHand
    OBVIOUS
  <2>4. UNCHANGED <<log, filed>>
    BY <1>4 DEF ResolveRaises
  <2> QED BY <2>1, <2>2, <2>3, <2>4 DEF Promise!Lose, Promise!Next
<1>5. CASE StoreResolved
  <2>1. InHand' = InHand \ window
    BY <1>5 DEF StoreResolved, OneHome
  <2>2. filed' = filed \union Turns(exchanges)
    BY <1>5 DEF StoreResolved
  <2>3. Promise!SharesOut(Turns(exchanges), window)
    BY <1>5 DEF StoreResolved, Handover
  <2>4. window \in SUBSET InHand /\ Turns(exchanges) \in SUBSET SUBSET window
    BY <2>3 DEF Promise!SharesOut
  <2>5. UNCHANGED <<log, raised, wiped>>
    BY <1>5 DEF StoreResolved
  <2>6. Promise!File
    BY <2>1, <2>2, <2>3, <2>4, <2>5 DEF Promise!File
  <2> QED BY <2>6 DEF Promise!Next
<1>6. CASE Crash
  <2>1. InHand' = {} /\ UNCHANGED <<log, filed>>
    BY <1>6 DEF Crash
  <2>2. (raised \union wiped)' = (raised \union wiped) \union InHand
    BY <1>6 DEF Crash
  <2> QED BY <2>1, <2>2 DEF Promise!Lose, Promise!Next
<1>7. ASSUME \/ Tick \/ ReadClock \/ EndPass \/ Resolve \/ OpenFile \/ WriteFile \/ Archive
             \/ ArchiveDone \/ ArchiveFails \/ AtExit \/ Restart \/ LoadConversations
             \/ UNCHANGED vars
      PROVE  UNCHANGED Promise!vars
  BY <1>7, ExitLeaves DEF Tick, ReadClock, EndPass, Resolve, OpenFile, WriteFile, Archive,
              ArchiveDone, ArchiveFails, Restart, LoadConversations, vars, proc, hist, Promise!vars
<1> QED BY <1>1, <1>2, <1>3, <1>4, <1>5, <1>6, <1>7 DEF Next, Reaper, Promise!Next

(* The journal, the reaper and the stores keep the ledger's promise: a       *)
(* transmission is filed under one conversation, and filed for good.         *)
THEOREM ImplementsTheLedger == Spec => ImplementsLedger
<1>1. Init => Promise!Init
  BY DEF Init, Promise!Init, InHand
<1>2. IInv /\ [Next]_vars => [Promise!Next]_(Promise!vars)
  BY LedgerStep
<1> QED BY <1>1, <1>2, Inductive, PTL DEF Spec, ImplementsLedger, Promise!Spec

(* No step takes a conversation out of the archive or changes it: an insert    *)
(* that meets a taken key is ignored, and nothing else writes the table.       *)
THEOREM TheArchiveIsAppendOnly == Spec => ArchiveNeverRewrites
<1>1. [Next]_vars => [db \subseteq db']_vars
  <2> SUFFICES ASSUME [Next]_vars PROVE db \subseteq db'
    OBVIOUS
  <2>1. CASE Archive
    BY <2>1 DEF Archive, Insert
  <2>2. ASSUME \/ Tick \/ (\E ch \in Channel : Record(ch))
               \/ ReadClock \/ TakeClosedWindows \/ BeginWindow \/ EndPass
               \/ Resolve \/ ResolveRaises \/ StoreResolved \/ OpenFile \/ WriteFile
               \/ ArchiveDone \/ ArchiveFails
               \/ AtExit \/ Crash \/ Restart \/ LoadConversations \/ UNCHANGED vars
        PROVE  UNCHANGED db
    BY <2>2, ExitLeaves DEF Tick, Record, ReadClock, TakeClosedWindows, BeginWindow, EndPass,
                Resolve, ResolveRaises, StoreResolved, OpenFile, WriteFile, ArchiveDone,
                ArchiveFails, Crash, Restart, LoadConversations, vars, stores
  <2> QED BY <2>1, <2>2 DEF Next, Reaper
<1> QED BY <1>1, PTL DEF Spec, ArchiveNeverRewrites

-----------------------------------------------------------------------------
(***************************************************************************)
(* The archive: between two passes it has every conversation that the        *)
(* rolling store shows.                                                      *)
(***************************************************************************)
InArchive(turns) == \E t \in db : Key(t) = Key(turns)

Archiving == pc \in {"open", "write", "archive", "rearchive"}

(* A row of the rolling store is in the archive, or is one of those the reaper  *)
(* (or the loading process) has still to insert.  A torn file shows no rows, so *)
(* a start that does not archive again has nothing to.                          *)
Covered ==
    /\ {} \notin db
    /\ ~file.intact => file.rows = {}
    /\ pc \in {"down", "load"} => resolved = {}
    /\ pc \notin {"down", "load"} /\ ~archFailed =>
          \A r \in resolved : \/ InArchive(r.turns)
                              \/ Archiving /\ \E q \in todo : q.turns = r.turns

-----------------------------------------------------------------------------
LEMMA MinMember ==
    ASSUME NEW S \in SUBSET Nat, S # {}
    PROVE  Min(S) \in S
<1>1. PICK m \in S : \A k \in S : m <= k
  BY LeastNat
<1> QED BY <1>1 DEF Min

(* What a row is filed under does not change as more is heard.                 *)
LEMMA KeyStays ==
    ASSUME TypeOK, NEW ch \in Channel, Record(ch),
           NEW turns \in SUBSET (1..Len(log)), turns # {}
    PROVE  Key(turns)' = Key(turns)
<1>1. Min(turns) \in 1..Len(log)
  <2>1. turns \in SUBSET Nat
    OBVIOUS
  <2> QED BY <2>1, MinMember
<1>2. log' = Append(log, [time |-> now, channel |-> ch])
  BY DEF Record
<1>3. log'[Min(turns)] = log[Min(turns)]
  BY <1>1, <1>2 DEF TypeOK
<1> QED BY <1>3 DEF Key, Time

(* Once in the archive, there for good.                                        *)
LEMMA ArchiveKeeps ==
    ASSUME UNCHANGED log, db \subseteq db', NEW turns, InArchive(turns)
    PROVE  InArchive(turns)'
BY DEF InArchive, Key, Time

LEMMA CoveredInit == Init => Covered
BY DEF Init, Covered, NoFile, Saved

(* The steps that leave the log, the rolling store, the table and what is to be *)
(* inserted alone.                                                              *)
LEMMA CoveredStays ==
    ASSUME Covered, UNCHANGED <<log, resolved, db, todo, archFailed>>,
           pc \in {"down", "load"} <=> pc' \in {"down", "load"},
           (~file.intact => file.rows = {})', Archiving => Archiving'
    PROVE  Covered'
BY DEF Covered, InArchive, Key, Time

LEMMA CoveredNext == IInv /\ Covered /\ [Next]_vars => Covered'
<1> SUFFICES ASSUME TypeOK, OneHome, Handover, Covered, [Next]_vars PROVE Covered'
  BY DEF IInv
<1>1. ASSUME NEW ch \in Channel, Record(ch) PROVE Covered'
  <2>1. UNCHANGED <<resolved, db, todo, archFailed, file, pc>>
    BY <1>1 DEF Record, proc, stores
  <2>2. ASSUME NEW r \in resolved, InArchive(r.turns) PROVE InArchive(r.turns)'
    <3>1. PICK t \in db : Key(t) = Key(r.turns)
      BY <2>2 DEF InArchive
    <3>2. /\ t \in SUBSET (1..Len(log)) /\ t # {}
          /\ r.turns \in SUBSET (1..Len(log)) /\ r.turns # {}
      BY DEF TypeOK, Rows, Covered
    <3>3. Key(t)' = Key(t) /\ Key(r.turns)' = Key(r.turns)
      BY <1>1, <3>2, KeyStays
    <3> QED BY <2>1, <3>1, <3>3 DEF InArchive
  <2> QED BY <2>1, <2>2 DEF Covered, Archiving
<1>2. CASE StoreResolved
  <2>1. /\ pc = "store" /\ pc' = "open" /\ todo' = exchanges
        /\ resolved' = Extend(resolved, exchanges)
        /\ UNCHANGED <<log, db, file, archFailed>>
    BY <1>2 DEF StoreResolved
  <2>2. ASSUME NEW r \in resolved'
        PROVE  r \in resolved \/ \E q \in todo' : q.turns = r.turns
    <3>1. r \in resolved \union {[q EXCEPT !.at = Cardinality(filed) + q.at] : q \in exchanges}
      BY <2>1, NewestSubset DEF Extend
    <3>2. ASSUME NEW q \in exchanges, r = [q EXCEPT !.at = Cardinality(filed) + q.at]
          PROVE  r.turns = q.turns
      <4>1. q \in Rows
        BY DEF TypeOK
      <4> QED BY <3>2, <4>1 DEF Rows
    <3> QED BY <2>1, <3>1, <3>2
  <2>3. ~archFailed => \A r \in resolved : InArchive(r.turns)
    BY <2>1 DEF Covered, Archiving
  <2>4. \A r \in resolved : InArchive(r.turns) => InArchive(r.turns)'
    BY <2>1, ArchiveKeeps
  <2> QED BY <2>1, <2>2, <2>3, <2>4 DEF Covered, Archiving
<1>3. CASE Archive
  <2>1. /\ pc \in {"archive", "rearchive"} /\ UNCHANGED <<log, resolved, file, pc, archFailed>>
        /\ db \subseteq db'
    BY <1>3 DEF Archive, Insert
  <2>2. PICK r \in todo : db' = Insert(r.turns) /\ todo' = todo \ {r}
    BY <1>3 DEF Archive
  <2>3. InArchive(r.turns)'
    BY <2>1, <2>2 DEF Insert, InArchive, Key, Time
  <2>4. {} \notin db'
    BY <2>2 DEF Insert, TypeOK, Rows, Covered
  <2>5. ASSUME NEW s \in resolved, ~archFailed
        PROVE  InArchive(s.turns)' \/ \E q \in todo' : q.turns = s.turns
    <3>1. CASE InArchive(s.turns)
      BY <2>1, <3>1, ArchiveKeeps
    <3>2. CASE \E q \in todo : q.turns = s.turns
      BY <2>2, <2>3, <3>2
    <3> QED BY <2>1, <2>5, <3>1, <3>2 DEF Covered
  <2> QED BY <2>1, <2>4, <2>5 DEF Covered, Archiving
<1>4. CASE ArchiveDone
  <2>1. /\ todo = {} /\ pc' \in {"next", "idle"} /\ pc \in {"archive", "rearchive"}
        /\ UNCHANGED <<log, resolved, db, file, archFailed>>
    BY <1>4 DEF ArchiveDone, AfterArchive, stores
  <2>2. \A r \in resolved : InArchive(r.turns) => InArchive(r.turns)'
    BY <2>1, ArchiveKeeps
  <2> QED BY <2>1, <2>2 DEF Covered
<1>5. CASE ArchiveFails
  BY <1>5 DEF ArchiveFails, AfterArchive, Covered
<1>6. CASE Crash
  BY <1>6 DEF Crash, Covered
<1>7. CASE Restart
  BY <1>7 DEF Restart, Covered
<1>8. CASE LoadConversations
  <2>1. /\ resolved' = Newest(file.rows) /\ todo' = resolved' /\ UNCHANGED <<log, db, file>>
        /\ pc' = IF file.intact THEN "rearchive" ELSE "idle"
    BY <1>8 DEF LoadConversations
  <2>2. ~file.intact => resolved' = {}
    BY <2>1, NewestSubset DEF Covered
  <2> QED BY <2>1, <2>2 DEF Covered, Archiving
<1>9. CASE OpenFile
  BY <1>9, CoveredStays DEF OpenFile, Torn, Covered, Archiving
<1>10. CASE WriteFile
  BY <1>10, CoveredStays, DumpMakes DEF WriteFile, Torn, Saved, Covered, Archiving
<1>11. CASE AtExit
  BY <1>11, CoveredStays, ExitLeaves DEF Torn, Saved, Covered, Archiving
<1>12. CASE \/ ReadClock \/ TakeClosedWindows \/ BeginWindow \/ EndPass \/ Resolve
            \/ ResolveRaises \/ Tick \/ UNCHANGED vars
  BY <1>12, CoveredStays DEF ReadClock, TakeClosedWindows, BeginWindow, EndPass, Resolve,
        ResolveRaises, Tick, Covered, Archiving, vars, proc, stores
<1> QED BY <1>1, <1>2, <1>3, <1>4, <1>5, <1>6, <1>7, <1>8, <1>9, <1>10, <1>11, <1>12
        DEF Next, Reaper

-----------------------------------------------------------------------------
(* Whatever saves and inserts fail in earlier lives, and wherever the process   *)
(* dies, what an idle process shows is in the archive, or an insert of its own  *)
(* has failed: loading archives again what an earlier process did not.          *)
THEOREM TheArchiveCovers == Spec => []ArchiveCovers
<1>1. Init => Covered
  BY CoveredInit
<1>2. IInv /\ Covered /\ [Next]_vars => Covered'
  BY CoveredNext
<1>3. Covered => ArchiveCovers
  BY DEF Covered, ArchiveCovers, InArchive, Archiving
<1> QED BY <1>1, <1>2, <1>3, Inductive, PTL DEF Spec
-----------------------------------------------------------------------------
(***************************************************************************)
(* The rows of a list: each transmission in one of them, in one order, and no *)
(* more of them than the list keeps.                                         *)
(***************************************************************************)
Apart(rows) == \A p, q \in rows : p # q => p.turns \intersect q.turns = {} /\ p.at # q.at

(* Among the rows of an order, at most CONVERSATIONS_KEEP have fewer than that many  *)
(* after them.                                                                *)
LEMMA NewestIsShort ==
    ASSUME NEW rows \in SUBSET Rows, IsFiniteSet(rows), Apart(rows)
    PROVE  /\ IsFiniteSet(Newest(rows)) /\ Cardinality(Newest(rows)) <= CONVERSATIONS_KEEP
           /\ Apart(Newest(rows))
<1> DEFINE after(r) == {q \in rows : q.at > r.at}
           rank == [r \in Newest(rows) |-> Cardinality(after(r))]
           ranks == 0..(CONVERSATIONS_KEEP - 1)
<1>1. Newest(rows) \subseteq rows /\ IsFiniteSet(Newest(rows))
  BY FS_Subset DEF Newest
<1>2. \A r \in rows : r.at \in Nat
  BY DEF Rows
<1>3. \A r \in rows : IsFiniteSet(after(r)) /\ Cardinality(after(r)) \in Nat
  BY FS_Subset, FS_CardinalityType
<1>4. ASSUME NEW r \in rows, NEW s \in rows, r.at < s.at
      PROVE  Cardinality(after(s)) < Cardinality(after(r))
  <2>1. after(s) \subseteq after(r) /\ s \in after(r) /\ s \notin after(s)
    BY <1>2, <1>4
  <2>2. IsFiniteSet(after(r)) /\ Cardinality(after(r)) \in Nat /\ Cardinality(after(s)) \in Nat
    BY <1>3
  <2> HIDE DEF after
  <2>3. Cardinality(after(s)) <= Cardinality(after(r)) /\ (Cardinality(after(s)) = Cardinality(after(r)) => after(s) = after(r))
    BY <2>1, <2>2, FS_Subset
  <2> QED BY <2>1, <2>2, <2>3
<1>5. CONVERSATIONS_KEEP \in Nat \ {0}
  BY WindowAssumption DEF WindowAssumption
<1>6. \A r \in Newest(rows) : Cardinality(after(r)) \in ranks
  <2> SUFFICES ASSUME NEW r \in Newest(rows) PROVE Cardinality(after(r)) \in ranks
    OBVIOUS
  <2>1. Cardinality(after(r)) < CONVERSATIONS_KEEP
    BY DEF Newest
  <2>2. Cardinality(after(r)) \in Nat
    BY <1>1, <1>3
  <2> HIDE DEF after
  <2> QED BY <1>5, <2>1, <2>2
<1> HIDE DEF after
<1>7. \A r, s \in Newest(rows) : r # s => rank[r] # rank[s]
  <2> SUFFICES ASSUME NEW r \in Newest(rows), NEW s \in Newest(rows), r # s
               PROVE  Cardinality(after(r)) # Cardinality(after(s))
    OBVIOUS
  <2>1. r \in rows /\ s \in rows /\ r.at # s.at /\ r.at \in Nat /\ s.at \in Nat
    BY <1>1, <1>2 DEF Apart
  <2>2. Cardinality(after(r)) \in Nat /\ Cardinality(after(s)) \in Nat
    BY <1>3, <2>1
  <2>3. r.at < s.at \/ s.at < r.at
    BY <2>1
  <2> QED BY <1>4, <2>1, <2>2, <2>3
<1>8. rank \in Injection(Newest(rows), ranks)
  BY <1>6, <1>7 DEF Injection, IsInjective
<1>9. IsFiniteSet(ranks) /\ Cardinality(ranks) = CONVERSATIONS_KEEP
  BY <1>5, FS_Interval
<1> HIDE DEF rank, ranks
<1>10. Cardinality(Newest(rows)) <= CONVERSATIONS_KEEP
  BY <1>8, <1>9, FS_Injection
<1> QED BY <1>1, <1>10 DEF Apart

LEMMA CountIs ==
    ASSUME NEW n \in Nat, NEW reply, NEW W
    PROVE  \A i \in 0..n : RowsUpTo(reply, W, i) \in Nat /\ RowsUpTo(reply, W, i) <= RowsUpTo(reply, W, n)
<1> SUFFICES ASSUME NEW i \in 0..n
             PROVE  RowsUpTo(reply, W, i) \in Nat /\ RowsUpTo(reply, W, i) <= RowsUpTo(reply, W, n)
  OBVIOUS
<1> DEFINE A == {j \in 1..i : Claimed(reply, W, j) # {}}
           B == {j \in 1..n : Claimed(reply, W, j) # {}}
<1>1. A \subseteq B
  OBVIOUS
<1>2. IsFiniteSet(B)
  <2>1. IsFiniteSet(1..n) /\ B \subseteq 1..n
    BY FS_Interval
  <2> HIDE DEF B
  <2> QED BY <2>1, FS_Subset
<1>3. RowsUpTo(reply, W, i) = Cardinality(A) /\ RowsUpTo(reply, W, n) = Cardinality(B)
  BY DEF RowsUpTo
<1> HIDE DEF A, B
<1> QED BY <1>1, <1>2, <1>3, FS_Subset, FS_CardinalityType

LEMMA CountGrows ==
    ASSUME NEW n \in Nat, NEW reply, NEW W, NEW i \in 1..n, NEW j \in 1..n, i < j, Claimed(reply, W, j) # {}
    PROVE  RowsUpTo(reply, W, i) < RowsUpTo(reply, W, j)
<1> DEFINE A == {k \in 1..i : Claimed(reply, W, k) # {}}
           B == {k \in 1..j : Claimed(reply, W, k) # {}}
<1>1. A \subseteq B /\ j \in B /\ j \notin A
  OBVIOUS
<1>2. IsFiniteSet(B)
  <2>1. IsFiniteSet(1..j) /\ B \subseteq 1..j
    BY FS_Interval
  <2> HIDE DEF B
  <2> QED BY <2>1, FS_Subset
<1>3. RowsUpTo(reply, W, i) = Cardinality(A) /\ RowsUpTo(reply, W, j) = Cardinality(B)
  BY DEF RowsUpTo
<1> HIDE DEF A, B
<1>4. IsFiniteSet(A)
  BY <1>1, <1>2, FS_Subset
<1>5. /\ Cardinality(A) \in Nat /\ Cardinality(B) \in Nat /\ Cardinality(A) <= Cardinality(B)
      /\ Cardinality(A) = Cardinality(B) => A = B
  BY <1>1, <1>2, <1>4, FS_Subset, FS_CardinalityType
<1> QED BY <1>1, <1>3, <1>5

(* The rows a window becomes are numbered, from 1 and without a gap.             *)
Numbered(rows) == /\ Apart(rows) /\ IsFiniteSet(rows) /\ IsFiniteSet(Turns(rows))
                  /\ \A r \in rows : r.at \in Nat /\ 1 <= r.at /\ r.at <= Cardinality(Turns(rows))

LEMMA ValidateNumbers ==
    ASSUME NEW W, NEW n \in Nat, NEW reply \in [1..n -> SUBSET (W \union {0})]
    PROVE  Numbered(ValidateExchanges(reply, W))
<1> DEFINE V == ValidateExchanges(reply, W)
           J == {j \in 1..n : Claimed(reply, W, j) # {}}
           U == Unclaimed(reply, W)
           claim == [i \in J |-> Claimed(reply, W, i)]
           at(i) == RowsUpTo(reply, W, i)
           claims == {claim[i] : i \in J}
<1>1. IsFiniteSet(J)
  <2>1. IsFiniteSet(1..n) /\ J \subseteq 1..n
    BY FS_Interval
  <2> HIDE DEF J
  <2> QED BY <2>1, FS_Subset
<1>2. \A i, j \in J : i # j => Claimed(reply, W, i) \intersect Claimed(reply, W, j) = {}
  <2> SUFFICES ASSUME NEW i \in J, NEW j \in J, i < j
               PROVE  Claimed(reply, W, i) \intersect Claimed(reply, W, j) = {}
    OBVIOUS
  <2> QED BY DEF Claimed
<1>3. \A i \in J : Claimed(reply, W, i) # {} /\ Claimed(reply, W, i) \intersect U = {}
  BY DEF Claimed, Unclaimed
<1>4. \A r : r \in V <=> \/ \E i \in J : r = [at |-> at(i), turns |-> Claimed(reply, W, i)]
                         \/ U # {} /\ r = [at |-> at(n) + 1, turns |-> U]
  <2>1. Cardinality(1..n) = n /\ DOMAIN reply = 1..n
    BY FS_Interval
  <2> QED BY <2>1 DEF ValidateExchanges
<1>5. claim \in Bijection(J, claims)
  BY <1>2, <1>3 DEF Bijection, Injection, IsInjective, Surjection
<1>6. Turns(V) = claims \union IF U = {} THEN {} ELSE {U}
  <2>1. Turns(V) = {Claimed(reply, W, i) : i \in {j \in 1..n : Claimed(reply, W, j) # {}}}
                   \union IF Unclaimed(reply, W) = {} THEN {} ELSE {Unclaimed(reply, W)}
    BY ValidateTurns
  <2>2. claims = {Claimed(reply, W, i) : i \in J}
    OBVIOUS
  <2> QED BY <2>1, <2>2
<1>7. at(n) = Cardinality(J) /\ at(n) \in Nat
  BY <1>1, FS_CardinalityType DEF RowsUpTo
<1>8. U # {} => U \notin claims
  BY <1>3
<1>9. IsFiniteSet(V)
  <2> DEFINE row == [i \in J |-> [at |-> at(i), turns |-> Claimed(reply, W, i)]]
             of == {row[i] : i \in J}
             last == {[at |-> at(n) + 1, turns |-> U]}
  <2>1. V \subseteq of \union last
    BY <1>4
  <2>2. row \in Surjection(J, of)
    BY DEF Surjection
  <2> HIDE DEF row, of, V, J
  <2>3. IsFiniteSet(of)
    BY <1>1, <2>2, FS_Surjection
  <2>4. IsFiniteSet(of \union last)
    BY <2>3, FS_AddElement
  <2> HIDE DEF last
  <2> QED BY <2>1, <2>4, FS_Subset
<1>10. \A i \in J : at(i) \in Nat /\ 1 <= at(i) /\ at(i) <= at(n)
  <2> SUFFICES ASSUME NEW i \in J PROVE at(i) \in Nat /\ 1 <= at(i) /\ at(i) <= at(n)
    OBVIOUS
  <2>1. i \in 1..n /\ Claimed(reply, W, i) # {}
    OBVIOUS
  <2> DEFINE A == {j \in 1..i : Claimed(reply, W, j) # {}}
  <2>2. i \in A /\ IsFiniteSet(A)
    <3>1. IsFiniteSet(1..i) /\ A \subseteq 1..i /\ i \in A
      BY <2>1, FS_Interval
    <3> HIDE DEF A
    <3> QED BY <3>1, FS_Subset
  <2>3. at(i) = Cardinality(A)
    BY DEF RowsUpTo
  <2>4. at(i) \in Nat /\ at(i) <= at(n)
    BY <2>1, CountIs
  <2> HIDE DEF A, at
  <2>5. at(i) # 0
    BY <2>2, <2>3, FS_EmptySet
  <2> QED BY <2>4, <2>5
<1>11. \A i, j \in J : i < j => at(i) < at(j)
  BY CountGrows
<1> HIDE DEF J, U, at, V
<1>12. Apart(V)
  <2> SUFFICES ASSUME NEW p \in V, NEW q \in V, p # q
               PROVE  p.turns \intersect q.turns = {} /\ p.at # q.at
    BY DEF Apart
  <2>1. ASSUME NEW i \in J, NEW j \in J, p = [at |-> at(i), turns |-> Claimed(reply, W, i)],
               q = [at |-> at(j), turns |-> Claimed(reply, W, j)]
        PROVE  p.turns \intersect q.turns = {} /\ p.at # q.at
    <3>1. i # j /\ i \in Nat /\ j \in Nat
      BY <2>1 DEF J
    <3>2. at(i) # at(j)
      BY <1>10, <1>11, <3>1
    <3> QED BY <1>2, <2>1, <3>1, <3>2
  <2>2. ASSUME NEW i \in J, NEW r, NEW s, r = [at |-> at(i), turns |-> Claimed(reply, W, i)],
               s = [at |-> at(n) + 1, turns |-> U]
        PROVE  r.turns \intersect s.turns = {} /\ r.at # s.at
    BY <1>3, <1>7, <1>10, <2>2
  <2> QED BY <1>4, <2>1, <2>2
<1>13. /\ IsFiniteSet(Turns(V)) /\ Cardinality(Turns(V)) \in Nat /\ at(n) <= Cardinality(Turns(V))
       /\ U # {} => at(n) + 1 <= Cardinality(Turns(V))
  <2> HIDE DEF claims, claim
  <2>1. claim \in Surjection(J, claims) /\ claim \in Injection(J, claims)
    BY <1>5 DEF Bijection
  <2>2. IsFiniteSet(claims) /\ Cardinality(claims) \in Nat
    BY <1>1, <2>1, FS_Surjection, FS_CardinalityType
  <2>3. at(n) <= Cardinality(claims)
    BY <1>7, <2>1, <2>2, FS_Injection
  <2>4. CASE U = {}
    BY <1>6, <2>2, <2>3, <2>4
  <2>5. CASE U # {}
    <3>1. Turns(V) = claims \union {U} /\ U \notin claims
      BY <1>6, <1>8, <2>5
    <3>2. IsFiniteSet(Turns(V)) /\ Cardinality(Turns(V)) = Cardinality(claims) + 1
      BY <2>2, <3>1, FS_AddElement
    <3> QED BY <1>7, <2>2, <2>3, <3>2
  <2> QED BY <2>4, <2>5
<1>14. ASSUME NEW r \in V PROVE r.at \in Nat /\ 1 <= r.at /\ r.at <= Cardinality(Turns(V))
  <2>1. CASE \E i \in J : r = [at |-> at(i), turns |-> Claimed(reply, W, i)]
    BY <1>7, <1>10, <1>13, <2>1
  <2>2. CASE U # {} /\ r = [at |-> at(n) + 1, turns |-> U]
    BY <1>7, <1>13, <2>2
  <2> QED BY <1>4, <2>1, <2>2
<1> QED BY <1>9, <1>12, <1>13, <1>14 DEF Numbered, V

(* A list of the store, of what has been filed so far.                          *)
Listed(rows) ==
    /\ Apart(rows) /\ IsFiniteSet(rows) /\ Cardinality(rows) <= CONVERSATIONS_KEEP
    /\ Turns(rows) \subseteq filed
    /\ \A r \in rows : r.at <= Cardinality(filed)

Filing ==
    /\ Listed(resolved) /\ Listed(file.rows) /\ Listed(exitRows)
    /\ db \subseteq filed
    /\ Turns(todo) \subseteq filed
    /\ pc = "store" => Numbered(exchanges)

LEMMA NoRows == Listed({})
<1>1. IsFiniteSet({}) /\ Cardinality({}) = 0
  BY FS_EmptySet
<1> QED BY <1>1, WindowAssumption DEF Listed, Apart, Turns, WindowAssumption

LEMMA TornNoFile == Torn.rows = {} /\ NoFile.rows = {} /\ \A rows : Saved(rows).rows = rows
BY DEF Torn, NoFile, Saved

LEMMA ListedStays ==
    ASSUME UNCHANGED filed, NEW rows, Listed(rows)
    PROVE  Listed(rows)'
BY DEF Listed, Apart, Turns

LEMMA FilingInit == Init => Filing
<1> SUFFICES ASSUME Init PROVE Filing
  OBVIOUS
<1>1. /\ resolved = {} /\ file.rows = {} /\ exitRows = {} /\ db = {} /\ todo = {} /\ pc = "load"
  BY TornNoFile DEF Init
<1>2. Turns(todo) = {}
  BY <1>1 DEF Turns
<1> QED BY <1>1, <1>2, NoRows DEF Filing

(* A stored window: its rows follow those the list had, and more are filed.      *)
LEMMA StoreLists ==
    ASSUME IInv, Filing, StoreResolved
    PROVE  Filing'
<1>1. /\ pc = "store" /\ pc' = "open" /\ todo' = exchanges /\ resolved' = Extend(resolved, exchanges)
      /\ filed' = filed \union Turns(exchanges) /\ UNCHANGED <<file, db>>
  BY DEF StoreResolved
<1> DEFINE F == Cardinality(filed)
           C == Turns(exchanges)
           new == {[r EXCEPT !.at = F + r.at] : r \in exchanges}
           all == resolved \union new
<1>2. F \in Nat /\ IsFiniteSet(filed)
  <2>1. TypeOK
    BY DEF IInv
  <2>2. IsFiniteSet(1..Len(log))
    BY <2>1, FS_Interval DEF TypeOK
  <2>3. IsFiniteSet(SUBSET (1..Len(log)))
    BY <2>2, FS_SUBSET
  <2>4. IsFiniteSet(filed)
    BY <2>1, <2>3, FS_Subset DEF TypeOK
  <2> QED BY <2>4, FS_CardinalityType
<1>3. Numbered(exchanges) /\ C = Turns(exchanges)
  BY <1>1 DEF Filing
<1>4. exchanges \subseteq Rows /\ resolved \subseteq Rows
  BY DEF IInv, TypeOK
<1>5. /\ UNION C = window /\ {} \notin C
      /\ window \intersect UNION filed = {}
  BY <1>1 DEF IInv, Handover, OneHome, Promise!SharesOut
<1>6. filed \intersect C = {}
  BY <1>5
<1>7. IsFiniteSet(C) /\ Cardinality(C) \in Nat
  BY <1>3, FS_CardinalityType DEF Numbered
<1>8. Cardinality(filed') = F + Cardinality(C)
  <2>1. Cardinality(filed \union C) = F + Cardinality(C) - Cardinality(filed \intersect C)
    BY <1>2, <1>7, FS_Union
  <2>2. Cardinality(filed \intersect C) = 0
    BY <1>6, FS_EmptySet
  <2> QED BY <1>1, <1>2, <1>7, <2>1, <2>2
<1> HIDE DEF F, C
<1>9. ASSUME NEW s \in new
      PROVE  \E r \in exchanges : s = [r EXCEPT !.at = F + r.at] /\ s.at = F + r.at /\ s.turns = r.turns
                                  /\ r.at \in Nat /\ 1 <= r.at /\ r.at <= Cardinality(C)
  <2>1. PICK r \in exchanges : s = [r EXCEPT !.at = F + r.at]
    OBVIOUS
  <2>2. s.at = F + r.at /\ s.turns = r.turns
    BY <1>4, <2>1 DEF Rows
  <2> QED BY <1>3, <2>1, <2>2 DEF Numbered, C
<1>10. IsFiniteSet(new)
  <2> DEFINE move == [r \in exchanges |-> [r EXCEPT !.at = F + r.at]]
  <2>1. move \in Surjection(exchanges, new)
    BY DEF Surjection
  <2> HIDE DEF new, move
  <2> QED BY <1>3, <2>1, FS_Surjection DEF Numbered
<1>11. new \subseteq Rows
  <2> SUFFICES ASSUME NEW s \in new PROVE s \in Rows
    OBVIOUS
  <2>1. PICK r \in exchanges : s = [r EXCEPT !.at = F + r.at] /\ r.at \in Nat
    BY <1>9
  <2> QED BY <1>2, <1>4, <2>1 DEF Rows
<1> HIDE DEF new
<1>12. Apart(all)
  <2> SUFFICES ASSUME NEW p \in all, NEW q \in all, p # q
               PROVE  p.turns \intersect q.turns = {} /\ p.at # q.at
    BY DEF Apart
  <2>1. ASSUME NEW s \in resolved, NEW t \in new
        PROVE  s.turns \intersect t.turns = {} /\ s.at # t.at
    <3>1. s.turns \in filed /\ s.at \in Nat /\ s.at <= F
      BY <1>4 DEF Filing, Listed, Turns, Rows, F
    <3>2. PICK r \in exchanges : t.at = F + r.at /\ t.turns = r.turns /\ r.at \in Nat /\ 1 <= r.at
      BY <1>9
    <3>3. r.turns \in C
      BY DEF C, Turns
    <3> QED BY <1>2, <1>5, <3>1, <3>2, <3>3
  <2>2. ASSUME p \in new, q \in new
        PROVE  p.turns \intersect q.turns = {} /\ p.at # q.at
    <3>1. PICK r \in exchanges : p = [r EXCEPT !.at = F + r.at] /\ p.at = F + r.at /\ p.turns = r.turns /\ r.at \in Nat
      BY <1>9, <2>2
    <3>2. PICK s \in exchanges : q = [s EXCEPT !.at = F + s.at] /\ q.at = F + s.at /\ q.turns = s.turns /\ s.at \in Nat
      BY <1>9, <2>2
    <3>3. r # s
      BY <3>1, <3>2
    <3>4. r.turns \intersect s.turns = {} /\ r.at # s.at
      BY <1>3, <3>3 DEF Numbered, Apart
    <3> QED BY <1>2, <3>1, <3>2, <3>4
  <2>3. ASSUME p \in resolved, q \in resolved
        PROVE  p.turns \intersect q.turns = {} /\ p.at # q.at
    BY <2>3 DEF Filing, Listed, Apart
  <2> QED BY <2>1, <2>2, <2>3
<1>13. IsFiniteSet(all) /\ all \subseteq Rows
  BY <1>4, <1>10, <1>11, FS_Union DEF Filing, Listed
<1>14. resolved' = Newest(all)
  BY <1>1 DEF Extend, new, F
<1>15. \A r \in all : r.at <= F + Cardinality(C) /\ r.turns \in filed'
  <2>1. ASSUME NEW r \in resolved PROVE r.at <= F + Cardinality(C) /\ r.turns \in filed'
    BY <1>1, <1>2, <1>4, <1>7 DEF Filing, Listed, Turns, Rows, F
  <2>2. ASSUME NEW s \in new PROVE s.at <= F + Cardinality(C) /\ s.turns \in filed'
    <3>1. PICK r \in exchanges : s.at = F + r.at /\ s.turns = r.turns /\ r.at \in Nat /\ r.at <= Cardinality(C)
      BY <1>9
    <3>2. r.turns \in Turns(exchanges)
      BY DEF Turns
    <3> QED BY <1>1, <1>2, <1>7, <3>1, <3>2
  <2> QED BY <2>1, <2>2
<1> HIDE DEF all
<1>16. /\ IsFiniteSet(Newest(all)) /\ Cardinality(Newest(all)) <= CONVERSATIONS_KEEP /\ Apart(Newest(all))
       /\ Newest(all) \subseteq all
  BY <1>12, <1>13, NewestIsShort, NewestSubset
<1>17. Listed(resolved)'
  <2>1. \A r \in resolved' : r.at <= Cardinality(filed') /\ r.turns \in filed'
    BY <1>8, <1>14, <1>15, <1>16
  <2> QED BY <1>14, <1>16, <2>1 DEF Listed, Apart, Turns
<1>18. ASSUME NEW rows, Listed(rows), rows \subseteq Rows, rows' = rows
       PROVE  Listed(rows)'
  <2>1. Turns(rows) \subseteq filed'
    BY <1>1, <1>18 DEF Listed
  <2>2. \A r \in rows : r.at <= Cardinality(filed')
    <3>1. \A r \in rows : r.at \in Nat /\ r.at <= F
      BY <1>18 DEF Listed, Rows, F
    <3> QED BY <1>2, <1>7, <1>8, <3>1
  <2> QED BY <1>18, <2>1, <2>2 DEF Listed, Apart, Turns
<1>19. Listed(file.rows)' /\ Listed(exitRows)'
  <2>1. UNCHANGED <<file, exitRows>>
    BY DEF StoreResolved, exits
  <2>2. Listed(file.rows) /\ Listed(exitRows) /\ file.rows \subseteq Rows /\ exitRows \subseteq Rows
    BY DEF Filing, IInv, TypeOK
  <2> QED BY <1>18, <2>1, <2>2
<1> QED BY <1>1, <1>17, <1>19 DEF Filing

LEMMA FilingStays ==
    ASSUME Filing, UNCHANGED <<resolved, db, todo, filed>>,
           file'.rows \in {file.rows, resolved, exitRows, {}}, exitRows' \in {exitRows, resolved},
           pc' = "store" => Numbered(exchanges')
    PROVE  Filing'
<1>1. Listed(file'.rows) /\ Listed(resolved) /\ Listed(exitRows')
  BY NoRows DEF Filing
<1>2. Listed(file.rows)' /\ Listed(resolved)' /\ Listed(exitRows)'
  BY <1>1 DEF Listed, Apart, Turns
<1> QED BY <1>2 DEF Filing, Turns

LEMMA FilingNext == IInv /\ Filing /\ [Next]_vars => Filing'
<1> SUFFICES ASSUME IInv, Filing, [Next]_vars PROVE Filing'
  OBVIOUS
<1>1. CASE StoreResolved
  BY <1>1, StoreLists
<1>2. CASE Resolve
  <2>1. pc = "resolve" /\ UNCHANGED <<resolved, db, todo, filed, file, exitRows>>
    BY <1>2 DEF Resolve, stores, hist, exits
  <2>2. window # {}
    BY <2>1 DEF IInv, Handover
  <2>3. CASE exchanges' = Unresolved(window)
    <3>1. exchanges' = {[at |-> 1, turns |-> window]}
      BY <2>3 DEF Unresolved
    <3>2. Turns(exchanges') = {window}
      BY <3>1 DEF Turns
    <3>3. IsFiniteSet({window}) /\ Cardinality({window}) = 1 /\ IsFiniteSet({[at |-> 1, turns |-> window]})
      BY FS_Singleton
    <3>4. Numbered(exchanges')
      BY <3>1, <3>2, <3>3 DEF Numbered, Apart
    <3> QED BY <2>1, <3>4, FilingStays
  <2>4. ASSUME NEW reply \in Replies(window), exchanges' = ValidateExchanges(reply, window)
        PROVE  Filing'
    <3>1. PICK n \in 0..MaxExchanges : reply \in [1..n -> SUBSET (window \union {0})]
      BY DEF Replies
    <3>2. n \in Nat
      BY BoundAssumption DEF BoundAssumption
    <3>3. Numbered(exchanges')
      BY <2>4, <3>1, <3>2, ValidateNumbers
    <3> QED BY <2>1, <3>3, FilingStays
  <2> QED BY <1>2, <2>3, <2>4 DEF Resolve
<1>3. CASE OpenFile \/ WriteFile \/ AtExit
  <2>1. UNCHANGED <<resolved, db, todo, filed>>
    BY <1>3, ExitLeaves DEF OpenFile, WriteFile, hist
  <2>2. file'.rows \in {file.rows, resolved, exitRows, {}} /\ exitRows' \in {exitRows, resolved}
    BY <1>3, TornNoFile, DumpMakes, ExitLeaves DEF OpenFile, WriteFile, exits
  <2>3. pc' = "store" => pc = "store" /\ exchanges' = exchanges
    BY <1>3, ExitLeaves DEF OpenFile, WriteFile
  <2> QED BY <2>1, <2>2, <2>3, FilingStays DEF Filing
<1>4. CASE Archive
  <2>1. UNCHANGED <<resolved, file, filed, pc, exitRows>> /\ pc # "store"
    BY <1>4 DEF Archive, hist, exits
  <2>2. PICK r \in todo : db' = Insert(r.turns) /\ todo' = todo \ {r}
    BY <1>4 DEF Archive
  <2>3. db' \subseteq filed /\ Turns(todo') \subseteq filed
    BY <2>2 DEF Filing, Insert, Turns
  <2>4. Listed(file.rows)' /\ Listed(resolved)' /\ Listed(exitRows)'
    BY <2>1 DEF Filing, Listed, Apart, Turns
  <2> QED BY <2>1, <2>3, <2>4 DEF Filing
<1>5. CASE ArchiveFails
  <2>1. /\ UNCHANGED <<resolved, file, filed, db, exitRows>> /\ todo' = {} /\ pc' # "store"
    BY <1>5 DEF ArchiveFails, AfterArchive, hist, exits
  <2>2. Turns(todo') \subseteq filed
    BY <2>1 DEF Turns
  <2>3. Listed(file.rows)' /\ Listed(resolved)' /\ Listed(exitRows)'
    BY <2>1 DEF Filing, Listed, Apart, Turns
  <2> QED BY <2>1, <2>2, <2>3 DEF Filing
<1>6. CASE Crash
  <2>1. /\ UNCHANGED <<file, filed, db>> /\ resolved' = {} /\ exitRows' = {} /\ todo' = {} /\ pc' = "down"
    BY <1>6 DEF Crash
  <2>2. Turns(todo') \subseteq filed
    BY <2>1 DEF Turns
  <2>3. Listed(file.rows)' /\ Listed(resolved)' /\ Listed(exitRows)'
    <3>1. Listed(file.rows) /\ Listed({})
      BY NoRows DEF Filing
    <3> QED BY <2>1, <3>1 DEF Listed, Apart, Turns
  <2> QED BY <2>1, <2>2, <2>3 DEF Filing
<1>7. CASE LoadConversations
  <2>1. /\ resolved' = Newest(file.rows) /\ todo' = resolved' /\ UNCHANGED <<file, filed, db, exitRows>>
        /\ pc' # "store"
    BY <1>7 DEF LoadConversations, hist, exits
  <2>2. Listed(file.rows) /\ file.rows \subseteq Rows
    BY DEF Filing, IInv, TypeOK
  <2>3. /\ IsFiniteSet(resolved') /\ Cardinality(resolved') <= CONVERSATIONS_KEEP
        /\ Apart(resolved') /\ resolved' \subseteq file.rows
    BY <2>1, <2>2, NewestIsShort, NewestSubset DEF Listed
  <2>4. Listed(resolved)'
    BY <2>1, <2>2, <2>3 DEF Listed, Turns, Apart
  <2>5. Listed(file.rows)' /\ Listed(exitRows)'
    BY <2>1, <2>2 DEF Filing, Listed, Turns, Apart
  <2>6. Turns(todo') \subseteq filed
    BY <2>1, <2>4 DEF Listed
  <2> QED BY <2>1, <2>4, <2>5, <2>6 DEF Filing
<1>8. CASE \/ Tick \/ (\E ch \in Channel : Record(ch)) \/ ReadClock \/ TakeClosedWindows
           \/ BeginWindow \/ EndPass \/ ResolveRaises \/ ArchiveDone \/ Restart \/ UNCHANGED vars
  <2>1. UNCHANGED <<resolved, file, db, todo, filed, exitRows>>
    BY <1>8 DEF Tick, Record, ReadClock, TakeClosedWindows, BeginWindow, EndPass, ResolveRaises,
       ArchiveDone, Restart, vars, proc, stores, hist, exits
  <2>2. pc' = "store" => pc = "store" /\ exchanges' = exchanges
    BY <1>8 DEF Tick, Record, ReadClock, TakeClosedWindows, BeginWindow, EndPass, ResolveRaises,
       ArchiveDone, AfterArchive, Restart, vars, proc
  <2> QED BY <2>1, <2>2, FilingStays DEF Filing
<1> QED BY <1>1, <1>2, <1>3, <1>4, <1>5, <1>6, <1>7, <1>8 DEF Next, Reaper

-----------------------------------------------------------------------------
(* However often the process dies, reloads and archives again, no two rows of a  *)
(* list share a transmission, and list and table show only what was resolved.    *)
THEOREM EachInOneRow == Spec => []InOneRow
<1>1. Init => Filing
  BY FilingInit
<1>2. IInv /\ Filing /\ [Next]_vars => Filing'
  BY FilingNext
<1>3. Filing => InOneRow
  BY DEF Filing, Listed, Apart, InOneRow
<1> QED BY <1>1, <1>2, <1>3, Inductive, PTL DEF Spec

-----------------------------------------------------------------------------
(* The file is the list, except before it is loaded and between a new row and    *)
(* the file that has it, when the last save failed, or while the save of the     *)
(* exit has spoilt it.                                                          *)
Current ==
    /\ pc \notin {"down", "load", "open", "write"} /\ ~saveFailed
    /\ exitPc # "write" /\ ~clash /\ (exitPc = "done" => exitRows = resolved)
    => file.rows = resolved

(* A list that is not too long loses nothing when it is read.                    *)
LEMMA NewestKeepsAll ==
    ASSUME NEW rows \in SUBSET Rows, IsFiniteSet(rows), Cardinality(rows) <= CONVERSATIONS_KEEP
    PROVE  Newest(rows) = rows
<1> SUFFICES ASSUME NEW r \in rows
             PROVE  Cardinality({q \in rows : q.at > r.at}) < CONVERSATIONS_KEEP
  BY DEF Newest
<1> DEFINE after == {q \in rows : q.at > r.at}
<1>1. after \subseteq rows \ {r}
  <2>1. r.at \in Nat
    BY DEF Rows
  <2> QED BY <2>1
<1> HIDE DEF after
<1>2. /\ IsFiniteSet(rows \ {r}) /\ Cardinality(rows \ {r}) = Cardinality(rows) - 1
      /\ Cardinality(rows) \in Nat
  BY FS_RemoveElement, FS_CardinalityType
<1>3. Cardinality(after) \in Nat /\ Cardinality(after) <= Cardinality(rows \ {r})
  BY <1>1, <1>2, FS_Subset, FS_CardinalityType
<1>4. CONVERSATIONS_KEEP \in Nat
  BY WindowAssumption DEF WindowAssumption
<1> QED BY <1>2, <1>3, <1>4 DEF after

LEMMA CurrentNext == IInv /\ Filing /\ Current /\ [Next]_vars => Current'
<1> SUFFICES ASSUME IInv, Filing, Current, [Next]_vars PROVE Current'
  OBVIOUS
<1>1. CASE StoreResolved \/ Crash \/ Restart
  BY <1>1 DEF StoreResolved, Crash, Restart, Current
<1>2. CASE OpenFile
  BY <1>2 DEF OpenFile, Current
<1>3. CASE WriteFile
  BY <1>3, TornNoFile, DumpMakes DEF WriteFile, Current, exits
<1>4. CASE AtExit
  <2>1. CASE ExitSnapshot
    BY <2>1 DEF ExitSnapshot, Current, proc, stores
  <2>2. CASE ExitOpens
    BY <2>2 DEF ExitOpens, Current, proc
  <2>3. CASE ExitWrites
    BY <2>3, TornNoFile, DumpMakes DEF ExitWrites, Current, proc
  <2> QED BY <1>4, <2>1, <2>2, <2>3 DEF AtExit
<1>5. CASE LoadConversations
  <2>1. Newest(file.rows) = file.rows
    <3>1. file.rows \in SUBSET Rows
      BY DEF IInv, TypeOK
    <3> QED BY <3>1, NewestKeepsAll DEF Filing, Listed
  <2> QED BY <1>5, <2>1 DEF LoadConversations, Current
<1>6. CASE \/ Tick \/ (\E ch \in Channel : Record(ch)) \/ ReadClock \/ TakeClosedWindows \/ BeginWindow
           \/ EndPass \/ Resolve \/ ResolveRaises \/ Archive \/ ArchiveDone \/ ArchiveFails \/ UNCHANGED vars
  <2>1. UNCHANGED <<resolved, file, saveFailed, exitPc, exitRows, clash>>
    BY <1>6 DEF Tick, Record, ReadClock, TakeClosedWindows, BeginWindow, EndPass, Resolve, ResolveRaises,
       Archive, ArchiveDone, ArchiveFails, vars, proc, stores, hist, exits
  <2>2. pc' \notin {"down", "load", "open", "write"} => pc \notin {"down", "load", "open", "write"}
    BY <1>6 DEF Tick, Record, ReadClock, TakeClosedWindows, BeginWindow, EndPass, Resolve, ResolveRaises,
       Archive, ArchiveDone, ArchiveFails, AfterArchive, vars, proc
  <2> QED BY <2>1, <2>2 DEF Current
<1> QED BY <1>1, <1>2, <1>3, <1>4, <1>5, <1>6 DEF Next, Reaper

(* Killing an idle proxy costs no conversation: between two passes the file has   *)
(* exactly the rows of the list, unless the last save failed, whatever crashes    *)
(* and restarts did to it; and the save of an orderly exit, which may come between *)
(* any two steps of the reaper's, spoils it only by being under way, by writing    *)
(* together with the reaper or by putting back a list that has grown since         *)
(* (conversations.py, _save_conversations).                                       *)
THEOREM TheFileIsCurrent == Spec => []RollingFileCurrent
<1>1. Init => Filing /\ Current
  BY FilingInit DEF Init, Current
<1>2. IInv /\ Filing /\ Current /\ [Next]_vars => Filing' /\ Current'
  BY FilingNext, CurrentNext
<1>3. Current => RollingFileCurrent
  BY DEF Current, RollingFileCurrent
<1> QED BY <1>1, <1>2, <1>3, Inductive, PTL DEF Spec

-----------------------------------------------------------------------------
(***************************************************************************)
(* Windows.  One is a stretch of its talk, it has the full size when the talk *)
(* goes on behind it, and nothing recorded later belongs to one that was     *)
(* closed as quiet.                                                         *)
(***************************************************************************)
MAX == CONVERSATION_MAX_CHUNKS

LEMMA DivBounds ==
    ASSUME NEW r \in Nat
    PROVE  /\ MAX \in Nat \ {0} /\ r \div MAX \in Nat
           /\ (r \div MAX) * MAX <= r /\ r < (r \div MAX) * MAX + MAX
BY WindowAssumption DEF MAX

LEMMA DivMonotone ==
    ASSUME NEW r \in Nat, NEW s \in Nat, r <= s
    PROVE  r \div MAX <= s \div MAX
BY WindowAssumption DEF MAX

LEMMA DivSteps ==
    ASSUME NEW r \in Nat, NEW s \in Nat, r \div MAX < s \div MAX
    PROVE  (r \div MAX) * MAX + MAX <= (s \div MAX) * MAX
<1>1. ASSUME NEW p \in Nat, NEW q \in Nat, p < q PROVE p * MAX + MAX <= q * MAX
  BY <1>1, WindowAssumption DEF MAX
<1> QED BY <1>1, DivBounds

-----------------------------------------------------------------------------
(* Chunks in order: the least, the greatest, the next, the one before.         *)
LEMMA GreatestOf ==
    ASSUME NEW n \in Nat, NEW S \in SUBSET (1..n), S # {}
    PROVE  Max(S) \in S /\ \A k \in S : k <= Max(S)
<1> DEFINE Back == {n - x : x \in S}
<1>1. Back \in SUBSET Nat /\ Back # {}
  OBVIOUS
<1>2. PICK b \in Back : \A k \in Back : b <= k
  BY <1>1, LeastNat
<1>3. PICK m \in S : b = n - m
  BY <1>2
<1>4. \A k \in S : k <= m
  BY <1>2, <1>3
<1>5. \E x \in S : \A y \in S : x >= y
  BY <1>3, <1>4
<1> QED BY <1>5 DEF Max

LEMMA NextOne ==
    ASSUME NEW S \in SUBSET Nat, NEW m \in S, NEW c \in S, m < c
    PROVE  \E e \in S : m < e /\ e <= c /\ \A x \in S : m < x => e <= x
<1>1. {x \in S : m < x} \in SUBSET Nat /\ {x \in S : m < x} # {}
  OBVIOUS
<1>2. PICK e \in {x \in S : m < x} : \A k \in {x \in S : m < x} : e <= k
  BY <1>1, LeastNat
<1> QED BY <1>2

-----------------------------------------------------------------------------
(* How many chunks of S lie between f and c: the place of c in a talk.          *)
Rank(S, f, c) == Cardinality({d \in S : f <= d /\ d < c})

LEMMA RankType ==
    ASSUME NEW S \in SUBSET Nat, IsFiniteSet(S), NEW f \in S, NEW c \in S
    PROVE  /\ Rank(S, f, c) \in Nat /\ IsFiniteSet({d \in S : f <= d /\ d < c})
           /\ Rank(S, f, f) = 0
<1>1. {d \in S : f <= d /\ d < c} \in SUBSET S
  OBVIOUS
<1>2. {d \in S : f <= d /\ d < f} = {}
  <2>1. \A d \in S : ~(f <= d /\ d < f)
    OBVIOUS
  <2> QED BY <2>1
<1> QED BY <1>1, <1>2, FS_Subset, FS_CardinalityType, FS_EmptySet DEF Rank

LEMMA RankNext ==
    ASSUME NEW S \in SUBSET Nat, IsFiniteSet(S), NEW f \in S, NEW m \in S, NEW e \in S,
           f <= m, m < e, \A x \in S : m < x => e <= x
    PROVE  Rank(S, f, e) = Rank(S, f, m) + 1
<1> DEFINE C == {d \in S : f <= d /\ d < m}
<1>1. \A d \in S : f <= d /\ d < e <=> (f <= d /\ d < m) \/ d = m
  OBVIOUS
<1>2. {d \in S : f <= d /\ d < e} = C \union {m}
  BY <1>1
<1>3. m \notin C
  OBVIOUS
<1>4. IsFiniteSet(C) /\ Cardinality(C) = Rank(S, f, m)
  BY RankType DEF Rank
<1> HIDE DEF C
<1>5. Cardinality(C \union {m}) = Cardinality(C) + 1
  BY <1>3, <1>4, FS_AddElement
<1> QED BY <1>2, <1>4, <1>5 DEF Rank

LEMMA RankGrows ==
    ASSUME NEW S \in SUBSET Nat, IsFiniteSet(S), NEW f \in S, NEW c \in S, NEW d \in S, c <= d
    PROVE  Rank(S, f, c) <= Rank(S, f, d)
<1>1. \A x \in S : f <= x /\ x < c => f <= x /\ x < d
  OBVIOUS
<1>2. {x \in S : f <= x /\ x < c} \in SUBSET {x \in S : f <= x /\ x < d}
  BY <1>1
<1> QED BY <1>2, RankType, FS_Subset DEF Rank

(* The chunks from g to m are as many as their places are apart.                *)
LEMMA StretchSize ==
    ASSUME NEW S \in SUBSET Nat, IsFiniteSet(S), NEW f \in S, NEW g \in S, NEW m \in S,
           f <= g, g <= m
    PROVE  /\ IsFiniteSet({d \in S : g <= d /\ d <= m})
           /\ Cardinality({d \in S : g <= d /\ d <= m}) = Rank(S, f, m) + 1 - Rank(S, f, g)
<1> DEFINE A == {d \in S : f <= d /\ d < g}
           B == {d \in S : g <= d /\ d <= m}
           C == {d \in S : f <= d /\ d < m}
<1>1. /\ IsFiniteSet(A) /\ IsFiniteSet(C)
      /\ Rank(S, f, g) = Cardinality(A) /\ Rank(S, f, m) = Cardinality(C)
      /\ Cardinality(A) \in Nat /\ Cardinality(C) \in Nat
  BY RankType DEF Rank
<1>2. IsFiniteSet(B) /\ Cardinality(B) \in Nat
  <2>1. B \in SUBSET S
    OBVIOUS
  <2> QED BY <2>1, FS_Subset, FS_CardinalityType
<1>3. A \union B = C \union {m}
  <2>1. \A d \in S : (f <= d /\ d < g) \/ (g <= d /\ d <= m) <=> (f <= d /\ d < m) \/ d = m
    OBVIOUS
  <2> QED BY <2>1
<1>4. A \intersect B = {} /\ m \notin C
  <2>1. \A d \in S : ~((f <= d /\ d < g) /\ (g <= d /\ d <= m))
    OBVIOUS
  <2>2. ~(m < m)
    OBVIOUS
  <2> QED BY <2>1, <2>2
<1> HIDE DEF A, B, C
<1>5. Cardinality(C \union {m}) = Cardinality(C) + 1
  BY <1>1, <1>4, FS_AddElement
<1>6. Cardinality(A \union B) = Cardinality(A) + Cardinality(B)
  <2>1. Cardinality(A \union B) = Cardinality(A) + Cardinality(B) - Cardinality(A \intersect B)
    BY <1>1, <1>2, FS_Union
  <2>2. Cardinality(A \intersect B) = 0
    BY <1>4, FS_EmptySet
  <2> QED BY <1>1, <1>2, <2>1, <2>2
<1>7. Cardinality(B) = Rank(S, f, m) + 1 - Rank(S, f, g)
  <2>1. Cardinality(A) + Cardinality(B) = Cardinality(C) + 1
    BY <1>3, <1>5, <1>6
  <2> QED BY <2>1, <1>1, <1>2
<1> QED BY <1>2, <1>7 DEF B

-----------------------------------------------------------------------------
(* Talks.  Every chunk of S has a first chunk of its talk at or before it, and   *)
(* every chunk in between has the same.                                         *)
Begins(S, d) == \A e \in S : e < d => Time(d) - Time(e) > CONVERSATION_GAP_S

LEMMA TalkBegins ==
    ASSUME NEW n \in Nat, NEW S \in SUBSET (1..n), NEW c \in S
    PROVE  /\ TalkStart(S, c) \in S /\ TalkStart(S, c) <= c /\ Begins(S, TalkStart(S, c))
           /\ \A d \in S : d <= c /\ Begins(S, d) => d <= TalkStart(S, c)
<1> DEFINE F == {d \in S : d <= c /\ \A e \in S : e < d => Time(d) - Time(e) > CONVERSATION_GAP_S}
<1>1. PICK least \in S : \A k \in S : least <= k
  <2>1. S \in SUBSET Nat /\ S # {}
    OBVIOUS
  <2> QED BY <2>1, LeastNat
<1>2. least \in F
  <2>1. least <= c /\ \A e \in S : ~(e < least)
    BY <1>1
  <2> QED BY <2>1
<1>3. F \in SUBSET (1..n) /\ F # {}
  BY <1>2
<1>4. Max(F) \in F /\ \A k \in F : k <= Max(F)
  <2> HIDE DEF F
  <2> QED BY <1>3, GreatestOf
<1> QED BY <1>4 DEF TalkStart, Begins

LEMMA TalkGoesOn ==
    ASSUME NEW n \in Nat, NEW S \in SUBSET (1..n), NEW c \in S, NEW d \in S,
           TalkStart(S, c) <= d, d <= c
    PROVE  TalkStart(S, d) = TalkStart(S, c)
<1> DEFINE f == TalkStart(S, c)
           g == TalkStart(S, d)
<1>1. /\ f \in S /\ f <= c /\ Begins(S, f) /\ g \in S /\ g <= d /\ Begins(S, g)
      /\ \A x \in S : x <= c /\ Begins(S, x) => x <= f
      /\ \A x \in S : x <= d /\ Begins(S, x) => x <= g
  BY TalkBegins
<1> HIDE DEF f, g
<1>2. f <= d
  BY DEF f
<1>3. f <= g /\ g <= c /\ g <= f
  BY <1>1, <1>2
<1>4. f = g
  BY <1>1, <1>3
<1> QED BY <1>4 DEF f, g

(* A chunk within the gap of the one before it is of its talk.                   *)
LEMMA TalkFollows ==
    ASSUME NEW n \in Nat, NEW S \in SUBSET (1..n), NEW m \in S, NEW e \in S, m < e,
           \A x \in S : m < x => e <= x, ~(Time(e) - Time(m) > CONVERSATION_GAP_S)
    PROVE  TalkStart(S, e) = TalkStart(S, m)
<1> DEFINE f == TalkStart(S, m)
           g == TalkStart(S, e)
<1>1. /\ f \in S /\ f <= m /\ Begins(S, f) /\ g \in S /\ g <= e /\ Begins(S, g)
      /\ \A x \in S : x <= m /\ Begins(S, x) => x <= f
      /\ \A x \in S : x <= e /\ Begins(S, x) => x <= g
  BY TalkBegins
<1> HIDE DEF f, g
<1>2. ~Begins(S, e)
  BY DEF Begins
<1>3. g # e
  BY <1>1, <1>2
<1>4. ~(m < g)
  BY <1>1, <1>3
<1>5. f <= g /\ g <= m /\ g <= f
  BY <1>1, <1>4
<1>6. f = g
  BY <1>1, <1>5
<1> QED BY <1>6 DEF f, g

-----------------------------------------------------------------------------
(* Windows.                                                                      *)
Place(S, c) == Rank(S, TalkStart(S, c), c)

LEMMA SameWindow ==
    ASSUME NEW S, NEW c, NEW d
    PROVE  WindowNo(S, d) = WindowNo(S, c) <=>
              /\ TalkStart(S, d) = TalkStart(S, c)
              /\ Place(S, d) \div MAX = Place(S, c) \div MAX
BY DEF WindowNo, Place, Rank, MAX

LEMMA PlaceType ==
    ASSUME NEW n \in Nat, NEW S \in SUBSET (1..n), NEW c \in S
    PROVE  Place(S, c) \in Nat /\ IsFiniteSet(S) /\ S \in SUBSET Nat
<1>1. S \in SUBSET Nat
  OBVIOUS
<1>2. IsFiniteSet(S)
  <2>1. IsFiniteSet(1..n)
    BY FS_Interval
  <2> QED BY <2>1, FS_Subset
<1> QED BY <1>1, <1>2, TalkBegins, RankType DEF Place

(* A window is a stretch: what lies between two of its chunks is in it.          *)
LEMMA WindowIsAStretch ==
    ASSUME NEW n \in Nat, NEW S \in SUBSET (1..n), NEW c \in S, NEW d \in S, NEW e \in S,
           c <= d, d <= e, WindowNo(S, c) = WindowNo(S, e)
    PROVE  WindowNo(S, d) = WindowNo(S, e)
<1> DEFINE f == TalkStart(S, e)
<1>1. TalkStart(S, c) = f /\ Place(S, c) \div MAX = Place(S, e) \div MAX
  BY SameWindow
<1>2. f \in S /\ f <= c /\ S \in SUBSET Nat /\ IsFiniteSet(S)
  BY <1>1, TalkBegins, PlaceType
<1> HIDE DEF f
<1>3. f <= d
  BY <1>2
<1>4. TalkStart(S, d) = f
  BY <1>3, TalkGoesOn DEF f
<1>5. Rank(S, f, c) <= Rank(S, f, d) /\ Rank(S, f, d) <= Rank(S, f, e)
  BY <1>2, RankGrows
<1>6. Place(S, c) = Rank(S, f, c) /\ Place(S, d) = Rank(S, f, d) /\ Place(S, e) = Rank(S, f, e)
  BY <1>1, <1>4 DEF Place, f
<1>7. Place(S, c) \in Nat /\ Place(S, d) \in Nat /\ Place(S, e) \in Nat
  BY PlaceType
<1>8. /\ Place(S, c) \div MAX <= Place(S, d) \div MAX
      /\ Place(S, d) \div MAX <= Place(S, e) \div MAX
  BY <1>5, <1>6, <1>7, DivMonotone
<1>9. Place(S, d) \div MAX = Place(S, e) \div MAX
  BY <1>1, <1>7, <1>8, DivBounds
<1> QED BY <1>4, <1>9, SameWindow DEF f

(* The ends of a window, and its size.                                           *)
LEMMA WindowEnds ==
    ASSUME NEW n \in Nat, NEW S \in SUBSET (1..n), NEW W \in SplitWindows(S)
    PROVE  /\ W \in SUBSET S /\ Max(W) \in W /\ \A x \in W : x <= Max(W)
           /\ \E g \in W : /\ \A x \in W : g <= x
                           /\ W = {d \in S : g <= d /\ d <= Max(W)}
           /\ \A c \in W : W = {d \in S : WindowNo(S, d) = WindowNo(S, c)}
<1>1. PICK c \in S : W = {d \in S : WindowNo(S, d) = WindowNo(S, c)}
  BY DEF SplitWindows
<1>2. W \in SUBSET S /\ W # {} /\ W \in SUBSET (1..n) /\ W \in SUBSET Nat
  <2>1. W \in SUBSET S /\ c \in W
    BY <1>1
  <2>2. \A x \in W : x \in 1..n /\ x \in Nat
    BY <2>1
  <2> QED BY <2>1, <2>2
<1>3. Max(W) \in W /\ \A x \in W : x <= Max(W)
  BY <1>2, GreatestOf
<1>4. PICK g \in W : \A x \in W : g <= x
  BY <1>2, LeastNat
<1>5. ASSUME NEW d \in S, g <= d, d <= Max(W) PROVE d \in W
  <2>1. WindowNo(S, g) = WindowNo(S, Max(W))
    BY <1>1, <1>3
  <2>2. WindowNo(S, d) = WindowNo(S, Max(W))
    BY <1>2, <1>3, <1>5, <2>1, WindowIsAStretch
  <2> QED BY <1>1, <1>3, <2>2
<1>6. W = {d \in S : g <= d /\ d <= Max(W)}
  BY <1>2, <1>3, <1>4, <1>5
<1> QED BY <1>1, <1>2, <1>3, <1>4, <1>6

LEMMA LastOfWindow ==
    ASSUME NEW n \in Nat, NEW S \in SUBSET (1..n), NEW W \in SplitWindows(S)
    PROVE  W \in SUBSET S /\ Max(W) \in W /\ \A x \in W : x <= Max(W)
BY WindowEnds

LEMMA WindowSize ==
    ASSUME NEW n \in Nat, NEW S \in SUBSET (1..n), NEW W \in SplitWindows(S)
    PROVE  /\ IsFiniteSet(W) /\ Cardinality(W) \in Nat /\ Cardinality(W) <= MAX
           /\ \A e \in S : Max(W) < e /\ (\A x \in S : Max(W) < x => e <= x)
                           /\ ~(Time(e) - Time(Max(W)) > CONVERSATION_GAP_S)
                 => Cardinality(W) = MAX
<1> DEFINE m == Max(W)
           f == TalkStart(S, m)
           q == Place(S, m) \div MAX
<1>1. PICK g \in W : /\ \A x \in W : g <= x
                     /\ W = {d \in S : g <= d /\ d <= m}
  BY WindowEnds
<1>2. /\ m \in W /\ W \in SUBSET S /\ W = {d \in S : WindowNo(S, d) = WindowNo(S, m)}
      /\ \A x \in W : x <= m
  BY WindowEnds
<1> HIDE DEF m
<1>3. /\ S \in SUBSET Nat /\ IsFiniteSet(S) /\ Place(S, m) \in Nat /\ Place(S, g) \in Nat
  BY <1>2, PlaceType
<1>4. TalkStart(S, g) = f /\ Place(S, g) \div MAX = q
  BY <1>2, SameWindow
<1>5. /\ f \in S /\ f <= g /\ g <= m
      /\ Rank(S, f, g) = Place(S, g) /\ Rank(S, f, m) = Place(S, m)
  BY <1>1, <1>2, <1>4, TalkBegins DEF Place
<1>6. IsFiniteSet(W) /\ Cardinality(W) = Place(S, m) + 1 - Place(S, g)
  <2>1. g \in S /\ m \in S
    BY <1>2
  <2>2. /\ IsFiniteSet({d \in S : g <= d /\ d <= m})
        /\ Cardinality({d \in S : g <= d /\ d <= m}) = Rank(S, f, m) + 1 - Rank(S, f, g)
    <3> HIDE DEF f
    <3> QED BY <2>1, <1>3, <1>5, StretchSize
  <2> QED BY <1>1, <1>5, <2>2
<1>7. /\ q \in Nat /\ MAX \in Nat \ {0} /\ q * MAX \in Nat
      /\ q * MAX <= Place(S, g) /\ Place(S, m) < q * MAX + MAX
  <2>1. /\ MAX \in Nat \ {0} /\ q \in Nat /\ Place(S, m) < q * MAX + MAX
    BY <1>3, DivBounds
  <2>2. q * MAX <= Place(S, g)
    BY <1>3, <1>4, DivBounds
  <2> HIDE DEF q
  <2>3. q * MAX \in Nat
    BY <2>1
  <2> QED BY <2>1, <2>2, <2>3
<1>8. Place(S, g) <= Place(S, m)
  BY <1>2, <1>3, <1>5, RankGrows
<1> HIDE DEF q, f
<1>9. Cardinality(W) \in Nat /\ Cardinality(W) <= MAX
  BY <1>3, <1>6, <1>7, <1>8
<1>10. Place(S, g) = q * MAX
  <2>1. CASE g = f
    <3>1. Place(S, g) = 0
      BY <1>3, <1>5, <2>1, RankType
    <3> QED BY <3>1, <1>7
  <2>2. CASE g # f
    <3> DEFINE Before == {x \in S : x < g}
               p == Max(Before)
    <3>1. f \in Before /\ Before \in SUBSET (1..n)
      <4>1. f \in Nat /\ g \in Nat /\ f < g
        BY <1>2, <1>3, <1>5, <2>2
      <4> QED BY <1>5, <4>1
    <3>2. p \in Before /\ \A x \in Before : x <= p
      <4> HIDE DEF Before
      <4> QED BY <3>1, GreatestOf
    <3> HIDE DEF p
    <3>3. p \in S /\ p < g /\ f <= p /\ \A x \in S : p < x => g <= x
      BY <1>2, <1>3, <3>1, <3>2
    <3>4. TalkStart(S, p) = f
      <4>1. g \in S /\ p \in Nat /\ g \in Nat
        BY <1>2, <1>3, <3>3
      <4>2. TalkStart(S, g) <= p /\ p <= g
        BY <1>4, <3>3, <4>1
      <4>3. TalkStart(S, p) = TalkStart(S, g)
        BY <3>3, <4>1, <4>2, TalkGoesOn
      <4> QED BY <1>4, <4>3
    <3>5. Place(S, g) = Place(S, p) + 1
      BY <1>2, <1>3, <1>5, <3>3, <3>4, RankNext DEF Place
    <3>6. Place(S, p) \in Nat
      BY <3>3, PlaceType
    <3>7. p \notin W
      BY <1>1, <1>3, <3>3
    <3>8. Place(S, p) \div MAX # q
      BY <1>2, <3>3, <3>4, <3>7, SameWindow DEF f, q
    <3>9. Place(S, p) \div MAX < q
      <4>1. Place(S, p) \div MAX <= Place(S, g) \div MAX
        BY <1>3, <3>5, <3>6, DivMonotone
      <4>2. Place(S, p) \div MAX \in Nat
        BY <3>6, DivBounds
      <4> QED BY <1>4, <1>7, <3>8, <4>1, <4>2
    <3>10. (Place(S, p) \div MAX) * MAX + MAX <= q * MAX
      BY <1>3, <3>6, <3>9, DivSteps DEF q
    <3>11. Place(S, p) < (Place(S, p) \div MAX) * MAX + MAX
           /\ (Place(S, p) \div MAX) * MAX + MAX \in Int
      BY <3>6, DivBounds
    <3> QED BY <1>3, <1>7, <3>5, <3>6, <3>10, <3>11
  <2> QED BY <2>1, <2>2
<1>11. ASSUME NEW e \in S, m < e, \A x \in S : m < x => e <= x,
              ~(Time(e) - Time(m) > CONVERSATION_GAP_S)
       PROVE  Cardinality(W) = MAX
  <2>1. TalkStart(S, e) = f
    BY <1>2, <1>11, TalkFollows DEF f
  <2>2. Place(S, e) = Place(S, m) + 1
    <3>1. f <= m
      BY <1>2, <1>3, <1>5
    <3> QED BY <1>2, <1>3, <1>5, <1>11, <2>1, <3>1, RankNext DEF Place
  <2>3. Place(S, e) \in Nat
    BY PlaceType
  <2>4. e \notin W
    BY <1>2, <1>3, <1>11
  <2>5. Place(S, e) \div MAX # q
    BY <1>2, <2>1, <2>4, SameWindow DEF f, q
  <2>6. q < Place(S, e) \div MAX
    <3>1. q <= Place(S, e) \div MAX /\ Place(S, e) \div MAX \in Nat
      BY <1>3, <2>2, <2>3, DivMonotone, DivBounds DEF q
    <3> QED BY <1>7, <2>5, <3>1
  <2>7. q * MAX + MAX <= (Place(S, e) \div MAX) * MAX
    BY <1>3, <2>3, <2>6, DivSteps DEF q
  <2>8. (Place(S, e) \div MAX) * MAX <= Place(S, e) /\ (Place(S, e) \div MAX) * MAX \in Int
    BY <2>3, DivBounds
  <2> QED BY <1>3, <1>6, <1>7, <1>10, <2>2, <2>3, <2>7, <2>8
<1> QED BY <1>6, <1>9, <1>11 DEF m

-----------------------------------------------------------------------------
(* The journal.                                                                  *)
OneChannel(W) == \A c \in W : log[c].channel = log[Max(W)].channel

Over(W) == Cardinality(W) = MAX \/ now - Time(Max(W)) > CONVERSATION_GAP_S

Clock ==
    /\ \A c, d \in 1..Len(log) : c <= d => Time(c) <= Time(d)
    /\ \A c \in 1..Len(log) : Time(c) <= now
    /\ asOf <= now

(* A closed window is full or lies further back than the gap, and what its       *)
(* channel still has in the journal was recorded after it; of what was recorded   *)
(* since a journalled chunk, nothing is gone but into a closed window.            *)
Cut ==
    /\ Clock
    /\ \A W \in closed :
          /\ W # {} /\ OneChannel(W) /\ Over(W)
          /\ \A c \in journal : log[c].channel = log[Max(W)].channel => Max(W) < c
    /\ \A d \in journal, c \in 1..Len(log) : d <= c => c \in journal \union UNION closed
    /\ NoEarlyClose

LEMMA TimeType ==
    ASSUME TypeOK, NEW c \in 1..Len(log)
    PROVE  Time(c) \in Nat /\ log[c].channel \in Channel
<1> DEFINE Recorded == [time : Nat, channel : Channel]
<1>1. log[c] \in Recorded
  <2>1. log \in Seq(Recorded)
    BY DEF TypeOK
  <2> HIDE DEF Recorded
  <2> QED BY <2>1
<1> QED BY <1>1 DEF Time

(* Talk that goes on within the gap of a window's last chunk fills the window.   *)
LEMMA GoesOnMeansFull ==
    ASSUME TypeOK, Clock, NEW S \in SUBSET (1..Len(log)), NEW W \in SplitWindows(S),
           NEW c \in S, Max(W) < c, Time(c) - Time(Max(W)) <= CONVERSATION_GAP_S
    PROVE  Cardinality(W) = MAX
<1> DEFINE m == Max(W)
<1>1. Len(log) \in Nat
  BY DEF TypeOK
<1>2. m \in S /\ S \in SUBSET Nat
  <2>1. W \in SUBSET S /\ Max(W) \in W
    BY <1>1, LastOfWindow
  <2>2. S \in SUBSET Nat
    BY <1>1
  <2> QED BY <2>1, <2>2
<1>3. m < c /\ Time(c) - Time(m) <= CONVERSATION_GAP_S
  OBVIOUS
<1>4. \A e \in S : m < e /\ (\A x \in S : m < x => e <= x)
                   /\ ~(Time(e) - Time(m) > CONVERSATION_GAP_S) => Cardinality(W) = MAX
  BY <1>1, WindowSize
<1> HIDE DEF m
<1>5. PICK e \in S : m < e /\ e <= c /\ \A x \in S : m < x => e <= x
  BY <1>2, <1>3, NextOne
<1>6. Time(e) <= Time(c)
  BY <1>5 DEF Clock
<1>7. Time(e) \in Nat /\ Time(c) \in Nat /\ Time(m) \in Nat
  BY <1>2, TimeType
<1>8. ~(Time(e) - Time(m) > CONVERSATION_GAP_S)
  BY <1>3, <1>6, <1>7, WindowAssumption
<1> QED BY <1>4, <1>5, <1>8

(* What _take_closed_windows takes.                                              *)
LEMMA Taken ==
    ASSUME TypeOK, Cut, NEW W \in ClosedWindows
    PROVE  /\ W # {} /\ W \in SUBSET journal /\ Max(W) \in W /\ OneChannel(W) /\ Over(W)
           /\ \A c \in journal \ UNION ClosedWindows :
                 log[c].channel = log[Max(W)].channel => Max(W) < c
           /\ \A c \in 1..Len(log) :
                 log[c].channel = log[Max(W)].channel /\ c > Max(W)
                    /\ Time(c) - Time(Max(W)) <= CONVERSATION_GAP_S => Cardinality(W) = MAX
<1> DEFINE m == Max(W)
<1>1. PICK ch \in Channel : W \in SplitWindows(OnChannel(journal, ch))
                            /\ Closed(W, OnChannel(journal, ch))
  BY DEF ClosedWindows
<1> DEFINE S == OnChannel(journal, ch)
<1>2. /\ S \in SUBSET (1..Len(log)) /\ Len(log) \in Nat /\ S \in SUBSET journal
      /\ journal \in SUBSET (1..Len(log))
      /\ \A c \in journal : c \in S <=> log[c].channel = ch
  <2>1. journal \in SUBSET (1..Len(log)) /\ Len(log) \in Nat
    BY DEF TypeOK
  <2>2. \A c : c \in S <=> c \in journal /\ log[c].channel = ch
    BY DEF OnChannel
  <2> HIDE DEF S
  <2> QED BY <2>1, <2>2
<1>3. W \in SplitWindows(S) /\ Closed(W, S)
  BY <1>1
<1> HIDE DEF S
<1>4. ASSUME NEW x \in S, NEW y \in S, NEW z \in S, x <= y, y <= z,
             WindowNo(S, x) = WindowNo(S, z)
      PROVE  WindowNo(S, y) = WindowNo(S, z)
  BY <1>2, <1>4, WindowIsAStretch
<1>5. W \in SUBSET S /\ m \in W /\ \A x \in W : x <= m
  BY <1>2, <1>3, LastOfWindow
<1> HIDE DEF m
<1>6. \A d \in S : d \in W <=> WindowNo(S, d) = WindowNo(S, m)
  <2>1. PICK x \in S : W = {d \in S : WindowNo(S, d) = WindowNo(S, x)}
    BY <1>3 DEF SplitWindows
  <2>2. WindowNo(S, m) = WindowNo(S, x)
    BY <1>5, <2>1
  <2> QED BY <2>1, <2>2
<1>7. \A x \in S : x \in Nat
  BY <1>2
<1>8. m \in S /\ m \in 1..Len(log) /\ log[m].channel = ch /\ m \in journal
  BY <1>2, <1>5
<1>9. OneChannel(W)
  BY <1>2, <1>5, <1>8 DEF OneChannel, m
<1>10. ASSUME NEW c \in S, m < c, Time(c) - Time(m) <= CONVERSATION_GAP_S
      PROVE  Cardinality(W) = MAX
  BY <1>2, <1>3, <1>10, GoesOnMeansFull DEF m, Cut
<1>11. Over(W)
  <2>1. /\ Time(m) \in Nat /\ asOf \in Nat /\ now \in Nat /\ asOf <= now
        /\ CONVERSATION_GAP_S \in Nat
    BY <1>8, TimeType, WindowAssumption DEF Cut, Clock, TypeOK
  <2>2. CASE \E d \in S : d > m
    <3>1. PICK d \in S : m < d
      BY <1>2, <1>8, <2>2
    <3>2. Time(d) \in Nat /\ Time(d) <= now
      BY <1>2, TimeType DEF Cut, Clock
    <3>3. CASE Time(d) - Time(m) <= CONVERSATION_GAP_S
      BY <1>10, <3>1, <3>3 DEF Over
    <3>4. CASE ~(Time(d) - Time(m) <= CONVERSATION_GAP_S)
      <4>1. now - Time(m) > CONVERSATION_GAP_S
        BY <2>1, <3>2, <3>4
      <4> QED BY <4>1 DEF Over, m
    <3> QED BY <3>3, <3>4
  <2>3. CASE Cardinality(W) >= MAX
    <3>1. Cardinality(W) \in Nat /\ Cardinality(W) <= MAX /\ MAX \in Nat
      BY <1>2, <1>3, WindowSize, WindowAssumption DEF MAX
    <3> QED BY <2>3, <3>1 DEF Over
  <2>4. CASE asOf - Time(m) > CONVERSATION_GAP_S
    <3>1. now - Time(m) > CONVERSATION_GAP_S
      BY <2>1, <2>4
    <3> QED BY <3>1 DEF Over, m
  <2> QED BY <1>3, <2>2, <2>3, <2>4 DEF Closed, m, MAX
<1>12. ASSUME NEW c \in journal \ UNION ClosedWindows, log[c].channel = log[m].channel
      PROVE  m < c
  <2> SUFFICES ASSUME c <= m PROVE FALSE
    BY <1>2, <1>8 DEF TypeOK
  <2>1. c \in S
    BY <1>2, <1>8, <1>12
  <2> DEFINE V == {d \in S : WindowNo(S, d) = WindowNo(S, c)}
  <2>2. V \in SplitWindows(S) /\ c \in V
    BY <2>1 DEF SplitWindows
  <2>3. V \in SUBSET S /\ Max(V) \in V /\ \A x \in V : x <= Max(V)
    <3> HIDE DEF V
    <3> QED BY <1>2, <2>2, LastOfWindow
  <2>4. c \notin W
    BY <1>12, <2>1
  <2>5. Max(V) < m
    <3> SUFFICES ASSUME ~(Max(V) < m) PROVE FALSE
      OBVIOUS
    <3>1. Max(V) \in S /\ Max(V) \in Nat /\ m \in Nat
      <4> HIDE DEF V
      <4>1. Max(V) \in S
        BY <2>3
      <4> QED BY <1>7, <1>8, <4>1
    <3>2. m <= Max(V)
      <4> HIDE DEF V
      <4> QED BY <3>1
    <3>3. WindowNo(S, c) = WindowNo(S, Max(V))
      BY <2>3
    <3>4. WindowNo(S, m) = WindowNo(S, Max(V))
      <4> HIDE DEF V
      <4> QED BY <1>4, <1>8, <2>1, <3>1, <3>2, <3>3
    <3> QED BY <2>1, <1>6, <2>4, <3>3, <3>4
  <2>6. Closed(V, S)
    <3> HIDE DEF V
    <3> QED BY <1>2, <1>8, <2>3, <2>5 DEF Closed
  <2>7. V \in ClosedWindows
    <3> HIDE DEF V
    <3> QED BY <2>2, <2>6 DEF ClosedWindows, S
  <2> QED BY <1>12, <2>2, <2>7
<1>13. ASSUME NEW c \in 1..Len(log), log[c].channel = log[m].channel, c > m,
              Time(c) - Time(m) <= CONVERSATION_GAP_S
       PROVE  Cardinality(W) = MAX
  <2>1. c \in journal \union UNION closed
    BY <1>2, <1>8, <1>13 DEF Cut
  <2>2. ASSUME NEW V \in closed, c \in V PROVE FALSE
    <3>1. V \in SUBSET (1..Len(log)) /\ V # {} /\ Len(log) \in Nat
      BY <2>2 DEF TypeOK
    <3>2. Max(V) \in V /\ c <= Max(V)
      BY <2>2, <3>1, GreatestOf
    <3>3. log[m].channel = log[Max(V)].channel
      BY <1>13, <2>2 DEF Cut, OneChannel
    <3>4. Max(V) < m
      BY <1>8, <3>3 DEF Cut
    <3>5. m \in Nat /\ c \in Nat /\ Max(V) \in Nat
      <4>1. Max(V) \in 1..Len(log)
        BY <3>1, <3>2
      <4> QED BY <1>2, <1>8, <1>13, <4>1
    <3> QED BY <1>13, <3>2, <3>4, <3>5
  <2>3. c \in S
    BY <1>2, <1>8, <1>13, <2>1, <2>2
  <2> QED BY <1>2, <1>8, <1>10, <1>13, <2>3
<1> QED BY <1>2, <1>5, <1>9, <1>11, <1>12, <1>13 DEF m

LEMMA CutInit == Init => Cut
<1> SUFFICES ASSUME Init PROVE Cut
  OBVIOUS
<1>1. 1..Len(log) = {}
  BY DEF Init
<1> QED BY <1>1 DEF Init, Cut, Clock, NoEarlyClose

(* A transmission joins the journal now: behind every closed window, and not      *)
(* within the gap of one that is not full.                                        *)
LEMMA CutRecord ==
    ASSUME TypeOK, Cut, NEW ch \in Channel, Record(ch)
    PROVE  Cut'
<1>1. PICK c : c = Len(log) + 1
  OBVIOUS
<1>2. /\ log' = Append(log, [time |-> now, channel |-> ch]) /\ journal' = journal \union {c}
      /\ UNCHANGED <<now, asOf, closed>>
  BY <1>1 DEF Record, proc, hist
<1>3. /\ Len(log) \in Nat /\ now \in Nat /\ asOf \in Nat
      /\ journal \in SUBSET (1..Len(log)) /\ \A W \in closed : W \in SUBSET (1..Len(log))
  BY DEF TypeOK
<1>4. /\ Len(log)' = Len(log) + 1
      /\ \A d \in 1..Len(log) : log'[d] = log[d]
      /\ log'[c] = [time |-> now, channel |-> ch]
  BY <1>2, <1>1 DEF TypeOK
<1>5. \A d \in 1..Len(log) : Time(d)' = Time(d) /\ Time(d) \in Nat /\ Time(d) <= now
  BY <1>4, TimeType DEF Time, Cut, Clock
<1>6. Time(c)' = now
  BY <1>4 DEF Time
<1>7. 1..Len(log)' = 1..Len(log) \union {c} /\ c \in Nat
  BY <1>3, <1>4, <1>1
<1>8. ASSUME NEW W \in closed
      PROVE  /\ Max(W) \in 1..Len(log) /\ \A d \in W : d \in 1..Len(log)
             /\ Max(W) < c
  <2>1. Max(W) \in W
    BY <1>3, GreatestOf DEF Cut
  <2> QED BY <1>3, <1>1, <2>1
<1>9. Clock'
  <2>1. \A d \in 1..Len(log) : d < c
    BY <1>3, <1>1
  <2>2. ASSUME NEW d \in 1..Len(log)', NEW e \in 1..Len(log)', d <= e
        PROVE  Time(d)' <= Time(e)'
    <3>1. CASE e = c
      BY <1>2, <1>3, <1>5, <1>6, <1>7, <3>1
    <3>2. CASE e # c
      <4>1. e \in 1..Len(log) /\ d \in 1..Len(log)
        BY <1>7, <2>1, <2>2, <3>2
      <4> QED BY <1>5, <2>2, <4>1 DEF Cut, Clock
    <3> QED BY <3>1, <3>2
  <2>3. \A d \in 1..Len(log)' : Time(d)' <= now
    BY <1>3, <1>5, <1>6, <1>7
  <2> QED BY <1>2, <2>2, <2>3 DEF Cut, Clock
<1>10. ASSUME NEW W \in closed
      PROVE  /\ W # {} /\ OneChannel(W)' /\ Over(W)'
             /\ \A d \in journal' : log'[d].channel = log'[Max(W)].channel => Max(W) < d
  <2>1. OneChannel(W)'
    BY <1>4, <1>8 DEF Cut, OneChannel
  <2>2. Over(W)'
    BY <1>2, <1>5, <1>8 DEF Cut, Over
  <2>3. ASSUME NEW d \in journal', log'[d].channel = log'[Max(W)].channel PROVE Max(W) < d
    <3>1. CASE d = c
      BY <1>8, <3>1
    <3>2. CASE d \in journal
      BY <1>3, <1>4, <1>8, <2>3, <3>2 DEF Cut
    <3> QED BY <1>2, <2>3, <3>1, <3>2
  <2> QED BY <2>1, <2>2, <2>3 DEF Cut
<1>11. ASSUME NEW d \in journal', NEW e \in 1..Len(log)', d <= e
       PROVE  e \in journal' \union UNION closed
  <2>1. CASE e = c
    BY <1>2, <2>1
  <2>2. CASE e # c
    <3>1. e \in 1..Len(log) /\ d # c
      BY <1>3, <1>7, <1>11, <1>1, <2>2
    <3> QED BY <1>2, <1>11, <3>1 DEF Cut
  <2> QED BY <2>1, <2>2
<1>12. NoEarlyClose'
  <2> SUFFICES ASSUME NEW W \in closed, NEW d \in 1..Len(log)',
                      log'[d].channel = log'[Max(W)].channel, d > Max(W),
                      Time(d)' - Time(Max(W))' <= CONVERSATION_GAP_S
               PROVE  Cardinality(W) = CONVERSATION_MAX_CHUNKS
    BY <1>2 DEF NoEarlyClose
  <2>1. CASE d = c
    <3>1. now - Time(Max(W)) <= CONVERSATION_GAP_S
      BY <1>5, <1>6, <1>8, <2>1
    <3>2. ~(now - Time(Max(W)) > CONVERSATION_GAP_S)
      BY <1>3, <1>5, <1>8, <3>1, WindowAssumption
    <3> QED BY <3>2 DEF Cut, Over, MAX
  <2>2. CASE d # c
    <3>1. d \in 1..Len(log)
      BY <1>7, <2>2
    <3>2. log[d].channel = log[Max(W)].channel /\ Time(d) - Time(Max(W)) <= CONVERSATION_GAP_S
      BY <1>4, <1>5, <1>8, <3>1
    <3> QED BY <3>1, <3>2 DEF Cut, NoEarlyClose
  <2> QED BY <2>1, <2>2
<1> QED BY <1>2, <1>9, <1>10, <1>11, <1>12 DEF Cut

LEMMA CutTake ==
    ASSUME TypeOK, Cut, TakeClosedWindows
    PROVE  Cut'
<1>1. /\ UNCHANGED <<now, log, asOf>> /\ closed' = closed \union ClosedWindows
      /\ journal' = journal \ UNION ClosedWindows
  BY DEF TakeClosedWindows
<1>2. Clock'
  BY <1>1 DEF Cut, Clock, Time
<1>3. ASSUME NEW W \in closed'
      PROVE  /\ W # {} /\ OneChannel(W)' /\ Over(W)'
             /\ \A c \in journal' : log'[c].channel = log'[Max(W)].channel => Max(W) < c
  <2>1. CASE W \in closed
    <3>1. OneChannel(W)' /\ Over(W)'
      BY <1>1, <2>1 DEF Cut, OneChannel, Over, Time
    <3> QED BY <1>1, <2>1, <3>1 DEF Cut
  <2>2. CASE W \in ClosedWindows
    <3>1. /\ W # {} /\ OneChannel(W) /\ Over(W)
          /\ \A c \in journal \ UNION ClosedWindows :
                log[c].channel = log[Max(W)].channel => Max(W) < c
      BY <2>2, Taken
    <3>2. OneChannel(W)' /\ Over(W)'
      BY <1>1, <3>1 DEF OneChannel, Over, Time
    <3> QED BY <1>1, <3>1, <3>2
  <2> QED BY <1>1, <1>3, <2>1, <2>2
<1>4. \A d \in journal', c \in 1..Len(log)' : d <= c => c \in journal' \union UNION closed'
  BY <1>1 DEF Cut
<1>5. NoEarlyClose'
  <2> SUFFICES ASSUME NEW W \in closed', NEW c \in 1..Len(log),
                      log[c].channel = log[Max(W)].channel, c > Max(W),
                      Time(c) - Time(Max(W)) <= CONVERSATION_GAP_S
               PROVE  Cardinality(W) = CONVERSATION_MAX_CHUNKS
    BY <1>1 DEF NoEarlyClose, Time
  <2>1. CASE W \in closed
    BY <2>1 DEF Cut, NoEarlyClose
  <2>2. CASE W \in ClosedWindows
    BY <2>2, Taken DEF MAX
  <2> QED BY <1>1, <2>1, <2>2
<1> QED BY <1>2, <1>3, <1>4, <1>5 DEF Cut

(* The steps that record nothing and take nothing: the clock only goes forward.   *)
LEMMA CutStays ==
    ASSUME TypeOK, Cut, UNCHANGED <<log, journal, closed>>,
           now' \in Nat, now <= now', asOf' \in Nat, asOf' <= now'
    PROVE  Cut'
<1>1. \A c \in 1..Len(log) : Time(c) \in Nat
  BY TimeType
<1>2. now \in Nat
  BY DEF TypeOK
<1>3. Clock'
  BY <1>1, <1>2 DEF Cut, Clock, Time
<1>4. ASSUME NEW W \in closed PROVE Over(W)'
  <2>1. Time(Max(W)) \in Nat
    <3>1. W \in SUBSET (1..Len(log)) /\ W # {} /\ Len(log) \in Nat
      BY DEF TypeOK, Cut
    <3>2. Max(W) \in 1..Len(log)
      BY <3>1, GreatestOf
    <3> QED BY <1>1, <3>2
  <2>2. Time(Max(W))' = Time(Max(W))
    BY DEF Time
  <2>3. now - Time(Max(W)) > CONVERSATION_GAP_S => now' - Time(Max(W)) > CONVERSATION_GAP_S
    BY <1>2, <2>1, WindowAssumption
  <2> QED BY <2>2, <2>3 DEF Cut, Over
<1>5. \A W \in closed : OneChannel(W)'
  BY DEF Cut, OneChannel
<1> QED BY <1>3, <1>4, <1>5 DEF Cut, NoEarlyClose, Time

LEMMA CutNext == TypeOK /\ Cut /\ [Next]_vars => Cut'
<1> SUFFICES ASSUME TypeOK, Cut, [Next]_vars PROVE Cut'
  OBVIOUS
<1>1. now \in Nat /\ asOf \in Nat /\ asOf <= now
  BY DEF TypeOK, Cut, Clock
<1>2. ASSUME NEW ch \in Channel, Record(ch) PROVE Cut'
  BY <1>2, CutRecord
<1>3. CASE TakeClosedWindows
  BY <1>3, CutTake
<1>4. CASE Tick
  <2>1. /\ UNCHANGED <<log, journal, closed>> /\ now' \in Nat /\ now <= now'
        /\ asOf' \in Nat /\ asOf' <= now'
    BY <1>1, <1>4 DEF Tick, proc, hist
  <2> QED BY <2>1, CutStays
<1>5. CASE ReadClock
  <2>1. /\ UNCHANGED <<log, journal, closed, now>> /\ asOf' = now
    BY <1>5 DEF ReadClock, hist
  <2> QED BY <1>1, <2>1, CutStays
<1>6. CASE Crash
  BY <1>6 DEF Crash, Cut, Clock, NoEarlyClose, Time
<1>7. CASE \/ BeginWindow \/ EndPass \/ Resolve \/ ResolveRaises \/ StoreResolved \/ OpenFile
           \/ WriteFile \/ Archive \/ ArchiveDone \/ ArchiveFails \/ AtExit \/ Restart
           \/ LoadConversations \/ UNCHANGED vars
  <2>1. UNCHANGED <<log, journal, closed, now, asOf>>
    BY <1>7, ExitLeaves DEF BeginWindow, EndPass, Resolve, ResolveRaises, StoreResolved, OpenFile, WriteFile,
       Archive, ArchiveDone, ArchiveFails, Restart, LoadConversations, vars, proc, hist
  <2> QED BY <1>1, <2>1, CutStays
<1> QED BY <1>2, <1>3, <1>4, <1>5, <1>6, <1>7 DEF Next, Reaper

-----------------------------------------------------------------------------
(* Whatever is recorded between the reaper's look at the clock and its taking of  *)
(* the windows, on however many channels and however often the process dies, no   *)
(* transmission comes within the gap of a window that was closed before it was     *)
(* full: talk is cut at silences and at the size limit only.                      *)
THEOREM TalkIsNotCutShort == Spec => []NoEarlyClose
<1>1. Init => Cut
  BY CutInit
<1>2. TypeOK /\ Cut /\ [Next]_vars => Cut'
  BY CutNext
<1>3. Cut => NoEarlyClose
  BY DEF Cut
<1> QED BY <1>1, <1>2, <1>3, TypeCorrect, PTL DEF Spec
===============================================================================
