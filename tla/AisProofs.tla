------------------------------ MODULE AisProofs ------------------------------
(***************************************************************************)
(* AIS: VesselCache.tla for any ships, names, observations and number of      *)
(* polls, saves and restarts (each ship keeps its entry, is found under its    *)
(* name and survives a restart, and what a name shows is the best that carries *)
(* it); AisStream.tla for any limits; StationCounter.tla for any lines.        *)
(***************************************************************************)
EXTENDS VesselCache, AisStream, StationCounter, LeastElement, FiniteSetTheorems,
        SequenceTheorems, TLAPS

(* A row of the file, or an entry: it has a name.                               *)
Rows == {e \in Entry : e.name # Absent}

Shapes ==
    /\ TypeOK
    /\ \E n \in Nat : DOMAIN heap = 1..n
    /\ file.rows \in Seq(Rows)
    /\ \A m \in DOMAIN pending : pending[m].seen.mmsi = m
    /\ ~up => inScope = {} /\ snapshot = Nothing /\ saving = {} /\ savePc = "idle"

Found == Shapes /\ OwnEntry /\ FoundUnderOwnName
-----------------------------------------------------------------------------
(* The rankings have a first.                                                  *)
LEMMA MinIs ==
    ASSUME NEW S \in SUBSET Nat, S # {}
    PROVE  Min(S) \in S /\ \A k \in S : Min(S) <= k
<1>1. \E x \in S : \A y \in S : x <= y
  BY LeastNat
<1> QED BY <1>1 DEF Min

LEMMA MaxIs ==
    ASSUME NEW n \in Nat, NEW S \in SUBSET (1..n), S # {}
    PROVE  Max(S) \in S
<1>1. S \in SUBSET Nat /\ n \in Nat /\ \A k \in S : k <= n
  OBVIOUS
<1>2. \E x \in S : \A y \in S : x >= y
  BY <1>1, GreatestNat
<1> QED BY <1>2 DEF Max

(* Of any candidates one has the least rank.                                   *)
LEMMA LeastRank ==
    ASSUME NEW C, C # {}, NEW rank, \A i \in C : rank[i] \in Nat
    PROVE  \E i \in C : \A j \in C : rank[i] <= rank[j]
<1> DEFINE S == {rank[i] : i \in C}
<1>1. S \in SUBSET Nat /\ S # {}
  OBVIOUS
<1>2. PICK m \in S : \A k \in S : m <= k
  <2> HIDE DEF S
  <2> QED BY <1>1, LeastNat
<1> QED BY <1>2

LEMMA BestIs ==
    ASSUME NEW n \in Nat, NEW H, \A i \in 1..n : H[i] \in Entry,
           NEW C \in SUBSET (1..n), C # {}, NEW scope
    PROVE  \E i \in C : \A j \in C : ~SortsBefore(H[j], H[i], scope)
<1> DEFINE out == [i \in C |-> OutOfScope(H[i], scope)]
           km  == [i \in C |-> H[i].km]
           at  == [i \in 1..n |-> H[i].at]
<1>1. \A i \in C : out[i] \in Nat /\ out[i] = OutOfScope(H[i], scope)
  BY DEF OutOfScope
<1>2. \A i \in C : km[i] \in Nat /\ km[i] = H[i].km
  BY DEF Entry
<1>3. \A i \in 1..n : at[i] \in Nat /\ at[i] = H[i].at
  BY DEF Entry
<1> HIDE DEF out, km, at
<1>4. PICK a \in C : \A j \in C : out[a] <= out[j]
  BY <1>1, LeastRank
<1> DEFINE D == {i \in C : out[i] = out[a]}
<1>5. D \in SUBSET C /\ D # {}
  OBVIOUS
<1>6. PICK b \in D : \A j \in D : km[b] <= km[j]
  <2>1. \A i \in D : km[i] \in Nat
    BY <1>2, <1>5
  <2> HIDE DEF D
  <2> QED BY <1>5, <2>1, LeastRank
<1>7. PICK B \in Nat : \A i \in 1..n : at[i] <= B
  BY <1>3, BoundedNats
<1> DEFINE F == {i \in D : km[i] = km[b]}
           late == [i \in F |-> B - at[i]]
<1>8. F # {} /\ \A i \in F : late[i] \in Nat /\ late[i] = B - at[i]
  BY <1>3, <1>6, <1>7
<1>9. PICK c \in F : \A j \in F : late[c] <= late[j]
  <2> HIDE DEF F, late
  <2> QED BY <1>8, LeastRank
<1>10. ASSUME NEW j \in C
       PROVE  ~SortsBefore(H[j], H[c], scope)
  <2>1. c \in C /\ out[c] = out[a] /\ km[c] = km[b] /\ out[a] <= out[j]
    BY <1>4, <1>9
  <2>2. out[j] = out[a] => km[b] <= km[j]
    BY <1>6
  <2>3. out[j] = out[a] /\ km[j] = km[b] => at[j] <= at[c]
    <3>1. SUFFICES ASSUME j \in F
                   PROVE  at[j] <= at[c]
      OBVIOUS
    <3>2. late[c] = B - at[c] /\ late[j] = B - at[j] /\ late[c] <= late[j]
      BY <1>8, <1>9, <3>1
    <3>3. at[c] \in Nat /\ at[j] \in Nat
      BY <1>3, <2>1
    <3> HIDE DEF late
    <3> QED BY <3>2, <3>3
  <2>4. /\ out[j] = OutOfScope(H[j], scope) /\ out[c] = OutOfScope(H[c], scope)
        /\ km[j] = H[j].km /\ km[c] = H[c].km /\ at[j] = H[j].at /\ at[c] = H[c].at
        /\ out[j] \in Nat /\ out[c] \in Nat /\ km[j] \in Nat /\ km[c] \in Nat
        /\ at[j] \in Nat /\ at[c] \in Nat
    BY <1>1, <1>2, <1>3, <2>1
  <2> HIDE DEF F, late, D
  <2> QED BY <2>1, <2>2, <2>3, <2>4 DEF SortsBefore
<1> QED BY <1>9, <1>10

(* A row of an MMSI that no other row of it outranks.                            *)
LEMMA IndexedRowIs ==
    ASSUME file.rows \in Seq(Rows), NEW m, NEW k \in DOMAIN file.rows, file.rows[k].mmsi = m
    PROVE  /\ IndexedRow(m) \in DOMAIN file.rows
           /\ file.rows[IndexedRow(m)].mmsi = m
           /\ \A j \in DOMAIN file.rows :
                 file.rows[j].mmsi = m => ~Outranks(file.rows[j], file.rows[IndexedRow(m)])
<1> DEFINE R == {i \in DOMAIN file.rows : file.rows[i].mmsi = m}
           T == {i \in R : \A j \in R : ~Outranks(file.rows[j], file.rows[i])}
           rank == [i \in R |-> 2 * Junk(file.rows[i]) + 1 - Populated(file.rows[i])]
<1>1. IndexedRow(m) = Min(T)
  BY DEF IndexedRow
<1>2. \A i \in R : /\ rank[i] = 2 * Junk(file.rows[i]) + 1 - Populated(file.rows[i])
                   /\ Junk(file.rows[i]) \in {0, 1} /\ Populated(file.rows[i]) \in {0, 1}
                   /\ rank[i] \in Nat
  BY DEF Junk, Populated
<1>3. k \in R /\ R \subseteq Nat /\ R \subseteq DOMAIN file.rows
  OBVIOUS
<1>4. \A i \in R : i \in DOMAIN file.rows /\ file.rows[i].mmsi = m
  OBVIOUS
<1>5. \A j \in DOMAIN file.rows : file.rows[j].mmsi = m => j \in R
  OBVIOUS
<1> HIDE DEF R, rank
<1>6. PICK i \in R : \A j \in R : rank[i] <= rank[j]
  BY <1>2, <1>3, LeastRank
<1>7. i \in T
  BY <1>2, <1>6 DEF Outranks
<1>8. T \in SUBSET Nat /\ T \subseteq R
  BY <1>3
<1>9. Min(T) \in T
  <2> HIDE DEF T
  <2> QED BY <1>7, <1>8, MinIs
<1> QED BY <1>1, <1>4, <1>5, <1>8, <1>9
-----------------------------------------------------------------------------
(* What a record comes to.                                                    *)
HeldOk(held) ==
    /\ DOMAIN held \subseteq Mmsi
    /\ \A m \in DOMAIN held : /\ held[m].seen \in Entry /\ held[m].seen.mmsi = m
                              /\ held[m].touched \in Nat

(* The entry is the one of its MMSI, one that had none, or a new one.           *)
Publishable(m, i, e) ==
    /\ m \in Mmsi /\ e \in Rows /\ e.mmsi = m
    /\ \/ m \in DOMAIN mmsiIndex /\ i = mmsiIndex[m]
       \/ /\ m \notin DOMAIN mmsiIndex /\ e.name \in DOMAIN vesselCache
          /\ i = vesselCache[e.name] /\ heap[i].mmsi \in {m, Absent}
       \/ m \notin DOMAIN mmsiIndex /\ i = Cardinality(DOMAIN heap) + 1

Indexes == <<heap, vesselCache, mmsiIndex, nameIndex, callsignCache>>

LEMMA AppliedIs ==
    ASSUME NEW e \in Entry, NEW o \in Entry
    PROVE  /\ Applied(e, o) \in Entry /\ Applied(e, o).mmsi = e.mmsi
           /\ Applied(e, o).name = IF o.name = Absent THEN e.name ELSE o.name
BY DEF Applied, Entry

LEMMA HeldIs ==
    ASSUME HeldOk(pending), NEW m \in Mmsi
    PROVE  Held(m) \in Entry /\ Held(m).mmsi = m
BY DEF HeldOk, Held, Blank, Entry, NoFix

LEMMA HoldingIs ==
    ASSUME HeldOk(pending), NEW o \in Entry, o.mmsi \in Mmsi, NEW held \in Holding(o)
    PROVE  HeldOk(held)
<1> DEFINE seen == Applied(Held(o.mmsi), o)
           put  == Put(pending, o.mmsi, [seen |-> seen, touched |-> o.at])
<1>1. seen \in Entry /\ seen.mmsi = o.mmsi /\ o.at \in Nat
  BY HeldIs, AppliedIs DEF Entry
<1>2. DOMAIN put = DOMAIN pending \union {o.mmsi}
  BY DEF Put
<1>3. \A m \in DOMAIN put : put[m] = IF m = o.mmsi THEN [seen |-> seen, touched |-> o.at] ELSE pending[m]
  BY DEF Put
<1> HIDE DEF put, seen
<1>4. HeldOk(put)
  BY <1>1, <1>2, <1>3 DEF HeldOk
<1>5. \A m : HeldOk(Without(put, m))
  BY <1>4 DEF HeldOk, Without
<1>6. \A h \in Holding(o) : h = put \/ \E m : h = Without(put, m)
  BY DEF Holding, put, seen
<1> QED BY <1>4, <1>5, <1>6

LEMMA RecordIs ==
    ASSUME Found, NEW o \in Entry, o.mmsi \in Mmsi, Update(o) \/ Hold(o) \/ Admit(o)
    PROVE  \/ \E i, e, held : /\ Publish(o.mmsi, i, e, held)
                              /\ Publishable(o.mmsi, i, e) /\ HeldOk(held)
           \/ UNCHANGED Indexes /\ HeldOk(pending')
<1>1. HeldOk(pending)
  BY DEF Found, Shapes, TypeOK, HeldOk
<1> DEFINE seen == Held(o.mmsi)
<1>2. seen \in Entry /\ seen.mmsi = o.mmsi
  BY <1>1, HeldIs
<1> HIDE DEF seen
<1>3. CASE Hold(o)
  BY <1>1, <1>3, HoldingIs DEF Hold, Indexes
<1>4. CASE Admit(o)
  <2>1. PICK held \in Holding(o) :
           Publish(o.mmsi, Cardinality(DOMAIN heap) + 1, Applied(seen, o), held)
    BY <1>4 DEF Admit, seen
  <2>2. HeldOk(held)
    BY <1>1, HoldingIs
  <2>3. Applied(seen, o) \in Rows /\ Applied(seen, o).mmsi = o.mmsi
    BY <1>2, <1>4, AppliedIs DEF Admit, Rows, seen
  <2>4. o.mmsi \notin DOMAIN mmsiIndex
    BY <1>4 DEF Admit, Known
  <2> QED BY <2>1, <2>2, <2>3, <2>4 DEF Publishable
<1>5. CASE Update(o)
  <2> DEFINE adopted(i) == IF heap[i].mmsi = Absent THEN [heap[i] EXCEPT !.mmsi = o.mmsi] ELSE heap[i]
             new(i) == Applied(Applied(adopted(i), seen), o)
  <2>1. PICK i \in Known(o) : Publish(o.mmsi, i, new(i), pending)
    BY <1>5 DEF Update, seen
  <2>2. i \in DOMAIN heap /\ heap[i] \in Entry /\ heap[i].name # Absent
    BY <2>1 DEF Known, Adoptable, Found, Shapes, TypeOK, Images
  <2>3. heap[i].mmsi \in {o.mmsi, Absent}
    BY <2>1 DEF Known, Adoptable, Found, OwnEntry
  <2>4. adopted(i) \in Entry /\ adopted(i).mmsi = o.mmsi /\ adopted(i).name = heap[i].name
    BY <2>2, <2>3, CacheAssumption DEF Entry
  <2>5. /\ Applied(adopted(i), seen) \in Entry
        /\ Applied(adopted(i), seen).mmsi = o.mmsi
        /\ Applied(adopted(i), seen).name # Absent
    <3> HIDE DEF adopted
    <3> QED BY <1>2, <2>2, <2>4, AppliedIs
  <2>6. new(i) \in Entry /\ new(i).mmsi = o.mmsi /\ new(i).name # Absent
        /\ (o.name # Absent => new(i).name = o.name)
    <3> HIDE DEF adopted
    <3> QED BY <2>5, AppliedIs
  <2> HIDE DEF new
  <2>7. o.mmsi \notin DOMAIN mmsiIndex =>
           new(i).name \in DOMAIN vesselCache /\ i = vesselCache[new(i).name]
    <3>1. SUFFICES ASSUME o.mmsi \notin DOMAIN mmsiIndex
                   PROVE  new(i).name \in DOMAIN vesselCache /\ i = vesselCache[new(i).name]
      OBVIOUS
    <3>2. o.name \in DOMAIN vesselCache /\ i = vesselCache[o.name]
      BY <2>1, <3>1 DEF Known, Adoptable
    <3>3. o.name # Absent
      BY <3>2, CacheAssumption DEF Found, Shapes, TypeOK
    <3> QED BY <2>6, <3>2, <3>3
  <2>8. o.mmsi \in DOMAIN mmsiIndex => i = mmsiIndex[o.mmsi]
    BY <2>1 DEF Known
  <2>9. Publishable(o.mmsi, i, new(i))
    BY <2>3, <2>6, <2>7, <2>8 DEF Publishable, Rows
  <2> QED BY <1>1, <2>1, <2>9
<1> QED BY <1>3, <1>4, <1>5
-----------------------------------------------------------------------------
(* What the refreshed views are, and that a name somebody carries has a best.   *)
LEMMA ViewsAre ==
    ASSUME NEW view, NEW names, NEW H, NEW byMmsi, NEW byName, NEW scope,
           NEW v \in RefreshedViews(view, names, H, byMmsi, byName, scope)
    PROVE  /\ v \in [DOMAIN view -> DOMAIN H]
           /\ \A n \in DOMAIN view :
                 \/ v[n] = view[n] /\ (n \notin names \/ Best(n, H, byMmsi, byName, scope) = {})
                 \/ n \in names /\ v[n] \in Best(n, H, byMmsi, byName, scope)
<1> DEFINE best(n) == Best(n, H, byMmsi, byName, scope)
<1>1. /\ v \in [DOMAIN view -> DOMAIN H]
      /\ \A n \in DOMAIN view :
            LET b == IF n \in names THEN best(n) ELSE {}
            IN  IF b = {} THEN v[n] = view[n] ELSE v[n] \in b
  BY DEF RefreshedViews
<1> HIDE DEF best
<1>2. \A n \in DOMAIN view :
         \/ v[n] = view[n] /\ (n \notin names \/ best(n) = {})
         \/ n \in names /\ v[n] \in best(n)
  <2> SUFFICES ASSUME NEW n \in DOMAIN view
               PROVE  \/ v[n] = view[n] /\ (n \notin names \/ best(n) = {})
                      \/ n \in names /\ v[n] \in best(n)
    OBVIOUS
  <2>1. CASE n \in names
    BY <1>1, <2>1
  <2>2. CASE n \notin names
    BY <1>1, <2>2
  <2> QED BY <2>1, <2>2
<1> QED BY <1>1, <1>2 DEF best

LEMMA BestOfHolders ==
    ASSUME NEW N \in Nat, NEW H, \A i \in 1..N : H[i] \in Entry, NEW byMmsi,
           \A m \in DOMAIN byMmsi : byMmsi[m] \in 1..N, NEW byName, NEW scope, NEW n
    PROVE  /\ Best(n, H, byMmsi, byName, scope) \subseteq Holders(n, H, byMmsi, byName)
           /\ Holders(n, H, byMmsi, byName) # {} => Best(n, H, byMmsi, byName, scope) # {}
<1> DEFINE C == Holders(n, H, byMmsi, byName)
<1>1. C \in SUBSET (1..N)
  BY DEF Holders
<1>2. Best(n, H, byMmsi, byName, scope) = {i \in C : \A j \in C : ~SortsBefore(H[j], H[i], scope)}
  BY DEF Best
<1> HIDE DEF C
<1>3. C # {} => \E i \in C : \A j \in C : ~SortsBefore(H[j], H[i], scope)
  BY <1>1, BestIs
<1> QED BY <1>2, <1>3 DEF C

LEMMA Identified ==
    ASSUME TypeOK
    PROVE  \A m \in DOMAIN mmsiIndex : /\ m \in Mmsi /\ m # Absent
                                       /\ mmsiIndex[m] \in DOMAIN heap
BY CacheAssumption DEF TypeOK, Images

LEMMA Identifiers ==
    ASSUME NEW N \in Nat, DOMAIN heap = 1..N
    PROVE  Cardinality(DOMAIN heap) = N
<1>1. Cardinality(1..N) = N
  BY FS_Interval
<1> QED BY <1>1

(* The entry published is one no other MMSI leads to.                           *)
LEMMA NobodysElse ==
    ASSUME Found, NEW m, NEW i, NEW e, Publishable(m, i, e)
    PROVE  /\ \A k \in DOMAIN mmsiIndex : k # m => mmsiIndex[k] # i
           /\ \E N \in Nat : DOMAIN heap \union {i} = 1..N
<1>1. PICK N \in Nat : DOMAIN heap = 1..N
  BY DEF Found, Shapes
<1>2. Cardinality(DOMAIN heap) = N
  BY <1>1, Identifiers
<1>3. \A k \in DOMAIN mmsiIndex : k # Absent /\ mmsiIndex[k] \in DOMAIN heap /\ heap[mmsiIndex[k]].mmsi = k
  BY Identified DEF Found, Shapes, OwnEntry
<1>4. \/ m \in DOMAIN mmsiIndex /\ i = mmsiIndex[m]
      \/ i \in DOMAIN heap /\ heap[i].mmsi \in {m, Absent}
      \/ i = N + 1
  BY <1>2 DEF Publishable, Found, Shapes, TypeOK, Images
<1>5. \A k \in DOMAIN mmsiIndex : k # m => mmsiIndex[k] # i
  BY <1>1, <1>3, <1>4
<1>6. CASE i \in DOMAIN heap
  BY <1>1, <1>5, <1>6
<1>7. CASE i = N + 1
  <2>1. 1..N \union {N + 1} = 1..(N + 1)
    OBVIOUS
  <2> QED BY <1>1, <1>5, <1>7, <2>1
<1> QED BY <1>3, <1>4, <1>6, <1>7

(* Who carries which name, after a publication.                                 *)
Publishes(m, i, e) ==
    /\ DOMAIN heap' = DOMAIN heap \union {i}
    /\ heap'[i] = e /\ \A j \in DOMAIN heap : j # i => heap'[j] = heap[j]
    /\ \E N \in Nat : DOMAIN heap' = 1..N
    /\ DOMAIN mmsiIndex' = DOMAIN mmsiIndex \union {m} /\ mmsiIndex'[m] = i
    /\ \A k \in DOMAIN mmsiIndex : mmsiIndex'[k] = mmsiIndex[k] /\ (k # m => mmsiIndex[k] # i)
    /\ e.name \in Name /\ m \in Mmsi
    /\ DOMAIN nameIndex' = Name
    /\ \A n \in Name : nameIndex'[n] = nameIndex[n] \union (IF n = e.name THEN {m} ELSE {})
    /\ DOMAIN vesselCache' = DOMAIN vesselCache \union {e.name}
    /\ \A n \in DOMAIN vesselCache : n # e.name => vesselCache'[n] = vesselCache[n]
    /\ vesselCache'[e.name] \in Best(e.name, heap', mmsiIndex', nameIndex', inScope)
    /\ vesselCache' \in [DOMAIN vesselCache' -> DOMAIN heap']
    /\ DOMAIN callsignCache' \subseteq Callsign /\ Images(callsignCache') \subseteq DOMAIN heap'
    /\ DOMAIN callsignCache \subseteq DOMAIN callsignCache'

LEMMA PublishIs ==
    ASSUME Found, NEW m, NEW i, NEW e, NEW held, Publishable(m, i, e), Publish(m, i, e, held)
    PROVE  Publishes(m, i, e)
<1>1. e \in Entry /\ e.name \in Name /\ e.mmsi = m /\ m \in Mmsi
  BY DEF Publishable, Rows, Entry
<1>2. /\ DOMAIN heap' = DOMAIN heap \union {i} /\ heap'[i] = e
      /\ \A j \in DOMAIN heap : j # i => heap'[j] = heap[j]
  BY DEF Publish, Put
<1>3. PICK N \in Nat : DOMAIN heap' = 1..N
  BY <1>2, NobodysElse
<1>4. \A k \in DOMAIN mmsiIndex : k # m => mmsiIndex[k] # i
  BY NobodysElse
<1>5. /\ DOMAIN mmsiIndex' = DOMAIN mmsiIndex \union {m} /\ mmsiIndex'[m] = i
      /\ \A k \in DOMAIN mmsiIndex : k # m => mmsiIndex'[k] = mmsiIndex[k]
  BY DEF Publish, Put
<1>6. \A k \in DOMAIN mmsiIndex : mmsiIndex'[k] = mmsiIndex[k]
  BY <1>5 DEF Publishable
<1>7. /\ DOMAIN nameIndex' = Name
      /\ \A n \in Name : nameIndex'[n] = nameIndex[n] \union (IF n = e.name THEN {m} ELSE {})
  BY <1>1 DEF Publish, Found, Shapes, TypeOK
<1> DEFINE put == Put(vesselCache, e.name, i)
<1>8. /\ DOMAIN put = DOMAIN vesselCache \union {e.name} /\ put[e.name] = i
      /\ \A n \in DOMAIN vesselCache : n # e.name => put[n] = vesselCache[n]
  BY DEF Put
<1>9. vesselCache' \in RefreshedViews(put, {e.name}, heap', mmsiIndex', nameIndex', inScope)
  BY DEF Publish
<1> HIDE DEF put
<1> DEFINE best(n) == Best(n, heap', mmsiIndex', nameIndex', inScope)
<1>10. /\ vesselCache' \in [DOMAIN put -> DOMAIN heap']
       /\ \A n \in DOMAIN put : \/ vesselCache'[n] = put[n] /\ (n \notin {e.name} \/ best(n) = {})
                                \/ n \in {e.name} /\ vesselCache'[n] \in best(n)
  BY <1>9, ViewsAre
<1>11. i \in Holders(e.name, heap', mmsiIndex', nameIndex')
  BY <1>1, <1>2, <1>5, <1>7 DEF Holders
<1>12. best(e.name) # {}
  <2>1. \A k \in DOMAIN mmsiIndex' : mmsiIndex'[k] \in 1..N
    BY <1>2, <1>3, <1>5, Identified DEF Found, Shapes
  <2>2. \A j \in 1..N : heap'[j] \in Entry
    BY <1>1, <1>2, <1>3 DEF Found, Shapes, TypeOK
  <2> QED BY <1>11, <2>1, <2>2, BestOfHolders
<1> HIDE DEF best
<1>13. /\ DOMAIN vesselCache' = DOMAIN vesselCache \union {e.name}
       /\ vesselCache' \in [DOMAIN vesselCache' -> DOMAIN heap']
       /\ vesselCache'[e.name] \in best(e.name)
       /\ \A n \in DOMAIN vesselCache : n # e.name => vesselCache'[n] = vesselCache[n]
  BY <1>8, <1>10, <1>12
<1>14. /\ DOMAIN callsignCache' \subseteq Callsign /\ Images(callsignCache') \subseteq DOMAIN heap'
       /\ DOMAIN callsignCache \subseteq DOMAIN callsignCache'
  <2>1. CASE e.callsign = Absent
    BY <1>2, <2>1 DEF Publish, Found, Shapes, TypeOK
  <2>2. CASE e.callsign # Absent
    <3>1. /\ DOMAIN callsignCache' = DOMAIN callsignCache \union {e.callsign}
          /\ callsignCache'[e.callsign] = i
          /\ \A c \in DOMAIN callsignCache : c # e.callsign => callsignCache'[c] = callsignCache[c]
      BY <2>2 DEF Publish, Put
    <3>2. e.callsign \in Callsign
      BY <1>1, <2>2 DEF Entry
    <3>3. \A c \in DOMAIN callsignCache : c \in Callsign /\ callsignCache[c] \in DOMAIN heap
      BY DEF Found, Shapes, TypeOK, Images
    <3> QED BY <1>2, <3>1, <3>2, <3>3 DEF Images
  <2> QED BY <2>1, <2>2
<1> QED BY <1>1, <1>2, <1>3, <1>4, <1>5, <1>6, <1>7, <1>13, <1>14 DEF Publishes, best
-----------------------------------------------------------------------------
(* The indexes after each step.                                                *)
Indexed ==
    /\ \E n \in Nat : DOMAIN heap = 1..n
    /\ \A i \in DOMAIN heap : heap[i] \in Rows
    /\ DOMAIN vesselCache \subseteq Name /\ Images(vesselCache) \subseteq DOMAIN heap
    /\ DOMAIN mmsiIndex \subseteq Mmsi /\ Images(mmsiIndex) \subseteq DOMAIN heap
    /\ DOMAIN callsignCache \subseteq Callsign /\ Images(callsignCache) \subseteq DOMAIN heap
    /\ nameIndex \in [Name -> SUBSET Mmsi]
    /\ HeldOk(pending)
    /\ OwnEntry /\ FoundUnderOwnName

Elsewhere ==
    /\ source \in AIS_SOURCE
    /\ up \in BOOLEAN /\ polling \in BOOLEAN /\ justLoaded \in BOOLEAN
    /\ inScope \subseteq Mmsi /\ polled \subseteq Mmsi /\ captured \subseteq Mmsi
    /\ toRecord \subseteq Observation
    /\ mustSave \subseteq Mmsi /\ savePc \in {"idle", "open", "dump"}
    /\ file.intact \in BOOLEAN /\ file.rows \in Seq(Rows)
    /\ reports \in Nat /\ saves \in Nat /\ crashes \in Nat
    /\ ~up => inScope = {} /\ snapshot = Nothing /\ saving = {} /\ savePc = "idle"

Copies == /\ DOMAIN snapshot \subseteq Name /\ Images(snapshot) \subseteq DOMAIN heap
          /\ saving \subseteq DOMAIN heap

LEMMA RowsAreEntries == Seq(Rows) \subseteq Seq(Entry)
BY DEF Rows

LEMMA FoundIs == Found <=> Indexed /\ Elsewhere /\ Copies
<1>1. Found => Indexed /\ Elsewhere /\ Copies
  BY DEF Found, Shapes, TypeOK, Indexed, Elsewhere, Copies, HeldOk, Rows
<1>2. Indexed /\ Elsewhere /\ Copies => Found
  <2>1. file.rows \in Seq(Rows) => file.rows \in Seq(Entry)
    BY RowsAreEntries
  <2>2. Indexed => \A i \in DOMAIN heap : i \in Nat
    BY DEF Indexed
  <2> QED
    BY <2>1, <2>2 DEF Found, Shapes, TypeOK, Indexed, Elsewhere, Copies, HeldOk, Rows
<1> QED BY <1>1, <1>2

LEMMA Publication ==
    ASSUME Found, NEW m, NEW i, NEW e, NEW held,
           Publish(m, i, e, held), Publishable(m, i, e), HeldOk(held)
    PROVE  Indexed' /\ DOMAIN heap \subseteq DOMAIN heap'
<1>1. Publishes(m, i, e)
  BY PublishIs
<1>2. e \in Rows /\ e.mmsi = m /\ e.name \in Name
  BY DEF Publishable, Rows, Entry
<1>3. Indexed
  BY FoundIs
<1>4. HeldOk(pending')
  BY DEF Publish, Without, HeldOk
<1>5. \A j \in DOMAIN heap' : heap'[j] \in Rows
  BY <1>1, <1>2, <1>3 DEF Publishes, Indexed
<1>6. DOMAIN vesselCache' \subseteq Name /\ Images(vesselCache') \subseteq DOMAIN heap'
  BY <1>1, <1>3 DEF Publishes, Indexed, Images
<1>7. DOMAIN mmsiIndex' \subseteq Mmsi /\ Images(mmsiIndex') \subseteq DOMAIN heap'
  <2>1. /\ DOMAIN mmsiIndex' = DOMAIN mmsiIndex \union {m} /\ mmsiIndex'[m] = i /\ m \in Mmsi
        /\ \A k \in DOMAIN mmsiIndex : mmsiIndex'[k] = mmsiIndex[k]
        /\ DOMAIN heap' = DOMAIN heap \union {i}
    BY <1>1 DEF Publishes
  <2>2. \A k \in DOMAIN mmsiIndex : k \in Mmsi /\ mmsiIndex[k] \in DOMAIN heap
    BY <1>3 DEF Indexed, Images
  <2> QED BY ONLY <2>1, <2>2 DEF Images
<1>8. nameIndex' \in [Name -> SUBSET Mmsi]
  BY <1>1, <1>3 DEF Publish, Publishes, Indexed
<1>9. OwnEntry'
  BY <1>1, <1>2, <1>3 DEF Publishes, Indexed, OwnEntry, Images
<1>10. FoundUnderOwnName'
  <2> SUFFICES ASSUME NEW k \in DOMAIN mmsiIndex'
               PROVE  LET n == heap'[mmsiIndex'[k]].name
                      IN  n \in DOMAIN vesselCache' /\ mmsiIndex'[k] \in Holders(n, heap', mmsiIndex', nameIndex')
    BY DEF FoundUnderOwnName
  <2> DEFINE n == heap'[mmsiIndex'[k]].name
  <2>1. n \in DOMAIN vesselCache' /\ k \in nameIndex'[n]
    <3>1. CASE k = m
      BY <1>1, <1>2, <3>1 DEF Publishes
    <3>2. CASE k # m
      <4>1. k \in DOMAIN mmsiIndex /\ mmsiIndex'[k] = mmsiIndex[k] /\ n = heap[mmsiIndex[k]].name
        BY <1>1, <1>3, <3>2 DEF Publishes, Indexed, Images
      <4>2. n \in DOMAIN vesselCache /\ n \in Name /\ k \in nameIndex[n]
        <5>1. n \in DOMAIN vesselCache /\ mmsiIndex[k] \in Holders(n, heap, mmsiIndex, nameIndex)
          BY <4>1 DEF Found, FoundUnderOwnName
        <5>2. PICK l \in nameIndex[n] \intersect DOMAIN mmsiIndex : mmsiIndex[l] = mmsiIndex[k]
          BY <5>1 DEF Holders
        <5>3. l = k
          BY <4>1, <5>2 DEF Found, OwnEntry
        <5> QED BY <1>3, <5>1, <5>2, <5>3 DEF Indexed
      <4> QED BY <1>1, <4>1, <4>2 DEF Publishes
    <3> QED BY <3>1, <3>2
  <2> QED BY <2>1 DEF Holders
<1> QED BY <1>1, <1>4, <1>5, <1>6, <1>7, <1>8, <1>9, <1>10 DEF Publishes, Indexed

LEMMA RecordWrites ==
    ASSUME Found, NEW o \in Entry, o.mmsi \in Mmsi, Record(o)
    PROVE  /\ Indexed' /\ DOMAIN heap \subseteq DOMAIN heap'
           /\ captured' = captured \union {o.mmsi} /\ justLoaded' = FALSE
<1>1. CASE \E i, e, held : Publish(o.mmsi, i, e, held) /\ Publishable(o.mmsi, i, e) /\ HeldOk(held)
  BY <1>1, Publication DEF Record
<1>2. CASE UNCHANGED Indexes /\ HeldOk(pending')
  BY <1>2, FoundIs DEF Record, Indexed, Indexes, OwnEntry, FoundUnderOwnName
<1> QED BY <1>1, <1>2, RecordIs DEF Record

LEMMA Reported ==
    ASSUME NEW o \in Observation
    PROVE  o \in Entry /\ o.mmsi \in Mmsi
BY CacheAssumption DEF Entry
-----------------------------------------------------------------------------
(* A restart.                                                                  *)
LEMMA RowsFound ==
    ASSUME file.rows \in Seq(Rows)
    PROVE  /\ \E n \in Nat : DOMAIN file.rows = 1..n
           /\ \A i \in DOMAIN file.rows :
                 /\ file.rows[i] \in Rows /\ file.rows[i].name \in Name
                 /\ file.rows[i].mmsi \in Mmsi \union {Absent}
                 /\ file.rows[i].callsign \in Callsign \union {Absent}
BY DEF Rows, Entry

Shown(n) == Max({i \in DOMAIN file.rows : file.rows[i].name = n})
Heard(c) == Max({i \in DOMAIN file.rows : file.rows[i].callsign = c})

LEMMA LastRow ==
    ASSUME file.rows \in Seq(Rows), NEW k \in DOMAIN file.rows
    PROVE  /\ Shown(file.rows[k].name) \in DOMAIN file.rows
           /\ file.rows[Shown(file.rows[k].name)].name = file.rows[k].name
           /\ Heard(file.rows[k].callsign) \in DOMAIN file.rows
<1>1. PICK n \in Nat : DOMAIN file.rows = 1..n
  BY RowsFound
<1> DEFINE S == {i \in DOMAIN file.rows : file.rows[i].name = file.rows[k].name}
           T == {i \in DOMAIN file.rows : file.rows[i].callsign = file.rows[k].callsign}
<1>2. S \in SUBSET (1..n) /\ S # {} /\ T \in SUBSET (1..n) /\ T # {}
  BY <1>1
<1>3. Max(S) \in S /\ Max(T) \in T
  <2> HIDE DEF S, T
  <2> QED BY <1>2, MaxIs
<1> QED BY <1>3 DEF Shown, Heard

Loads ==
    /\ DOMAIN heap' = DOMAIN file.rows /\ \A i \in DOMAIN file.rows : heap'[i] = file.rows[i]
    /\ \A m : m \in DOMAIN mmsiIndex' <=> m # Absent /\ \E i \in DOMAIN file.rows : file.rows[i].mmsi = m
    /\ \A m \in DOMAIN mmsiIndex' : mmsiIndex'[m] = IndexedRow(m)
    /\ nameIndex' = [n \in Name |-> NamedIn(file.rows, n)]
    /\ DOMAIN callsignCache' \subseteq Callsign /\ Images(callsignCache') \subseteq DOMAIN heap'
    /\ \A n : n \in DOMAIN vesselCache' <=> n # Absent /\ \E i \in DOMAIN file.rows : file.rows[i].name = n
    /\ vesselCache' \in [DOMAIN vesselCache' -> DOMAIN heap']
    /\ \A n \in DOMAIN vesselCache' :
          \/ /\ vesselCache'[n] = Shown(n)
             /\ n \notin Name \/ Best(n, heap', mmsiIndex', nameIndex', {}) = {}
          \/ vesselCache'[n] \in Best(n, heap', mmsiIndex', nameIndex', {})

LEMMA LoadIs ==
    ASSUME Found, Load
    PROVE  Loads
<1> DEFINE rows == file.rows
           mmsis == {rows[i].mmsi : i \in DOMAIN rows} \ {Absent}
           signs == {rows[i].callsign : i \in DOMAIN rows} \ {Absent}
           names == {rows[i].name : i \in DOMAIN rows} \ {Absent}
           view == [n \in names |-> Shown(n)]
<1>1. rows \in Seq(Rows)
  BY FoundIs DEF Elsewhere
<1>2. /\ heap' = [i \in DOMAIN rows |-> rows[i]]
      /\ mmsiIndex' = [m \in mmsis |-> IndexedRow(m)]
      /\ nameIndex' = [n \in Name |-> NamedIn(rows, n)]
      /\ callsignCache' = [c \in signs |-> Heard(c)]
  BY DEF Load, Heard
<1>3. vesselCache' \in RefreshedViews(view, Name, heap', mmsiIndex', nameIndex', {})
  BY DEF Load, Shown
<1>4. DOMAIN callsignCache' \subseteq Callsign /\ Images(callsignCache') \subseteq DOMAIN heap'
  BY <1>1, <1>2, RowsFound, LastRow DEF Images
<1>5. DOMAIN view = names /\ \A n \in names : view[n] = Shown(n)
  OBVIOUS
<1> HIDE DEF view
<1>6. /\ vesselCache' \in [DOMAIN view -> DOMAIN heap']
      /\ \A n \in DOMAIN view :
            \/ /\ vesselCache'[n] = view[n]
               /\ n \notin Name \/ Best(n, heap', mmsiIndex', nameIndex', {}) = {}
            \/ n \in Name /\ vesselCache'[n] \in Best(n, heap', mmsiIndex', nameIndex', {})
  BY <1>3, ViewsAre
<1>7. \A n : n \in names <=> n # Absent /\ \E i \in DOMAIN rows : rows[i].name = n
  OBVIOUS
<1>8. \A m : m \in mmsis <=> m # Absent /\ \E i \in DOMAIN rows : rows[i].mmsi = m
  OBVIOUS
<1> HIDE DEF names, mmsis
<1> QED BY <1>2, <1>4, <1>5, <1>6, <1>7, <1>8 DEF Loads

LEMMA Reloaded ==
    ASSUME Found, Load
    PROVE  Indexed'
<1>1. Loads /\ file.rows \in Seq(Rows) /\ HeldOk(pending')
  BY LoadIs, FoundIs DEF Elsewhere, Load, Indexed
<1>2. PICK N \in Nat : DOMAIN file.rows = 1..N
  BY <1>1, RowsFound
<1>3. \A i \in DOMAIN file.rows :
         /\ file.rows[i] \in Rows /\ file.rows[i].name \in Name
         /\ file.rows[i].mmsi \in Mmsi \union {Absent}
  BY <1>1, RowsFound
<1>4. \A m \in DOMAIN mmsiIndex' : /\ m \in Mmsi /\ mmsiIndex'[m] \in DOMAIN heap'
                                   /\ heap'[mmsiIndex'[m]].mmsi = m
  BY <1>1, <1>3, IndexedRowIs DEF Loads
<1>5. OwnEntry'
  BY <1>4 DEF OwnEntry
<1>6. nameIndex' \in [Name -> SUBSET Mmsi]
  BY <1>1, <1>3 DEF Loads, NamedIn
<1>7. FoundUnderOwnName'
  <2> SUFFICES ASSUME NEW m \in DOMAIN mmsiIndex'
               PROVE  LET n == heap'[mmsiIndex'[m]].name
                      IN  n \in DOMAIN vesselCache' /\ mmsiIndex'[m] \in Holders(n, heap', mmsiIndex', nameIndex')
    BY DEF FoundUnderOwnName
  <2> DEFINE i == mmsiIndex'[m]
             n == heap'[i].name
  <2>1. i \in DOMAIN file.rows /\ file.rows[i].mmsi = m /\ n = file.rows[i].name /\ m \in Mmsi
    BY <1>1, <1>4 DEF Loads
  <2>2. n \in Name /\ n # Absent /\ m # Absent
    BY <1>3, <2>1, CacheAssumption
  <2>3. n \in DOMAIN vesselCache'
    BY <1>1, <2>1, <2>2 DEF Loads
  <2>4. m \in nameIndex'[n]
    BY <1>1, <2>1, <2>2 DEF Loads, NamedIn
  <2> QED BY <2>3, <2>4 DEF Holders
<1>8. DOMAIN vesselCache' \subseteq Name /\ Images(vesselCache') \subseteq DOMAIN heap'
  BY <1>1, <1>3 DEF Loads, Images
<1> QED BY <1>1, <1>2, <1>3, <1>4, <1>5, <1>6, <1>7, <1>8 DEF Indexed, Loads, Images
-----------------------------------------------------------------------------
LEMMA FoundAfterIs == Found' <=> Indexed' /\ Elsewhere' /\ Copies'
BY FoundIs, PTL

(* What every step makes of the rest.                                           *)
LEMMA FoundInit == Init => Found
<1> SUFFICES ASSUME Init
             PROVE  Found
  OBVIOUS
<1>1. Indexed
  <2>1. 0 \in Nat /\ 1..0 = {}
    OBVIOUS
  <2> QED BY <2>1 DEF Init, Indexed, Nothing, Images, HeldOk, OwnEntry, FoundUnderOwnName
<1>2. Elsewhere
  BY CacheAssumption DEF Init, Elsewhere, Rows
<1>3. Copies
  BY DEF Init, Copies, Nothing, Images
<1> QED BY <1>1, <1>2, <1>3, FoundIs

LEMMA CopiesGrow ==
    ASSUME Copies, UNCHANGED <<snapshot, saving>>, DOMAIN heap \subseteq DOMAIN heap'
    PROVE  Copies'
BY DEF Copies

LEMMA IndexedSame ==
    ASSUME Indexed, UNCHANGED index
    PROVE  Indexed'
BY DEF Indexed, index, OwnEntry, FoundUnderOwnName

(* What is dumped is the entries that were collected.                           *)
LEMMA Dumped ==
    ASSUME Found, SaveDumps
    PROVE  /\ file'.intact /\ file'.rows \in Seq(Rows)
           /\ \A i \in saving : \E k \in DOMAIN file'.rows : file'.rows[k] = heap[i]
<1>1. Indexed /\ Copies
  BY FoundIs
<1>2. PICK n \in Nat : DOMAIN heap = 1..n
  BY <1>1 DEF Indexed
<1>3. Cardinality(saving) \in Nat
  <2>1. IsFiniteSet(1..n)
    BY FS_Interval
  <2>2. saving \subseteq 1..n
    BY <1>1, <1>2 DEF Copies
  <2> QED BY <2>1, <2>2, FS_Subset, FS_CardinalityType
<1>4. PICK s \in [1..Cardinality(saving) -> saving] :
         /\ Images(s) = saving
         /\ file' = [intact |-> TRUE, rows |-> [i \in DOMAIN s |-> heap[s[i]]]]
  BY DEF SaveDumps
<1>5. /\ DOMAIN s = 1..Cardinality(saving)
      /\ \A i \in DOMAIN s : s[i] \in saving /\ heap[s[i]] \in Rows
  BY <1>1, <1>4 DEF Copies, Indexed
<1>6. file'.rows \in Seq(Rows)
  BY <1>3, <1>4, <1>5
<1>7. \A i \in saving : \E k \in DOMAIN s : s[k] = i
  BY <1>4 DEF Images
<1> QED BY <1>4, <1>6, <1>7

LEMMA FoundNext == Found /\ [Next]_vars => Found'
<1> SUFFICES ASSUME Found, [Next]_vars
             PROVE  Found'
  OBVIOUS
<1>1. Indexed /\ Elsewhere /\ Copies
  BY FoundIs
<1>2. CASE StreamFrame
  <2>1. PICK o \in Observation : Record([o EXCEPT !.at = Now])
    BY <1>2 DEF StreamFrame
  <2> DEFINE r == [o EXCEPT !.at = Now]
  <2>2. r \in Entry /\ r.mmsi \in Mmsi
    BY <1>1, Reported DEF Entry, Now, Elsewhere
  <2> HIDE DEF r
  <2>3. /\ Indexed' /\ DOMAIN heap \subseteq DOMAIN heap'
        /\ captured' = captured \union {r.mmsi} /\ justLoaded' = FALSE
    BY <2>1, <2>2, RecordWrites DEF r
  <2>4. Copies'
    BY <1>1, <1>2, <2>3, CopiesGrow DEF StreamFrame, disk
  <2>5. Elsewhere'
    <3>1. /\ up /\ reports' = reports + 1
          /\ UNCHANGED <<up, inScope, toRecord, polled, polling, snapshot, savePc, file, saves,
                         mustSave, source, crashes>>
      BY <1>2 DEF StreamFrame, disk, env
    <3>2. captured' \subseteq Mmsi /\ justLoaded' \in BOOLEAN
      BY <1>1, <2>2, <2>3 DEF Elsewhere
    <3> QED BY <1>1, <3>1, <3>2 DEF Elsewhere
  <2> QED BY <2>3, <2>4, <2>5, FoundAfterIs
<1>3. CASE PollBegins
  <2>1. Indexed' /\ Copies'
    BY <1>1, <1>3, IndexedSame, CopiesGrow DEF PollBegins, disk, index
  <2>2. PICK R \in Responses : toRecord' = R /\ polled' = {o.mmsi : o \in R}
    BY <1>3 DEF PollBegins
  <2>3. polled' \subseteq Mmsi /\ toRecord' \subseteq Observation
    BY <2>2, Reported DEF Responses
  <2>4. /\ up /\ reports' = reports + 1 /\ polling' = TRUE
        /\ UNCHANGED <<up, inScope, snapshot, savePc, file, saves, mustSave, source, crashes,
                       captured, justLoaded>>
    BY <1>3 DEF PollBegins, disk, env
  <2>5. Elsewhere'
    BY <1>1, <2>3, <2>4 DEF Elsewhere
  <2> QED BY <2>1, <2>5, FoundAfterIs
<1>4. CASE PollRecords
  <2>1. PICK o \in toRecord : Record(o) /\ toRecord' = toRecord \ {o}
    BY <1>4 DEF PollRecords
  <2>2. o \in Entry /\ o.mmsi \in Mmsi
    BY <1>1, Reported DEF Elsewhere
  <2>3. /\ Indexed' /\ DOMAIN heap \subseteq DOMAIN heap'
        /\ captured' = captured \union {o.mmsi} /\ justLoaded' = FALSE
    BY <2>1, <2>2, RecordWrites
  <2>4. Copies'
    BY <1>1, <1>4, <2>3, CopiesGrow DEF PollRecords, disk
  <2>5. /\ up
        /\ UNCHANGED <<up, inScope, polled, polling, reports, snapshot, savePc, file, saves,
                       mustSave, source, crashes>>
    BY <1>4 DEF PollRecords, disk, env
  <2>6. toRecord' \subseteq Observation /\ captured' \subseteq Mmsi /\ justLoaded' \in BOOLEAN
    BY <1>1, <2>1, <2>2, <2>3 DEF Elsewhere
  <2>7. Elsewhere'
    BY <1>1, <2>5, <2>6 DEF Elsewhere
  <2> QED BY <2>3, <2>4, <2>7, FoundAfterIs
<1>5. CASE PollRaises
  <2>1. Indexed' /\ Copies'
    BY <1>1, <1>5, IndexedSame, CopiesGrow DEF PollRaises, disk, index
  <2>2. /\ up /\ polling' = FALSE /\ toRecord' = {} /\ polled' = {}
        /\ UNCHANGED <<up, inScope, reports, snapshot, savePc, file, saves, mustSave, source,
                       crashes, captured, justLoaded>>
    BY <1>5 DEF PollRaises, disk, env
  <2>3. Elsewhere'
    BY <1>1, <2>2 DEF Elsewhere
  <2> QED BY <2>1, <2>3, FoundAfterIs
<1>6. CASE SetInScope
  <2>1. /\ up /\ polling' = FALSE /\ polled' = {} /\ inScope' = polled
        /\ UNCHANGED <<up, heap, mmsiIndex, nameIndex, callsignCache, pending, toRecord, reports,
                       snapshot, saving, savePc, file, saves, mustSave, source, crashes,
                       captured, justLoaded>>
        /\ vesselCache' \in RefreshedViews(vesselCache, Name, heap, mmsiIndex, nameIndex, polled)
    BY <1>6 DEF SetInScope, disk, env
  <2>2. vesselCache' \in [DOMAIN vesselCache -> DOMAIN heap]
    BY <2>1, ViewsAre
  <2>3. Indexed'
    BY <1>1, <2>1, <2>2 DEF Indexed, OwnEntry, FoundUnderOwnName, Images
  <2>4. Copies'
    BY <1>1, <2>1, CopiesGrow
  <2>5. Elsewhere'
    BY <1>1, <2>1 DEF Elsewhere
  <2> QED BY <2>3, <2>4, <2>5, FoundAfterIs
<1>7. CASE Snapshot
  <2>1. /\ up /\ snapshot' = vesselCache
        /\ UNCHANGED <<up, index, inScope, polled, polling, toRecord, reports, saving, savePc,
                       file, saves, mustSave, source, crashes, captured, justLoaded>>
    BY <1>7 DEF Snapshot, disk, env, feed
  <2>2. Indexed' /\ heap' = heap
    BY <1>1, <2>1, IndexedSame DEF index
  <2>3. Copies'
    BY <1>1, <2>1, <2>2 DEF Copies, Indexed
  <2>4. Elsewhere'
    BY <1>1, <2>1 DEF Elsewhere
  <2> QED BY <2>2, <2>3, <2>4, FoundAfterIs
<1>8. CASE SaveCollects \/ SaveOpens \/ SaveDumps \/ SaveFails
  <2>1. /\ up
        /\ UNCHANGED <<up, index, inScope, polled, polling, toRecord, reports, snapshot, source,
                       crashes, captured, justLoaded>>
    BY <1>8 DEF SaveCollects, SaveOpens, SaveDumps, SaveFails, env, feed
  <2>2. Indexed' /\ heap' = heap
    BY <1>1, <2>1, IndexedSame DEF index
  <2>3. saving' \subseteq DOMAIN heap /\ mustSave' \subseteq Mmsi /\ saves' \in Nat
        /\ savePc' \in {"idle", "open", "dump"}
    BY <1>1, <1>8 DEF SaveCollects, SaveOpens, SaveDumps, SaveFails, Indexed, Copies, Elsewhere,
       Collected
  <2>4. file'.intact \in BOOLEAN /\ file'.rows \in Seq(Rows)
    <3>1. CASE SaveDumps
      BY <3>1, Dumped
    <3>2. CASE SaveOpens
      BY <3>2 DEF SaveOpens, Torn
    <3>3. CASE SaveCollects \/ SaveFails
      BY <1>1, <3>3 DEF SaveCollects, SaveFails, Elsewhere
    <3> QED BY <1>8, <3>1, <3>2, <3>3
  <2>5. Copies' /\ Elsewhere'
    BY <1>1, <2>1, <2>2, <2>3, <2>4 DEF Copies, Elsewhere
  <2> QED BY <2>2, <2>5, FoundAfterIs
<1>9. CASE Crash
  <2>1. 0 \in Nat /\ 1..0 = {}
    OBVIOUS
  <2>2. Indexed' /\ Copies'
    BY <1>9, <2>1 DEF Crash, Indexed, Copies, Nothing, Images, HeldOk, OwnEntry, FoundUnderOwnName
  <2>3. Elsewhere'
    <3>1. /\ up' = FALSE /\ inScope' = {} /\ toRecord' = {} /\ polled' = {} /\ polling' = FALSE
          /\ snapshot' = Nothing /\ saving' = {} /\ savePc' = "idle" /\ mustSave' = {}
          /\ captured' = {} /\ justLoaded' = FALSE /\ crashes' = crashes + 1
          /\ UNCHANGED <<source, reports, file, saves>>
      BY <1>9 DEF Crash
    <3>2. /\ up' \in BOOLEAN /\ polling' \in BOOLEAN /\ justLoaded' \in BOOLEAN
          /\ savePc' \in {"idle", "open", "dump"}
      BY <3>1
    <3>3. inScope' \subseteq Mmsi /\ polled' \subseteq Mmsi /\ captured' \subseteq Mmsi
          /\ toRecord' \subseteq Observation /\ mustSave' \subseteq Mmsi
      BY <3>1
    <3>4. crashes' \in Nat
      BY <1>1, <3>1 DEF Elsewhere
    <3> QED BY <1>1, <3>1, <3>2, <3>3, <3>4 DEF Elsewhere
  <2> QED BY <2>2, <2>3, FoundAfterIs
<1>10. CASE Load
  <2>1. Indexed'
    BY <1>10, Reloaded
  <2>2. /\ ~up /\ up' = TRUE /\ justLoaded' = TRUE
        /\ UNCHANGED <<inScope, polled, polling, toRecord, reports, snapshot, saving, savePc,
                       file, saves, mustSave, source, crashes, captured>>
    BY <1>10 DEF Load, feed, disk, env
  <2>3. Elsewhere'
    BY <1>1, <2>2 DEF Elsewhere
  <2>4. Copies'
    BY <1>1, <2>2 DEF Copies, Elsewhere, Nothing, Images
  <2> QED BY <2>1, <2>3, <2>4, FoundAfterIs
<1>11. CASE UNCHANGED vars
  <2>1. UNCHANGED index /\ UNCHANGED <<snapshot, saving>>
    BY <1>11 DEF vars, disk
  <2>2. Indexed' /\ Copies'
    BY <1>1, <2>1, IndexedSame, CopiesGrow DEF index
  <2>3. Elsewhere'
    BY <1>1, <1>11 DEF vars, feed, disk, env, Elsewhere
  <2> QED BY <2>2, <2>3, FoundAfterIs
<1> QED
  BY <1>2, <1>3, <1>4, <1>5, <1>6, <1>7, <1>8, <1>9, <1>10, <1>11 DEF Next
-----------------------------------------------------------------------------
LEMMA FoundAlways == Spec => []Found
BY FoundInit, FoundNext, PTL DEF Spec

(* The types of the cache and its feeds, for any ships, names and observations.  *)
THEOREM CacheTypes == Spec => []TypeOK
<1>1. Found => TypeOK
  BY DEF Found, Shapes
<1> QED BY <1>1, FoundAlways, PTL

(* However often ships are renamed, adopted, take another's name or are reloaded,  *)
(* record() never lets an MMSI lead to the entry of another.                      *)
THEOREM EachShipHasItsEntry == Spec => []OwnEntry
<1>1. Found => OwnEntry
  BY DEF Found
<1> QED BY <1>1, FoundAlways, PTL

(* Whatever record() and _load_cache made of the indexes, the name a ship has now  *)
(* is a key of the matcher, and the ship a candidate under it.                     *)
THEOREM ShipsAreFound == Spec => []FoundUnderOwnName
<1>1. Found => FoundUnderOwnName
  BY DEF Found
<1> QED BY <1>1, FoundAlways, PTL

-----------------------------------------------------------------------------
(* A record either changes no index or is a publication.                         *)
RecordStep == \E o \in Entry : o.mmsi \in Mmsi /\ Record(o)

LEMMA RecordSteps ==
    ASSUME Found, [Next]_vars
    PROVE  \/ RecordStep /\ up /\ UNCHANGED <<up, inScope, snapshot, disk>>
           \/ SetInScope \/ Load \/ Crash \/ Snapshot
           \/ SaveCollects \/ SaveOpens \/ SaveDumps \/ SaveFails
           \/ UNCHANGED <<up, index, inScope, snapshot, disk, justLoaded>>
<1>1. CASE StreamFrame
  <2>1. PICK o \in Observation : Record([o EXCEPT !.at = Now])
    BY <1>1 DEF StreamFrame
  <2>2. [o EXCEPT !.at = Now] \in Entry /\ [o EXCEPT !.at = Now].mmsi \in Mmsi
    BY Reported, FoundIs DEF Entry, Now, Elsewhere
  <2>3. RecordStep
    BY <2>1, <2>2 DEF RecordStep
  <2> QED BY <1>1, <2>3 DEF StreamFrame
<1>2. CASE PollRecords
  <2>1. PICK o \in toRecord : Record(o)
    BY <1>2 DEF PollRecords
  <2>2. o \in Entry /\ o.mmsi \in Mmsi
    BY Reported, FoundIs DEF Elsewhere
  <2>3. RecordStep
    BY <2>1, <2>2 DEF RecordStep
  <2> QED BY <1>2, <2>3 DEF PollRecords
<1>3. CASE PollBegins \/ PollRaises
  BY <1>3 DEF PollBegins, PollRaises
<1>4. CASE UNCHANGED vars
  BY <1>4 DEF vars
<1> QED BY <1>1, <1>2, <1>3, <1>4 DEF Next

LEMMA RecordStepIs ==
    ASSUME Found, RecordStep
    PROVE  \/ UNCHANGED Indexes
           \/ \E m, i, e : Publishes(m, i, e) /\ Publishable(m, i, e)
<1>1. PICK o \in Entry : o.mmsi \in Mmsi /\ Record(o)
  BY DEF RecordStep
<1>2. \/ \E i, e, held : Publish(o.mmsi, i, e, held) /\ Publishable(o.mmsi, i, e)
      \/ UNCHANGED Indexes
  BY <1>1, RecordIs DEF Record
<1>3. ASSUME NEW i, NEW e, NEW held, Publish(o.mmsi, i, e, held), Publishable(o.mmsi, i, e)
      PROVE  Publishes(o.mmsi, i, e)
  BY <1>3, PublishIs
<1> QED BY <1>2, <1>3

(* What the name views show.                                                   *)
LEMMA ShownPublished ==
    ASSUME Found, BestShown, NEW m, NEW i, NEW e, Publishes(m, i, e), Publishable(m, i, e),
           UNCHANGED inScope
    PROVE  BestShown'
<1> SUFFICES ASSUME NEW n \in DOMAIN vesselCache',
                    vesselCache'[n] \in Holders(n, heap', mmsiIndex', nameIndex')
             PROVE  vesselCache'[n] \in Best(n, heap', mmsiIndex', nameIndex', inScope')
  BY DEF BestShown
<1>1. CASE n = e.name
  BY <1>1 DEF Publishes
<1>2. CASE n # e.name
  <2>1. n \in DOMAIN vesselCache /\ vesselCache'[n] = vesselCache[n] /\ n \in Name
    BY <1>2, FoundIs DEF Publishes, Indexed
  <2> DEFINE C == Holders(n, heap, mmsiIndex, nameIndex)
             D == Holders(n, heap', mmsiIndex', nameIndex')
  <2>2. ASSUME NEW j \in D
        PROVE  j \in C /\ heap'[j] = heap[j]
    <3>1. PICK k \in nameIndex'[n] \intersect DOMAIN mmsiIndex' :
             mmsiIndex'[k] = j /\ heap'[mmsiIndex'[k]].name = n
      BY DEF Holders
    <3>2. k # m
      BY <1>2, <3>1 DEF Publishes
    <3>3. k \in DOMAIN mmsiIndex /\ mmsiIndex[k] = j /\ j # i /\ k \in nameIndex[n]
      BY <1>2, <2>1, <3>1, <3>2 DEF Publishes
    <3>4. j \in DOMAIN heap
      BY <3>3, Identified DEF Found, Shapes
    <3>5. heap'[j] = heap[j]
      BY <3>3, <3>4 DEF Publishes
    <3> QED BY <3>1, <3>3, <3>5 DEF Holders
  <2>3. vesselCache[n] \in Best(n, heap, mmsiIndex, nameIndex, inScope)
    BY <2>1, <2>2 DEF BestShown
  <2>4. \A j \in C : ~SortsBefore(heap[j], heap[vesselCache[n]], inScope)
    BY <2>3 DEF Best
  <2>5. vesselCache'[n] \in D /\ heap'[vesselCache[n]] = heap[vesselCache[n]]
    BY <2>1, <2>2
  <2> HIDE DEF C, D
  <2>6. \A j \in D : ~SortsBefore(heap'[j], heap'[vesselCache'[n]], inScope)
    BY <2>1, <2>2, <2>4, <2>5
  <2> QED BY <2>5, <2>6 DEF D, Best
<1> QED BY <1>1, <1>2

LEMMA ShownStep == Found /\ BestShown /\ [Next]_vars => BestShown'
<1> SUFFICES ASSUME Found, BestShown, [Next]_vars
             PROVE  BestShown'
  OBVIOUS
<1>1. CASE RecordStep /\ UNCHANGED inScope
  <2>1. CASE UNCHANGED Indexes
    BY <1>1, <2>1 DEF Indexes, BestShown
  <2>2. CASE \E m, i, e : Publishes(m, i, e) /\ Publishable(m, i, e)
    BY <1>1, <2>2, ShownPublished
  <2> QED BY <1>1, <2>1, <2>2, RecordStepIs
<1>2. CASE SetInScope
  <2>1. /\ UNCHANGED <<heap, mmsiIndex, nameIndex>> /\ inScope' = polled
        /\ vesselCache' \in RefreshedViews(vesselCache, Name, heap, mmsiIndex, nameIndex, polled)
    BY <1>2 DEF SetInScope
  <2> DEFINE best(n) == Best(n, heap, mmsiIndex, nameIndex, polled)
  <2>2. /\ vesselCache' \in [DOMAIN vesselCache -> DOMAIN heap]
        /\ \A n \in DOMAIN vesselCache :
              \/ vesselCache'[n] = vesselCache[n] /\ (n \notin Name \/ best(n) = {})
              \/ n \in Name /\ vesselCache'[n] \in best(n)
    BY <2>1, ViewsAre
  <2>3. DOMAIN vesselCache' = DOMAIN vesselCache /\ DOMAIN vesselCache \subseteq Name
    BY <2>2, FoundIs DEF Indexed
  <2>4. \A n : best(n) = {} => Holders(n, heap, mmsiIndex, nameIndex) = {}
    <3>1. PICK N \in Nat : DOMAIN heap = 1..N
      BY FoundIs DEF Indexed
    <3>2. /\ \A j \in 1..N : heap[j] \in Entry
          /\ \A k \in DOMAIN mmsiIndex : mmsiIndex[k] \in 1..N
      BY <3>1, FoundIs DEF Indexed, Rows, Images
    <3> QED BY <3>2, BestOfHolders
  <2> HIDE DEF best
  <2>5. \A n \in DOMAIN vesselCache' :
           vesselCache'[n] \in Holders(n, heap, mmsiIndex, nameIndex) => vesselCache'[n] \in best(n)
    BY <2>2, <2>3, <2>4
  <2> QED BY <2>1, <2>5 DEF best, BestShown
<1>3. CASE Load
  <2>1. Loads /\ inScope' = {}
    BY <1>3, LoadIs, FoundIs DEF Load, Elsewhere
  <2> DEFINE best(n) == Best(n, heap', mmsiIndex', nameIndex', {})
  <2>2. Indexed'
    BY <1>3, Reloaded
  <2>3. \A n : best(n) = {} => Holders(n, heap', mmsiIndex', nameIndex') = {}
    <3>1. PICK N \in Nat : DOMAIN heap' = 1..N
      BY <2>2 DEF Indexed
    <3>2. /\ \A j \in 1..N : heap'[j] \in Entry
          /\ \A k \in DOMAIN mmsiIndex' : mmsiIndex'[k] \in 1..N
      BY <2>2, <3>1 DEF Indexed, Rows, Images
    <3> QED BY <3>2, BestOfHolders
  <2>4. \A n \in DOMAIN vesselCache' : vesselCache'[n] \in best(n) \/ best(n) = {}
    BY <2>1, <2>2 DEF Loads, Indexed
  <2> HIDE DEF best
  <2>5. \A n \in DOMAIN vesselCache' :
           vesselCache'[n] \in Holders(n, heap', mmsiIndex', nameIndex') => vesselCache'[n] \in best(n)
    BY <2>3, <2>4
  <2> QED BY <2>1, <2>5 DEF best, BestShown
<1>4. CASE Crash
  BY <1>4 DEF Crash, BestShown, Nothing
<1>5. CASE \/ Snapshot \/ SaveCollects \/ SaveOpens \/ SaveDumps \/ SaveFails
           \/ UNCHANGED <<up, index, inScope, snapshot, disk, justLoaded>>
  <2>1. UNCHANGED <<heap, vesselCache, mmsiIndex, nameIndex, inScope>>
    BY <1>5 DEF Snapshot, SaveCollects, SaveOpens, SaveDumps, SaveFails, index
  <2> QED BY <2>1 DEF BestShown
<1> QED BY <1>1, <1>2, <1>3, <1>4, <1>5, RecordSteps

(* The comment at ais.py:801 has it: a name's view is never stale against the scope  *)
(* it is ranked by.  Under any traffic, polls, renames and restarts, what a name      *)
(* shows is the best of the ships that carry it, unless it has left the name.       *)
THEOREM TheBestIsShown == Spec => []BestShown
<1>1. Init => BestShown
  BY DEF Init, BestShown, Nothing
<1> QED BY <1>1, ShownStep, FoundAlways, PTL DEF Spec

-----------------------------------------------------------------------------
(* What a poll means to publish is captured or still to be recorded.             *)
ToBeCaptured ==
    /\ inScope \subseteq captured
    /\ \A m \in polled : m \in captured \/ \E o \in toRecord : o.mmsi = m

LEMMA CapturedStep == ToBeCaptured /\ [Next]_vars => ToBeCaptured'
<1> SUFFICES ASSUME ToBeCaptured, [Next]_vars PROVE ToBeCaptured'
  OBVIOUS
<1>1. CASE StreamFrame
  <2>1. captured \subseteq captured' /\ UNCHANGED <<inScope, polled, toRecord>>
    BY <1>1 DEF StreamFrame, Record
  <2> QED BY <2>1 DEF ToBeCaptured
<1>2. CASE PollBegins
  <2>1. PICK R \in Responses : toRecord' = R /\ polled' = {o.mmsi : o \in R}
    BY <1>2 DEF PollBegins
  <2>2. UNCHANGED <<inScope, captured>>
    BY <1>2 DEF PollBegins
  <2> QED BY <2>1, <2>2 DEF ToBeCaptured
<1>3. CASE PollRecords
  <2>1. PICK o \in toRecord : captured' = captured \union {o.mmsi} /\ toRecord' = toRecord \ {o}
    BY <1>3 DEF PollRecords, Record
  <2>2. UNCHANGED <<inScope, polled>>
    BY <1>3 DEF PollRecords
  <2>3. ASSUME NEW m \in polled PROVE m \in captured' \/ \E p \in toRecord' : p.mmsi = m
    <3>1. CASE m \in captured
      BY <2>1, <3>1
    <3>2. CASE \E p \in toRecord : p.mmsi = m
      <4>1. PICK p \in toRecord : p.mmsi = m
        BY <3>2
      <4> QED BY <2>1, <4>1
    <3> QED BY <3>1, <3>2 DEF ToBeCaptured
  <2> QED BY <2>1, <2>2, <2>3 DEF ToBeCaptured
<1>4. CASE PollRaises
  BY <1>4 DEF PollRaises, ToBeCaptured
<1>5. CASE SetInScope
  <2>1. inScope' = polled /\ polled' = {} /\ toRecord = {} /\ captured' = captured
    BY <1>5 DEF SetInScope
  <2> QED BY <2>1 DEF ToBeCaptured
<1>6. CASE Crash
  BY <1>6 DEF Crash, ToBeCaptured
<1>7. CASE Snapshot \/ SaveCollects \/ SaveOpens \/ SaveDumps \/ SaveFails \/ Load \/ UNCHANGED vars
  <2>1. UNCHANGED <<inScope, polled, toRecord, captured>>
    BY <1>7 DEF Snapshot, SaveCollects, SaveOpens, SaveDumps, SaveFails, Load, vars, feed
  <2> QED BY <2>1 DEF ToBeCaptured
<1> QED BY <1>1, <1>2, <1>3, <1>4, <1>5, <1>6, <1>7 DEF Next

(* The docstring at aishub.py:247 has it: the published scope never gets ahead of   *)
(* what was captured, though each vessel is recorded under a lock of its own, a poll *)
(* may be given up half way, and the process may restart.                         *)
THEOREM TheScopeIsCaptured == Spec => []ScopeCaptured
<1>1. Init => ToBeCaptured
  BY DEF Init, ToBeCaptured
<1>2. ToBeCaptured => ScopeCaptured
  BY DEF ToBeCaptured, ScopeCaptured
<1> QED BY <1>1, <1>2, CapturedStep, PTL DEF Spec

-----------------------------------------------------------------------------
(* Where a name's view, new or old, may lead: to the ship's present name, or to an  *)
(* entry that its own MMSI still finds.                                           *)
Placed(n, i) == heap[i].name = n \/ ~Orphaned(n, i)

Haunts ==
    /\ \A n \in DOMAIN vesselCache : Placed(n, vesselCache[n])
    /\ \A n \in DOMAIN snapshot : Placed(n, snapshot[n])

(* The same of the state a step leads to.                                       *)
PlacedAfter(n, i) ==
    \/ heap'[i].name = n
    \/ /\ nameIndex'[n] # {} /\ heap'[i].mmsi \in DOMAIN mmsiIndex'
       /\ mmsiIndex'[heap'[i].mmsi] = i

LEMMA HauntsAfter ==
    ASSUME \A n \in DOMAIN vesselCache' : PlacedAfter(n, vesselCache'[n]),
           \A n \in DOMAIN snapshot' : PlacedAfter(n, snapshot'[n])
    PROVE  Haunts'
BY DEF Haunts, Placed, PlacedAfter, Orphaned

LEMMA BestIsPlaced ==
    ASSUME NEW n, NEW scope, NEW i \in Best(n, heap', mmsiIndex', nameIndex', scope)
    PROVE  PlacedAfter(n, i)
BY DEF Best, Holders, PlacedAfter

LEMMA PlacedStays ==
    ASSUME Found, Haunts, NEW m, NEW i, NEW e, Publishes(m, i, e), Publishable(m, i, e),
           NEW n \in Name, NEW j \in DOMAIN heap, Placed(n, j)
    PROVE  PlacedAfter(n, j)
<1>1. Indexed
  BY FoundIs
<1>2. /\ nameIndex[n] \subseteq nameIndex'[n]
      /\ \A k \in DOMAIN mmsiIndex : k \in DOMAIN mmsiIndex' /\ mmsiIndex'[k] = mmsiIndex[k]
  BY DEF Publishes
<1>3. CASE j # i
  <2>1. heap'[j] = heap[j]
    BY <1>3 DEF Publishes
  <2> QED BY <1>2, <2>1 DEF Placed, Orphaned, PlacedAfter
<1>4. CASE j = i
  <2>1. heap'[i] = e /\ e.mmsi = m /\ m \in DOMAIN mmsiIndex' /\ mmsiIndex'[m] = i
    BY DEF Publishes, Publishable
  <2>2. nameIndex[n] # {} => PlacedAfter(n, j)
    BY <1>2, <1>4, <2>1 DEF PlacedAfter
  <2>3. SUFFICES ASSUME nameIndex[n] = {}
                 PROVE  e.name = n
    BY <1>4, <2>1, <2>2 DEF PlacedAfter
  <2>4. heap[i].name = n
    BY <1>4, <2>3 DEF Placed, Orphaned
  <2>5. m \notin DOMAIN mmsiIndex
    <3>1. SUFFICES ASSUME m \in DOMAIN mmsiIndex
                   PROVE  FALSE
      OBVIOUS
    <3>2. i = mmsiIndex[m]
      BY <3>1 DEF Publishable
    <3>3. i \in Holders(n, heap, mmsiIndex, nameIndex)
      BY <2>4, <3>1, <3>2 DEF Found, FoundUnderOwnName
    <3> QED BY <2>3, <3>3 DEF Holders
  <2>6. /\ e.name \in DOMAIN vesselCache /\ i = vesselCache[e.name]
        /\ heap[i].mmsi \in {m, Absent}
    <3>1. PICK N \in Nat : DOMAIN heap = 1..N
      BY <1>1 DEF Indexed
    <3>2. i # Cardinality(DOMAIN heap) + 1
      BY <1>4, <3>1, Identifiers
    <3> QED BY <2>5, <3>2 DEF Publishable
  <2>7. Orphaned(e.name, i)
    BY <2>5, <2>6, Identified DEF Found, Shapes, Orphaned
  <2> QED BY <2>4, <2>6, <2>7 DEF Haunts, Placed
<1> QED BY <1>3, <1>4

LEMMA HauntsStep == Found /\ Haunts /\ [Next]_vars => Haunts'
<1> SUFFICES ASSUME Found, Haunts, [Next]_vars
             PROVE  Haunts'
  OBVIOUS
<1>1. Indexed /\ Elsewhere /\ Copies
  BY FoundIs
<1>2. /\ \A n \in DOMAIN vesselCache : /\ n \in Name /\ vesselCache[n] \in DOMAIN heap
                                       /\ Placed(n, vesselCache[n])
      /\ \A n \in DOMAIN snapshot : /\ n \in Name /\ snapshot[n] \in DOMAIN heap
                                    /\ Placed(n, snapshot[n])
  BY <1>1 DEF Indexed, Copies, Images, Haunts
<1>3. CASE RecordStep /\ UNCHANGED snapshot
  <2>1. CASE UNCHANGED Indexes
    BY <1>3, <2>1 DEF Indexes, Haunts, Placed, Orphaned
  <2>2. ASSUME NEW m, NEW i, NEW e, Publishes(m, i, e), Publishable(m, i, e)
        PROVE  Haunts'
    <3>1. \A n \in DOMAIN vesselCache : PlacedAfter(n, vesselCache[n])
      BY <1>2, <2>2, PlacedStays
    <3>2. \A n \in DOMAIN snapshot : PlacedAfter(n, snapshot[n])
      BY <1>2, <2>2, PlacedStays
    <3>3. PlacedAfter(e.name, vesselCache'[e.name])
      BY <2>2, BestIsPlaced DEF Publishes
    <3>4. \A n \in DOMAIN vesselCache' :
             n = e.name \/ (n \in DOMAIN vesselCache /\ vesselCache'[n] = vesselCache[n])
      BY <2>2 DEF Publishes
    <3>5. \A n \in DOMAIN vesselCache' : PlacedAfter(n, vesselCache'[n])
      BY <3>1, <3>3, <3>4
    <3> QED BY <1>3, <3>2, <3>5, HauntsAfter
  <2> QED BY <1>3, <2>1, <2>2, RecordStepIs
<1>4. CASE SetInScope
  <2>1. /\ UNCHANGED <<heap, mmsiIndex, nameIndex, snapshot>>
        /\ vesselCache' \in RefreshedViews(vesselCache, Name, heap, mmsiIndex, nameIndex, polled)
    BY <1>4 DEF SetInScope
  <2>2. /\ DOMAIN vesselCache' = DOMAIN vesselCache
        /\ \A n \in DOMAIN vesselCache :
              \/ vesselCache'[n] = vesselCache[n]
              \/ vesselCache'[n] \in Best(n, heap', mmsiIndex', nameIndex', polled)
    BY <2>1, ViewsAre
  <2>3. /\ \A n \in DOMAIN vesselCache : PlacedAfter(n, vesselCache[n])
        /\ \A n \in DOMAIN snapshot : PlacedAfter(n, snapshot[n])
    BY <1>2, <2>1 DEF Placed, Orphaned, PlacedAfter
  <2>4. \A n \in DOMAIN vesselCache' : PlacedAfter(n, vesselCache'[n])
    BY <2>2, <2>3, BestIsPlaced
  <2> QED BY <2>1, <2>3, <2>4, HauntsAfter
<1>5. CASE Load
  <2>1. Loads /\ snapshot' = Nothing /\ file.rows \in Seq(Rows)
    BY <1>1, <1>5, LoadIs DEF Load, Elsewhere
  <2>2. \A n \in DOMAIN vesselCache' : \E k \in DOMAIN file.rows : file.rows[k].name = n
    BY <2>1 DEF Loads
  <2>3. ASSUME NEW n \in DOMAIN vesselCache' PROVE heap'[Shown(n)].name = n
    <3>1. PICK k \in DOMAIN file.rows : file.rows[k].name = n
      BY ONLY <2>2
    <3>2. Shown(n) \in DOMAIN file.rows /\ file.rows[Shown(n)].name = n
      <4>1. file.rows \in Seq(Rows)
        BY ONLY <2>1
      <4> QED BY ONLY <4>1, <3>1, LastRow
    <3>3. \A i \in DOMAIN file.rows : heap'[i] = file.rows[i]
      BY ONLY <2>1 DEF Loads
    <3> QED BY ONLY <3>2, <3>3
  <2>4. \A n \in DOMAIN vesselCache' : PlacedAfter(n, vesselCache'[n])
    <3>1. \A n \in DOMAIN vesselCache' :
             \/ vesselCache'[n] = Shown(n)
             \/ vesselCache'[n] \in Best(n, heap', mmsiIndex', nameIndex', {})
      BY <2>1 DEF Loads
    <3> QED BY ONLY <2>3, <3>1, BestIsPlaced DEF PlacedAfter
  <2>5. DOMAIN snapshot' = {}
    BY <2>1 DEF Nothing
  <2> QED BY <2>4, <2>5, HauntsAfter
<1>6. CASE Crash
  BY <1>6 DEF Crash, Haunts, Nothing
<1>7. CASE Snapshot
  BY <1>7 DEF Snapshot, index, Haunts, Placed, Orphaned
<1>8. CASE \/ SaveCollects \/ SaveOpens \/ SaveDumps \/ SaveFails
           \/ UNCHANGED <<up, index, inScope, snapshot, disk, justLoaded>>
  <2>1. UNCHANGED <<heap, vesselCache, mmsiIndex, nameIndex, snapshot>>
    BY <1>8 DEF SaveCollects, SaveOpens, SaveDumps, SaveFails, index
  <2> QED BY <2>1 DEF Haunts, Placed, Orphaned
<1> QED BY <1>3, <1>4, <1>5, <1>6, <1>7, <1>8, RecordSteps

(* Names stay indexed for ever and the keys a lookup works on may be older than the  *)
(* indexes it then reads; no answer is a ship that has taken another name since.     *)
THEOREM NoGhostAnswers == Spec => []NoGhosts
<1>1. Init => Haunts
  BY DEF Init, Haunts, Nothing
<1>2. Haunts => NoGhosts
  <2> SUFFICES ASSUME Haunts, NEW n \in DOMAIN snapshot, NEW i \in MatchByName(n)
               PROVE  heap[i].name = n
    BY DEF NoGhosts
  <2>1. CASE i \in Holders(n, heap, mmsiIndex, nameIndex)
    BY <2>1 DEF Holders
  <2>2. CASE i \notin Holders(n, heap, mmsiIndex, nameIndex)
    <3>1. i = snapshot[n] /\ Orphaned(n, snapshot[n])
      BY <2>2 DEF MatchByName
    <3> QED BY <3>1 DEF Haunts, Placed
  <2> QED BY <2>1, <2>2
<1> QED BY <1>1, <1>2, HauntsStep, FoundAlways, PTL DEF Spec
-----------------------------------------------------------------------------
(* What a save under way has collected, and what the file holds of the index.    *)
Saved ==
    /\ savePc # "idle" =>
          /\ mustSave \subseteq DOMAIN mmsiIndex
          /\ \A m \in mustSave : mmsiIndex[m] \in saving
    /\ file.intact =>
          \A m \in DOMAIN savedIndex :
             /\ m # Absent
             /\ \E i \in DOMAIN file.rows : file.rows[i] = savedIndex[m] /\ file.rows[i].mmsi = m
    /\ SurvivesRestart

LEMMA NoneOutranksItself ==
    ASSUME NEW e
    PROVE  ~Outranks(e, e)
<1>1. Junk(e) \in {0, 1} /\ Populated(e) \in {0, 1}
  BY DEF Junk, Populated
<1> QED BY <1>1 DEF Outranks

LEMMA SavedStep == Found /\ Saved /\ [Next]_vars => Saved'
<1> SUFFICES ASSUME Found, Saved, [Next]_vars
             PROVE  Saved'
  OBVIOUS
<1>1. Indexed /\ Elsewhere /\ Copies
  BY FoundIs
<1>2. CASE RecordStep /\ UNCHANGED disk
  <2>1. justLoaded' = FALSE
    BY <1>2 DEF RecordStep, Record
  <2>2. \A m \in DOMAIN mmsiIndex : m \in DOMAIN mmsiIndex' /\ mmsiIndex'[m] = mmsiIndex[m]
    <3>1. CASE UNCHANGED Indexes
      BY <3>1 DEF Indexes
    <3>2. CASE \E m, i, e : Publishes(m, i, e) /\ Publishable(m, i, e)
      BY <3>2 DEF Publishes
    <3> QED BY <1>2, <3>1, <3>2, RecordStepIs
  <2>3. SurvivesRestart'
    BY <2>1 DEF SurvivesRestart
  <2> QED BY <1>2, <2>2, <2>3 DEF Saved, disk
<1>3. CASE SetInScope \/ Snapshot
  BY <1>3 DEF SetInScope, Snapshot, Saved, SurvivesRestart, disk, index
<1>4. CASE Load
  <2>1. Loads /\ file.rows \in Seq(Rows)
    BY <1>1, <1>4, LoadIs DEF Elsewhere
  <2>2. /\ UNCHANGED <<savePc, mustSave, saving, file, savedIndex>> /\ savePc = "idle"
    BY <1>1, <1>4 DEF Load, disk, Elsewhere
  <2>3. SurvivesRestart'
    <3> SUFFICES ASSUME file.intact, NEW m \in DOMAIN savedIndex
                 PROVE  m \in DOMAIN mmsiIndex' /\ ~Outranks(savedIndex[m], heap'[mmsiIndex'[m]])
      BY <2>2 DEF SurvivesRestart
    <3>1. PICK i \in DOMAIN file.rows : file.rows[i] = savedIndex[m] /\ file.rows[i].mmsi = m
      BY DEF Saved
    <3>2. m # Absent
      BY DEF Saved
    <3>3. m \in DOMAIN mmsiIndex' /\ mmsiIndex'[m] = IndexedRow(m)
      BY <2>1, <3>1, <3>2 DEF Loads
    <3>4. /\ IndexedRow(m) \in DOMAIN file.rows
          /\ ~Outranks(file.rows[i], file.rows[IndexedRow(m)])
      BY <2>1, <3>1, IndexedRowIs
    <3> QED BY <2>1, <3>1, <3>3, <3>4 DEF Loads
  <2> QED BY <2>2, <2>3 DEF Saved
<1>5. CASE Crash
  BY <1>5 DEF Crash, Saved, SurvivesRestart
<1>6. CASE SaveCollects
  <2>1. Images(mmsiIndex) \subseteq saving' /\ mustSave' = DOMAIN mmsiIndex
    BY <1>6 DEF SaveCollects, Collected
  <2> QED BY <1>6, <2>1 DEF SaveCollects, Saved, SurvivesRestart, index, Images
<1>7. CASE SaveOpens
  BY <1>7 DEF SaveOpens, Torn, Saved, SurvivesRestart, index
<1>8. CASE SaveDumps
  <2>1. /\ file'.intact /\ file'.rows \in Seq(Rows)
        /\ \A i \in saving : \E k \in DOMAIN file'.rows : file'.rows[k] = heap[i]
    BY <1>8, Dumped
  <2>2. /\ savePc = "dump" /\ savePc' = "idle"
        /\ savedIndex' = [m \in mustSave |-> heap[mmsiIndex[m]]]
        /\ UNCHANGED <<heap, mmsiIndex>>
    BY <1>8 DEF SaveDumps, index
  <2>3. \A m \in mustSave : /\ m \in DOMAIN mmsiIndex /\ mmsiIndex[m] \in saving
                            /\ heap[mmsiIndex[m]].mmsi = m /\ m # Absent
    BY <2>2, Identified DEF Saved, Found, Shapes, OwnEntry
  <2>4. SurvivesRestart'
    BY <2>2, <2>3, NoneOutranksItself DEF SurvivesRestart
  <2>5. \A m \in DOMAIN savedIndex' :
           /\ m # Absent
           /\ \E i \in DOMAIN file'.rows : file'.rows[i] = savedIndex'[m] /\ file'.rows[i].mmsi = m
    BY <2>1, <2>2, <2>3
  <2> QED BY <2>2, <2>4, <2>5 DEF Saved
<1>9. CASE SaveFails
  BY <1>9 DEF SaveFails, Saved, SurvivesRestart, index
<1>10. CASE UNCHANGED <<up, index, inScope, snapshot, disk, justLoaded>>
  BY <1>10 DEF Saved, SurvivesRestart, index, disk
<1> QED BY <1>2, <1>3, <1>4, <1>5, <1>6, <1>7, <1>8, <1>9, <1>10, RecordSteps

(* The saver works without the lock, an MMSI may have two rows (a ship and its decode  *)
(* artefact) and two ships one name: a restart from a complete file finds every ship   *)
(* that was indexed when the save began, by a row at least as good.                  *)
THEOREM ShipsSurviveARestart == Spec => []SurvivesRestart
<1>1. Init => Saved
  BY DEF Init, Saved, SurvivesRestart, Nothing
<1>2. Saved => SurvivesRestart
  BY DEF Saved
<1> QED BY <1>1, <1>2, SavedStep, FoundAlways, PTL DEF Spec
-----------------------------------------------------------------------------
(***************************************************************************)
(* aisstream: the watchdog speaks when it should, and the retries keep their *)
(* pace.                                                                     *)
(***************************************************************************)
ClockTypes ==
    /\ link \in {"waiting", "open"}
    /\ look \in Int /\ quiet \in Int /\ connected \in Int /\ sinceMessage \in 0..Never
    /\ everMessage \in BOOLEAN

(* What the watchdog's clocks have to do with each other on an open connection. *)
(* The last message came on it, or none did: then the connection is as old as   *)
(* its silence.  The first look comes a whole round after the connection.  And  *)
(* while nothing has been said, the silence at the next look is one round more  *)
(* than the limit at most.                                                      *)
Watched ==
    link = "open" =>
        /\ look \in 0..LookEvery
        /\ quiet \in 0..Never /\ connected \in 0..Never
        /\ quiet = connected \/ (everMessage /\ quiet = sinceMessage)
        /\ everMessage => quiet <= sinceMessage
        /\ connected + look >= LookEvery
        /\ AIS_SILENCE_WARN_SEC > 0 =>
              /\ said = {} => quiet + look <= AIS_SILENCE_WARN_SEC + LookEvery
              /\ said # {} => quiet >= AIS_SILENCE_WARN_SEC

Watching == ClockTypes /\ Watched

(* The least wait after n attempts in a row that received nothing.             *)
Least(n) == Smaller(RECONNECT_BASE_SEC * 2 ^ (n - 1), RECONNECT_CAP_SEC)

(* What an attempt has waited and has still to sleep is enough, and not more    *)
(* than the cap and its jitter.                                                 *)
Pacing ==
    /\ link \in {"waiting", "open"} /\ delivers \in BOOLEAN
    /\ failures \in Nat /\ fruitless \in Nat /\ failures = fruitless
    /\ sleeping \in Int /\ waited \in Int
    /\ link = "waiting" =>
          /\ fruitless > 0 => waited + sleeping >= Least(fruitless)
          /\ refused => waited + sleeping >= RATE_LIMIT_FLOOR_SEC
          /\ waited + sleeping <= RECONNECT_CAP_SEC + RECONNECT_CAP_SEC \div 4
    /\ waited <= RECONNECT_CAP_SEC + RECONNECT_CAP_SEC \div 4
    /\ gap.fruitless \in Nat
    /\ gap.fruitless > 0 => gap.waited >= Least(gap.fruitless)
    /\ gap.refused => gap.waited >= RATE_LIMIT_FLOOR_SEC

-----------------------------------------------------------------------------
LEMMA Rounds ==
    /\ AIS_SILENCE_WARN_SEC \in Nat /\ LookEvery \in Nat \ {0} /\ LookEvery >= AIS_SILENCE_WARN_SEC
    /\ Never \in Nat /\ Never = AIS_SILENCE_WARN_SEC + 2 * LookEvery
BY StreamAssumption DEF LookEvery, Never, Bigger

(* The watchdog's report, where its clocks are: it speaks once the silence has  *)
(* lasted as long as the limit, and not before.                                *)
LEMMA ReportOnTime ==
    ASSUME Watching, link = "open", look = 0, AIS_SILENCE_WARN_SEC > 0
    PROVE  SilenceReport = {} <=> quiet < AIS_SILENCE_WARN_SEC
<1> AIS_SILENCE_WARN_SEC # 0
  BY Rounds
<1>1. CASE everMessage
  <2>1. SilenceReport = IF sinceMessage < AIS_SILENCE_WARN_SEC THEN {} ELSE {"going stale"}
    BY <1>1, Zenon DEF SilenceReport
  <2>2. sinceMessage < AIS_SILENCE_WARN_SEC <=> quiet < AIS_SILENCE_WARN_SEC
    BY <1>1, Rounds DEF Watching, ClockTypes, Watched
  <2> QED BY <2>1, <2>2
<1>2. CASE ~everMessage
  <2>1. SilenceReport = IF connected < AIS_SILENCE_WARN_SEC THEN {} ELSE {"no data at all"}
    BY <1>2, Zenon DEF SilenceReport
  <2>2. connected = quiet
    BY <1>2 DEF Watching, ClockTypes, Watched
  <2> QED BY <2>1, <2>2
<1> QED BY <1>1, <1>2

LEMMA WatchingInit == StreamInit => Watching
<1> SUFFICES ASSUME StreamInit PROVE Watching
  OBVIOUS
<1>1. ClockTypes
  <2>1. link = "waiting" /\ look = 0 /\ quiet = 0 /\ connected = 0 /\ sinceMessage = Never
    BY DEF StreamInit
  <2>2. everMessage \in BOOLEAN
    BY DEF StreamInit
  <2> QED BY <2>1, <2>2, Rounds DEF ClockTypes
<1>2. Watched
  BY DEF StreamInit, Watched
<1> QED BY <1>1, <1>2 DEF Watching

LEMMA WatchingNext == Watching /\ [StreamNext]_streamVars => Watching'
<1> SUFFICES ASSUME Watching, [StreamNext]_streamVars PROVE Watching'
  OBVIOUS
<1> USE DEF Watching, ClockTypes, Watched
<1>1. CASE Opens
  BY <1>1, Rounds DEF Opens, Attempts
<1>2. CASE AisFrame
  BY <1>2, Rounds DEF AisFrame
<1>3. CASE StreamTick
  <2>1. CASE link = "open"
    BY <1>3, <2>1, Rounds DEF StreamTick, Smaller
  <2>2. CASE link = "waiting"
    BY <1>3, <2>2, Rounds DEF StreamTick, Smaller
  <2> QED BY <2>1, <2>2
<1>4. CASE Looks
  <2>1. /\ said' = said \union SilenceReport /\ look' = LookEvery /\ look = 0 /\ link = "open"
        /\ UNCHANGED <<link, quiet, connected, sinceMessage, everMessage>>
    BY <1>4 DEF Looks
  <2>2. ASSUME AIS_SILENCE_WARN_SEC > 0 PROVE SilenceReport = {} <=> quiet < AIS_SILENCE_WARN_SEC
    BY <2>1, <2>2, ReportOnTime
  <2>3. ASSUME AIS_SILENCE_WARN_SEC > 0
        PROVE  /\ said' = {} => quiet < AIS_SILENCE_WARN_SEC
               /\ said' # {} => quiet >= AIS_SILENCE_WARN_SEC
    BY <2>1, <2>2, <2>3, Rounds
  <2> QED BY <2>1, <2>3, Rounds
<1>5. CASE (\E limited \in BOOLEAN : ConnectFails(limited)) \/ Closes
  <2>1. link' = "waiting"
        /\ UNCHANGED <<look, quiet, connected, sinceMessage, everMessage>>
    BY <1>5 DEF ConnectFails, Closes, Ends
  <2> QED BY <2>1
<1>6. CASE OtherFrame \/ UNCHANGED streamVars
  BY <1>6 DEF OtherFrame, streamVars
<1> QED BY <1>1, <1>2, <1>3, <1>4, <1>5, <1>6 DEF StreamNext

(* However frames, closings, reconnects and looks fall, a connection that has   *)
(* been silent for the limit and a round has been reported, and none before     *)
(* the limit.                                                                   *)
THEOREM SilenceIsSaid == StreamSpec => []SilenceSaid
<1>1. Watching => SilenceSaid
  BY Rounds DEF Watching, ClockTypes, Watched, SilenceSaid
<1> QED BY <1>1, WatchingInit, WatchingNext, PTL DEF StreamSpec

-----------------------------------------------------------------------------
LEMMA Limits ==
    /\ RECONNECT_CAP_SEC \in Nat /\ RATE_LIMIT_FLOOR_SEC \in Nat
    /\ RATE_LIMIT_FLOOR_SEC <= RECONNECT_CAP_SEC
    /\ RECONNECT_CAP_SEC + RECONNECT_CAP_SEC \div 4 \in Nat
    /\ RECONNECT_CAP_SEC <= RECONNECT_CAP_SEC + RECONNECT_CAP_SEC \div 4
BY StreamAssumption

(* The least wait is a number, and never above the cap.                          *)
LEMMA LeastOne == \A k \in Nat : Least(k) \in Int /\ Least(k) <= RECONNECT_CAP_SEC
<1> SUFFICES ASSUME NEW k \in Nat PROVE Least(k) \in Int /\ Least(k) <= RECONNECT_CAP_SEC
  OBVIOUS
<1>1. k = 0 \/ k - 1 \in Nat
  OBVIOUS
<1>2. 2 ^ (k - 1) \in Int
  OBVIOUS
<1> QED BY <1>2, StreamAssumption, Limits DEF Least, Smaller

(* What _reconnect_delay gives after f attempts in a row that came to nothing.  *)
LEMMA DelayIsDue ==
    ASSUME NEW f \in Nat, NEW limited \in BOOLEAN
    PROVE  LET delay == Delay(Bigger(f - 1, 0), limited)
           IN  /\ delay \in Int /\ delay <= RECONNECT_CAP_SEC
               /\ f > 0 => delay >= Least(f)
               /\ limited => delay >= RATE_LIMIT_FLOOR_SEC
<1> DEFINE n == Bigger(f - 1, 0)
           least == Smaller(RECONNECT_BASE_SEC * 2 ^ n, RECONNECT_CAP_SEC)
<1>1. n \in Nat /\ (f > 0 => n = f - 1)
  BY DEF Bigger
<1>2. f > 0 => least = Least(f)
  BY <1>1 DEF Least
<1>3. least \in Int /\ least <= RECONNECT_CAP_SEC
  <2> HIDE DEF n
  <2>1. 2 ^ n \in Int
    BY <1>1
  <2> QED BY <2>1, StreamAssumption, Limits DEF Smaller
<1>4. Delay(n, limited) = IF limited THEN Bigger(least, RATE_LIMIT_FLOOR_SEC) ELSE least
  BY DEF Delay
<1> HIDE DEF least
<1>5. /\ Delay(n, limited) \in Int /\ Delay(n, limited) <= RECONNECT_CAP_SEC
      /\ Delay(n, limited) >= least
      /\ limited => Delay(n, limited) >= RATE_LIMIT_FLOOR_SEC
  BY <1>3, <1>4, Limits DEF Bigger
<1> QED BY <1>2, <1>5

(* How an attempt ends: what it has to sleep is at least what is due, and at    *)
(* most the cap and its jitter.                                                *)
LEMMA SleepIsDue ==
    ASSUME Pacing, NEW fruitful \in BOOLEAN, NEW limited \in BOOLEAN, Ends(fruitful, limited)
    PROVE  /\ failures' \in Nat /\ fruitless' = failures' /\ waited' = 0 /\ link' = "waiting"
           /\ sleeping' \in Int
           /\ fruitless' > 0 => sleeping' >= Least(fruitless')
           /\ limited => sleeping' >= RATE_LIMIT_FLOOR_SEC
           /\ sleeping' <= RECONNECT_CAP_SEC + RECONNECT_CAP_SEC \div 4
           /\ refused' = limited
<1>1. failures' \in Nat /\ fruitless' = failures'
  BY DEF Ends, After, Pacing
<1>2. PICK delay : /\ delay = Delay(Bigger(failures' - 1, 0), limited)
                   /\ sleeping' \in delay..(delay + delay \div 4)
  BY DEF Ends
<1>3. /\ delay \in Int /\ delay <= RECONNECT_CAP_SEC
      /\ failures' > 0 => delay >= Least(failures')
      /\ limited => delay >= RATE_LIMIT_FLOOR_SEC
  BY <1>1, <1>2, DelayIsDue
<1>4. /\ sleeping' \in Int /\ sleeping' >= delay
      /\ sleeping' <= RECONNECT_CAP_SEC + RECONNECT_CAP_SEC \div 4
  BY <1>2, <1>3, Limits
<1>5. fruitless' > 0 => sleeping' >= Least(fruitless')
  BY <1>1, <1>3, <1>4, LeastOne
<1>6. limited => sleeping' >= RATE_LIMIT_FLOOR_SEC
  BY <1>3, <1>4, Limits
<1>7. waited' = 0 /\ link' = "waiting" /\ refused' = limited
  BY DEF Ends
<1> QED BY <1>1, <1>4, <1>5, <1>6, <1>7

LEMMA PacingInit == StreamInit => Pacing
<1> SUFFICES ASSUME StreamInit PROVE Pacing
  OBVIOUS
<1>1. /\ link = "waiting" /\ sleeping = 0 /\ failures = 0 /\ waited = RECONNECT_CAP_SEC
      /\ fruitless = 0
  BY DEF StreamInit
<1>2. delivers \in BOOLEAN /\ ~refused
  BY DEF StreamInit
<1>3. gap.fruitless = 0 /\ ~gap.refused
  BY DEF StreamInit, NoGap
<1> QED BY <1>1, <1>2, <1>3, Limits DEF Pacing

LEMMA PacingNext == Pacing /\ [StreamNext]_streamVars => Pacing'
<1> SUFFICES ASSUME Pacing, [StreamNext]_streamVars PROVE Pacing'
  OBVIOUS
<1> DEFINE GapKept == /\ gap.fruitless \in Nat
                      /\ gap.fruitless > 0 => gap.waited >= Least(gap.fruitless)
                      /\ gap.refused => gap.waited >= RATE_LIMIT_FLOOR_SEC
<1>1. ASSUME Attempts PROVE GapKept'
  <2>1. gap' = [waited |-> waited, fruitless |-> fruitless, refused |-> refused]
        /\ link = "waiting" /\ sleeping = 0
    BY <1>1 DEF Attempts
  <2>2. gap'.waited = waited /\ gap'.fruitless = fruitless /\ gap'.refused = refused
    BY <2>1
  <2>3. /\ waited + sleeping = waited /\ fruitless \in Nat
        /\ fruitless > 0 => waited + sleeping >= Least(fruitless)
        /\ refused => waited + sleeping >= RATE_LIMIT_FLOOR_SEC
    BY <2>1 DEF Pacing
  <2> QED BY <2>2, <2>3 DEF Least
<1>2. ASSUME NEW fruitful \in BOOLEAN, NEW limited \in BOOLEAN, Ends(fruitful, limited),
             GapKept', delivers' \in BOOLEAN
      PROVE  Pacing'
  <2>1. /\ failures' \in Nat /\ fruitless' = failures' /\ waited' = 0 /\ link' = "waiting"
        /\ sleeping' \in Int /\ waited' + sleeping' = sleeping'
        /\ fruitless' > 0 => sleeping' >= Least(fruitless')
        /\ refused' => sleeping' >= RATE_LIMIT_FLOOR_SEC
        /\ sleeping' <= RECONNECT_CAP_SEC + RECONNECT_CAP_SEC \div 4
    BY <1>2, SleepIsDue
  <2>2. waited' <= RECONNECT_CAP_SEC + RECONNECT_CAP_SEC \div 4 /\ waited' \in Int
    BY <2>1, Limits
  <2> QED BY <1>2, <2>1, <2>2 DEF Pacing, Least
<1>3. CASE Opens
  <2>1. GapKept'
    BY <1>1, <1>3 DEF Opens
  <2> QED BY <1>3, <2>1 DEF Opens, Pacing
<1>4. ASSUME NEW limited \in BOOLEAN, ConnectFails(limited) PROVE Pacing'
  <2>1. GapKept' /\ delivers' \in BOOLEAN /\ Ends(FALSE, limited)
    BY <1>1, <1>4 DEF ConnectFails, Pacing
  <2> QED BY <1>2, <2>1
<1>5. CASE Closes
  <2>1. GapKept' /\ delivers \in BOOLEAN /\ delivers' \in BOOLEAN /\ Ends(delivers, FALSE)
    BY <1>5 DEF Closes, Pacing, Least
  <2> QED BY <1>2, <2>1
<1>6. CASE StreamTick
  <2>1. CASE link = "open"
    BY <1>6, <2>1 DEF StreamTick, Pacing, Least
  <2>2. CASE link = "waiting"
    <3>1. /\ sleeping > 0 /\ sleeping' = sleeping - 1 /\ waited' = waited + 1
          /\ UNCHANGED <<link, delivers, failures, fruitless, refused, gap>>
      BY <1>6, <2>2 DEF StreamTick
    <3>2. waited' + sleeping' = waited + sleeping /\ waited' \in Int /\ sleeping' \in Int
      BY <3>1 DEF Pacing
    <3>3. waited' <= RECONNECT_CAP_SEC + RECONNECT_CAP_SEC \div 4
      BY <2>2, <3>1, <3>2, Limits DEF Pacing
    <3> QED BY <2>2, <3>1, <3>2, <3>3 DEF Pacing, Least
  <2> QED BY <2>1, <2>2 DEF Pacing
<1>7. CASE AisFrame \/ OtherFrame \/ Looks \/ UNCHANGED streamVars
  <2>1. delivers' \in BOOLEAN
        /\ UNCHANGED <<link, sleeping, failures, waited, fruitless, refused, gap>>
    BY <1>7 DEF AisFrame, OtherFrame, Looks, streamVars, Pacing
  <2> QED BY <2>1 DEF Pacing, Least
<1> QED BY <1>3, <1>4, <1>5, <1>6, <1>7 DEF StreamNext

(* Whatever a server does - closes, refuses, answers 429, opens and says         *)
(* nothing - the attempts keep the distance the code promises, and come back.    *)
THEOREM TheFeedIsPaced == StreamSpec => []FeedPaced
<1>1. Pacing => FeedPaced
  BY DEF Pacing, FeedPaced, Least
<1> QED BY <1>1, PacingInit, PacingNext, PTL DEF StreamSpec
-----------------------------------------------------------------------------
(***************************************************************************)
(* The station counter: the rolling windows, whatever the reads' boundaries. *)
(***************************************************************************)
(* What a connection holds back: the tokens after its last newline, in order.   *)
HeldBack(b, r) == \E q \in Nat, k \in 0..2 :
                     r = 3 * q + k /\ b = [i \in 1..k |-> 3 * q + i] /\ Len(b) = k

LEMMA GreatestIs ==
    ASSUME NEW S, S \subseteq Int, NEW m \in S, \A i \in S : i <= m
    PROVE  Max(S) = m
<1>1. \A y \in S : m >= y
  OBVIOUS
<1>2. \A x \in S : (\A y \in S : x >= y) => x = m
  OBVIOUS
<1> QED BY <1>1, <1>2 DEF Max

LEMMA Thirds ==
    ASSUME NEW q \in Nat, NEW i \in Nat
    PROVE  (3 * q + i) % 3 = i % 3
OBVIOUS

(* A run of tokens that starts on a sentence: its lines are whole sentences.    *)
Run(joined, q, len) == /\ joined \in Seq(Int) /\ Len(joined) = len
                       /\ \A i \in 1..len : joined[i] = 3 * q + i

LEMMA EndsAre ==
    ASSUME NEW q \in Nat, NEW len \in Nat, NEW joined, Run(joined, q, len), NEW j \in 1..(len + 1)
    PROVE  LastEnd(joined, j) = (j - 1) - ((j - 1) % 3)
<1> DEFINE S == {0} \union {i \in 1..(j - 1) : IsNewline(joined[i])}
           m == (j - 1) - ((j - 1) % 3)
<1>1. \A i \in 1..(j - 1) : IsNewline(joined[i]) <=> i % 3 = 0
  BY Thirds DEF Run, IsNewline
<1>2. m \in 0..(j - 1) /\ m % 3 = 0 /\ j - 1 - m \in 0..2
  OBVIOUS
<1>3. S \subseteq Int
  OBVIOUS
<1>4. m \in S
  BY <1>1, <1>2
<1>5. \A i \in S : i <= m
  <2> SUFFICES ASSUME NEW i \in 1..(j - 1), i % 3 = 0, i > m
               PROVE  FALSE
    BY <1>1, <1>2
  <2> HIDE DEF m
  <2> QED BY <1>2
<1> HIDE DEF S, m
<1>6. Max(S) = m
  BY <1>3, <1>4, <1>5, GreatestIs
<1> QED BY <1>6 DEF LastEnd, S, m

(* A line of such a run: the two halves before a newline.                       *)
IsLine(l, q, len) == \E j \in 1..len : j % 3 = 0 /\ l = <<3 * q + j - 2, 3 * q + j - 1>>

LEMMA LinesAre ==
    ASSUME NEW q \in Nat, NEW len \in Nat, NEW joined, Run(joined, q, len)
    PROVE  \A l : l \in LinesOf(joined) <=> IsLine(l, q, len)
<1>1. \A j \in 1..len : IsNewline(joined[j]) <=> j % 3 = 0
  BY Thirds DEF Run, IsNewline
<1>2. ASSUME NEW j \in 1..len, j % 3 = 0
      PROVE  SubSeq(joined, LastEnd(joined, j) + 1, j - 1) = <<3 * q + j - 2, 3 * q + j - 1>>
  <2>1. (j - 1) % 3 = 2 /\ j >= 3
    BY <1>2
  <2>2. LastEnd(joined, j) = j - 3
    BY <2>1, EndsAre
  <2>3. SubSeq(joined, j - 2, j - 1) = <<3 * q + j - 2, 3 * q + j - 1>>
    <3>1. SubSeq(joined, j - 2, j - 1) = [i \in 1..2 |-> joined[i + (j - 2) - 1]]
      BY <2>1
    <3>2. joined[1 + (j - 2) - 1] = 3 * q + j - 2 /\ joined[2 + (j - 2) - 1] = 3 * q + j - 1
      BY <2>1 DEF Run
    <3>3. \A s \in Seq(Int) : Len(s) = 2 => s = <<s[1], s[2]>>
      OBVIOUS
    <3>4. /\ SubSeq(joined, j - 2, j - 1) \in Seq(Int)
          /\ Len(SubSeq(joined, j - 2, j - 1)) = 2
      <4>1. joined \in Seq(Int)
        BY DEF Run
      <4> QED BY <2>1, <4>1 DEF Run
    <3> DEFINE s == SubSeq(joined, j - 2, j - 1)
    <3>5. s[1] = joined[1 + (j - 2) - 1] /\ s[2] = joined[2 + (j - 2) - 1]
      BY <3>1
    <3>6. s = <<s[1], s[2]>>
      <4> HIDE DEF s
      <4> QED BY <3>3, <3>4 DEF s
    <3> HIDE DEF s
    <3>7. s[1] = 3 * q + j - 2 /\ s[2] = 3 * q + j - 1
      BY <3>2, <3>5
    <3>8. s = <<3 * q + j - 2, 3 * q + j - 1>>
      BY <3>6, <3>7
    <3> QED BY <3>8 DEF s
  <2> QED BY <2>2, <2>3
<1>3. Len(joined) = len
  BY DEF Run
<1>4. \A l : l \in LinesOf(joined) <=>
          \E j \in 1..len : IsNewline(joined[j]) /\ l = SubSeq(joined, LastEnd(joined, j) + 1, j - 1)
  BY <1>3 DEF LinesOf
<1> QED BY <1>1, <1>2, <1>4 DEF IsLine

LEMMA TailIs ==
    ASSUME NEW q \in Nat, NEW len \in Nat, NEW joined, Run(joined, q, len)
    PROVE  HeldBack(TailOf(joined), 3 * q + len)
<1> DEFINE m == len - (len % 3)
           t == TailOf(joined)
<1>1. LastEnd(joined, len + 1) = m /\ len + 1 \in 1..(len + 1)
  BY EndsAre
<1>2. m \in 0..len /\ len - m \in 0..2 /\ m = 3 * (len \div 3)
  OBVIOUS
<1>3. t = SubSeq(joined, m + 1, len)
  BY <1>1 DEF Run, TailOf
<1>4. t = [i \in 1..(len - m) |-> joined[i + (m + 1) - 1]] /\ DOMAIN t = 1..(len - m) /\ Len(t) = len - m
  <2>1. \A i \in 1..Len(joined) : joined[i] \in Int
    BY DEF Run
  <2>2. joined \in Seq(Int)
    BY DEF Run
  <2> HIDE DEF m
  <2>3. SubSeq(joined, m + 1, len) = [i \in 1..(len - m) |-> joined[i + (m + 1) - 1]]
    BY <1>2, <2>2 DEF Run
  <2> QED BY <1>2, <1>3, <2>3
<1>5. \A i \in 1..(len - m) : t[i] = 3 * (q + (len \div 3)) + i
  <2> HIDE DEF m
  <2> SUFFICES ASSUME NEW i \in 1..(len - m)
               PROVE  t[i] = 3 * (q + (len \div 3)) + i
    OBVIOUS
  <2>1. t[i] = joined[i + m] /\ i + m \in 1..len
    BY <1>2, <1>4
  <2> QED BY <1>2, <2>1 DEF Run
<1>6. 3 * q + len = 3 * (q + (len \div 3)) + (len - m) /\ q + (len \div 3) \in Nat
  BY <1>2
<1> HIDE DEF m, t
<1> QED BY <1>2, <1>4, <1>5, <1>6 DEF HeldBack, t

(* What a read joins on starts on a sentence, and completes the ones whose       *)
(* newlines it brings: what the station said whole, and no other.              *)
LEMMA ReadIsARun ==
    ASSUME NEW r \in Nat, NEW b, HeldBack(b, r), NEW n \in Nat
    PROVE  \E q \in Nat, k \in 0..2 : r = 3 * q + k /\ Run(b \o [i \in 1..n |-> r + i], q, k + n)
<1>1. PICK q \in Nat, k \in 0..2 : r = 3 * q + k /\ b = [i \in 1..k |-> 3 * q + i] /\ Len(b) = k
  BY DEF HeldBack
<1> DEFINE more == [i \in 1..n |-> r + i]
           joined == b \o more
<1>2. Len(more) = n /\ more \in Seq(Int) /\ b \in Seq(Int)
  <2>1. Len(more) = n /\ more \in Seq(Int)
    OBVIOUS
  <2>2. b \in Seq(Int)
    BY <1>1
  <2> QED BY <2>1, <2>2
<1> HIDE DEF more
<1>3. joined \in Seq(Int) /\ Len(joined) = k + n
  BY <1>1, <1>2
<1>4. \A i \in 1..(k + n) : joined[i] = IF i <= k THEN b[i] ELSE more[i - k]
  BY <1>1, <1>2, ConcatProperties
<1>5. \A i \in 1..n : more[i] = r + i
  BY DEF more
<1>6. \A i \in 1..(k + n) : joined[i] = 3 * q + i
  <2> SUFFICES ASSUME NEW i \in 1..(k + n)
               PROVE  joined[i] = 3 * q + i
    OBVIOUS
  <2>1. CASE i <= k
    BY <1>1, <1>4, <2>1
  <2>2. CASE i > k
    <3>1. i - k \in 1..n /\ r + (i - k) = 3 * q + i
      BY <1>1, <2>2
    <3>2. more[i - k] = r + (i - k)
      BY <1>5, <3>1
    <3>3. joined[i] = more[i - k]
      <4> HIDE DEF joined
      <4> QED BY <1>4, <2>2
    <3> QED BY <3>1, <3>2, <3>3
  <2> HIDE DEF joined
  <2>3. i <= k \/ i > k
    OBVIOUS
  <2> QED BY <2>1, <2>2, <2>3
<1> QED BY <1>1, <1>3, <1>6 DEF Run, more

(* The stations a set of lines names.                                           *)
Named(c, lines) == {Sentence(c, l[1]).mmsi : l \in {l \in lines : HasMmsi(c, l)}}

Joined(b, r, n) == b \o [i \in 1..n |-> r + i]
Texts(joined) == {l \in LinesOf(joined) : l # <<>>}

HeardAt(h) == {p[2] : p \in {p \in arrived : p[1] = h}}

LEMMA LinesNameWhatWasSaid ==
    ASSUME NEW c, NEW r \in Nat, NEW b, HeldBack(b, r), NEW n \in Nat,
           NEW joined, joined = Joined(b, r, n)
    PROVE  /\ \A m : m \in Named(c, Texts(joined)) <=>
                     \E s \in SaidWhole(c, r, r + n) : m = s.mmsi
           /\ HeldBack(TailOf(joined), r + n)
<1>1. PICK q \in Nat, k \in 0..2 : r = 3 * q + k /\ Run(joined, q, k + n)
  BY ReadIsARun DEF Joined
<1>2. HeldBack(TailOf(joined), r + n)
  <2>1. k + n \in Nat /\ 3 * q + (k + n) = r + n
    BY <1>1
  <2> QED BY <1>1, <2>1, TailIs
<1>3. \A l : l \in LinesOf(joined) <=> IsLine(l, q, k + n)
  <2> DEFINE len == k + n
  <2>1. len \in Nat /\ Run(joined, q, len)
    BY <1>1
  <2> HIDE DEF len
  <2>2. \A l : l \in LinesOf(joined) <=> IsLine(l, q, len)
    BY <2>1, LinesAre
  <2> QED BY <2>2 DEF len
<1> DEFINE lines == {l \in LinesOf(joined) : l # <<>>}
           Tells(s) == s.known /\ s.fragment = 1 /\ s.mmsi # 0
<1>4. ASSUME NEW j \in 1..(k + n), j % 3 = 0, NEW l, l = <<3 * q + j - 2, 3 * q + j - 1>>
      PROVE  /\ l \in lines /\ Sentence(c, l[1]) = Sentence(c, 3 * q + j)
             /\ HasMmsi(c, l) <=> Tells(Sentence(c, 3 * q + j))
  <2>1. l # <<>> /\ Len(l) = 2 /\ l[1] = 3 * q + j - 2 /\ l[2] = 3 * q + j - 1
    BY <1>4
  <2>2. l[1] % 3 = 1 /\ l[2] = l[1] + 1
    BY <1>4, <2>1
  <2>3. (l[1] - 1) \div 3 = (3 * q + j - 1) \div 3
    BY <1>4, <2>1
  <2>4. Sentence(c, l[1]) = Sentence(c, 3 * q + j)
    BY <2>3 DEF Sentence
  <2>5. l \in lines
    BY <1>3, <1>4, <2>1 DEF IsLine
  <2> HIDE DEF lines
  <2> QED BY <2>1, <2>2, <2>4, <2>5 DEF HasMmsi, Whole
<1>5. ASSUME NEW l \in lines
      PROVE  \E j \in 1..(k + n) : j % 3 = 0 /\ l = <<3 * q + j - 2, 3 * q + j - 1>>
  BY <1>3 DEF IsLine
<1> HIDE DEF lines
<1>6. \A m : m \in Named(c, lines) <=>
             \E j \in 1..(k + n) : /\ j % 3 = 0 /\ Tells(Sentence(c, 3 * q + j))
                                   /\ m = Sentence(c, 3 * q + j).mmsi
  <2> HIDE DEF Tells
  <2>1. ASSUME NEW m \in Named(c, lines)
        PROVE  \E j \in 1..(k + n) : /\ j % 3 = 0 /\ Tells(Sentence(c, 3 * q + j))
                                     /\ m = Sentence(c, 3 * q + j).mmsi
    <3>1. PICK l \in lines : HasMmsi(c, l) /\ m = Sentence(c, l[1]).mmsi
      BY DEF Named
    <3>2. PICK j \in 1..(k + n) : j % 3 = 0 /\ l = <<3 * q + j - 2, 3 * q + j - 1>>
      BY <1>5
    <3> QED BY <1>4, <3>1, <3>2
  <2>2. ASSUME NEW j \in 1..(k + n), j % 3 = 0, Tells(Sentence(c, 3 * q + j))
        PROVE  Sentence(c, 3 * q + j).mmsi \in Named(c, lines)
    <3>1. PICK l : l = <<3 * q + j - 2, 3 * q + j - 1>>
      OBVIOUS
    <3>2. l \in lines /\ HasMmsi(c, l) /\ Sentence(c, l[1]) = Sentence(c, 3 * q + j)
      BY <1>4, <2>2, <3>1
    <3> QED BY <3>2 DEF Named
  <2> QED BY <2>1, <2>2
<1>7. \A s : s \in SaidWhole(c, r, r + n) <=>
             \E i \in (r + 1)..(r + n) : i % 3 = 0 /\ Tells(s) /\ s = Sentence(c, i)
  BY DEF SaidWhole, IsNewline
<1>8. ASSUME NEW j \in 1..(k + n), j % 3 = 0
      PROVE  3 * q + j \in (r + 1)..(r + n) /\ (3 * q + j) % 3 = 0
  <2>1. r = 3 * q + k
    BY <1>1
  <2>2. j >= 3
    BY <1>8
  <2>3. (3 * q + j) % 3 = 0
    BY <1>8, Thirds
  <2> QED BY <2>1, <2>2, <2>3
<1>9. ASSUME NEW i \in (r + 1)..(r + n), i % 3 = 0
      PROVE  /\ i - 3 * q \in 1..(k + n) /\ (i - 3 * q) % 3 = 0
             /\ 3 * q + (i - 3 * q) = i
  <2>1. r = 3 * q + k /\ i \in Nat /\ i > 3 * q
    BY <1>1
  <2> DEFINE j == i - 3 * q
  <2>2. j \in Nat /\ j \in 1..(k + n) /\ 3 * q + j = i
    BY <2>1
  <2> HIDE DEF j
  <2>3. j % 3 = 0
    BY <1>9, <2>2, Thirds
  <2> QED BY <2>2, <2>3 DEF j
<1>10. \A m : m \in Named(c, lines) <=> \E s \in SaidWhole(c, r, r + n) : m = s.mmsi
  <2> HIDE DEF Tells
  <2>1. ASSUME NEW m \in Named(c, lines) PROVE \E s \in SaidWhole(c, r, r + n) : m = s.mmsi
    BY <1>6, <1>7, <1>8
  <2>2. ASSUME NEW s \in SaidWhole(c, r, r + n) PROVE s.mmsi \in Named(c, lines)
    <3>1. PICK i \in (r + 1)..(r + n) : i % 3 = 0 /\ Tells(s) /\ s = Sentence(c, i)
      BY <1>7
    <3> DEFINE j == i - 3 * q
    <3>2. j \in 1..(k + n) /\ j % 3 = 0 /\ 3 * q + j = i
      BY <1>9, <3>1
    <3> HIDE DEF j
    <3> QED BY <1>6, <3>1, <3>2
  <2> QED BY <2>1, <2>2
<1> QED BY <1>2, <1>10 DEF lines, Texts

(* The hour that the heartbeat's step is for: what it took, or would take now.  *)
HourOf == IF keyed = NoHour THEN hour ELSE keyed

(* Every hour that a window may still look at holds what was heard in it.       *)
CounterInv ==
    /\ hour \in Nat /\ keyed \in Nat \union {NoHour} /\ HourOf <= hour
    /\ DOMAIN conn = Conn /\ DOMAIN received = Conn /\ DOMAIN buffer = Conn
    /\ \A c \in Conn : received[c] \in Nat /\ (conn[c] # "closed" => HeldBack(buffer[c], received[c]))
    /\ \A h \in DOMAIN hours : h \in Int
    /\ \A h \in Int : h > HourOf - WEEK => \A m : m \in Recorded(hours, h, {}) <=> m \in HeardAt(h)

(* A heartbeat that has counted its hour has a record to put the windows in.    *)
HasRecord == beatPc # "hour" => {"day", "week"} \subseteq DOMAIN beat

LEMMA CounterStarts ==
    ASSUME CounterAssumption, CounterInit
    PROVE  CounterInv /\ HasRecord
<1>1. /\ hour = 0 /\ hours = <<>> /\ arrived = {} /\ keyed = NoHour
      /\ received = [c \in Conn |-> 0] /\ buffer = [c \in Conn |-> <<>>]
      /\ conn = [c \in Conn |-> "new"]
  BY DEF CounterInit
<1>2. HeldBack(<<>>, 0)
  <2>1. 0 = 3 * 0 + 0 /\ <<>> = [i \in 1..0 |-> 3 * 0 + i] /\ Len(<<>>) = 0
    OBVIOUS
  <2> QED BY <2>1 DEF HeldBack
<1>3. \A h, m : m \notin Recorded(hours, h, {}) /\ m \notin HeardAt(h)
  BY <1>1 DEF Recorded, HeardAt
<1>4. DOMAIN hours = {} /\ HourOf = 0
  BY <1>1 DEF HourOf
<1>5. HasRecord
  BY DEF CounterInit, HasRecord
<1> QED BY <1>1, <1>2, <1>3, <1>4, <1>5 DEF CounterInv

(* Time that passes only narrows what the windows may look at.                  *)
LEMMA HeardStays ==
    ASSUME CounterInv, arrived' = arrived, hours' = hours, hour' \in Nat, keyed' \in Nat \union {NoHour},
           HourOf <= HourOf', HourOf' <= hour',
           DOMAIN conn' = Conn, DOMAIN received' = Conn, DOMAIN buffer' = Conn,
           \A c \in Conn : /\ received'[c] \in Nat
                           /\ conn'[c] # "closed" => HeldBack(buffer'[c], received'[c])
    PROVE  CounterInv'
<1>1. \A h \in Int : h > HourOf' - WEEK => \A m : m \in Recorded(hours', h, {}) <=> m \in HeardAt(h)'
  <2>1. \A h : Recorded(hours', h, {}) = Recorded(hours, h, {}) /\ HeardAt(h)' = HeardAt(h)
    BY DEF HeardAt
  <2>2. ASSUME NEW h \in Int, h > HourOf' - WEEK PROVE h > HourOf - WEEK
    <3>1. HourOf \in Nat /\ HourOf' \in Nat /\ WEEK \in Nat
      BY CounterAssumption DEF CounterInv, CounterAssumption, HourOf
    <3>2. \A a, b, w \in Nat, x \in Int : a <= b /\ x > b - w => x > a - w
      OBVIOUS
    <3> QED BY <2>2, <3>1, <3>2, Zenon
  <2> QED BY <2>1, <2>2 DEF CounterInv
<1> QED BY <1>1 DEF CounterInv

LEMMA ReceiveMoves ==
    ASSUME CounterInv, NEW c \in Conn, Receive(c)
    PROVE  \E S : /\ arrived' = arrived \union {<<hour, m>> : m \in S}
                  /\ hours' = IF S = {} THEN hours ELSE Noted(hours, hour, Recorded(hours, hour, {}) \union S)
                  /\ UNCHANGED <<hour, conn, record>>
                  /\ DOMAIN received' = Conn /\ DOMAIN buffer' = Conn
                  /\ \A d \in Conn : d # c => received'[d] = received[d] /\ buffer'[d] = buffer[d]
                  /\ received'[c] \in Nat /\ HeldBack(buffer'[c], received'[c])
<1> DEFINE r == received[c]
           joined(n) == buffer[c] \o [i \in 1..n |-> r + i]
           lines(n) == {l \in LinesOf(joined(n)) : l # <<>>}
           sayings(n) == SaidWhole(c, r, r + n)
<1>1. PICK n \in 1..MaxRead :
         /\ Tally(c, lines(n)) /\ buffer' = [buffer EXCEPT ![c] = TailOf(joined(n))]
         /\ received' = [received EXCEPT ![c] = @ + n]
         /\ arrived' = arrived \union {<<hour, s.mmsi>> : s \in sayings(n)}
  BY DEF Receive
<1>2. UNCHANGED <<hour, conn, record>> /\ conn[c] = "open"
  BY DEF Receive
<1>3. n \in Nat /\ r \in Nat /\ HeldBack(buffer[c], r)
  BY <1>2, CounterAssumption DEF CounterInv, CounterAssumption
<1> DEFINE S == Named(c, lines(n))
<1>4. hours' = IF S = {} THEN hours ELSE Noted(hours, hour, Recorded(hours, hour, {}) \union S)
  BY <1>1 DEF Tally, Named
<1>5. /\ \A m : m \in S <=> \E s \in sayings(n) : m = s.mmsi
      /\ HeldBack(TailOf(joined(n)), r + n)
  <2> DEFINE b == buffer[c]
  <2>1. HeldBack(b, r) /\ r \in Nat /\ n \in Nat
    BY <1>3
  <2>2. PICK k : k = Joined(b, r, n)
    OBVIOUS
  <2>3. k = joined(n)
    BY <2>2 DEF Joined
  <2> HIDE DEF b, r
  <2>4. /\ \A m : m \in Named(c, Texts(k)) <=> \E s \in SaidWhole(c, r, r + n) : m = s.mmsi
        /\ HeldBack(TailOf(k), r + n)
    BY <2>1, <2>2, LinesNameWhatWasSaid
  <2> QED BY <2>3, <2>4, Zenon DEF Texts
<1> HIDE DEF S, sayings, lines
<1>8. arrived' = arrived \union {<<hour, m>> : m \in S}
  BY <1>1, <1>5
<1> HIDE DEF joined
<1>9. /\ DOMAIN received' = Conn /\ DOMAIN buffer' = Conn
      /\ \A d \in Conn : d # c => received'[d] = received[d] /\ buffer'[d] = buffer[d]
      /\ received'[c] = r + n /\ buffer'[c] = TailOf(joined(n))
  BY <1>1 DEF CounterInv
<1>10. r + n \in Nat
  BY <1>3
<1> QED BY <1>2, <1>4, <1>5, <1>8, <1>9, <1>10

LEMMA ReceiveStep ==
    ASSUME CounterInv, NEW c \in Conn, Receive(c)
    PROVE  CounterInv'
<1>1. PICK S : /\ arrived' = arrived \union {<<hour, m>> : m \in S}
               /\ hours' = IF S = {} THEN hours ELSE Noted(hours, hour, Recorded(hours, hour, {}) \union S)
               /\ UNCHANGED <<hour, conn, record>>
               /\ DOMAIN received' = Conn /\ DOMAIN buffer' = Conn
               /\ \A d \in Conn : d # c => received'[d] = received[d] /\ buffer'[d] = buffer[d]
               /\ received'[c] \in Nat /\ HeldBack(buffer'[c], received'[c])
  BY ReceiveMoves
<1>2. \A h : Recorded(hours', h, {}) = IF h = hour THEN Recorded(hours, h, {}) \union S
                                       ELSE Recorded(hours, h, {})
  <2>1. CASE S = {}
    BY <1>1, <2>1
  <2>2. CASE S # {}
    <3>1. DOMAIN hours' = DOMAIN hours \union {hour}
      BY <1>1, <2>2 DEF Noted
    <3>2. \A x \in DOMAIN hours' : hours'[x] = IF x = hour THEN Recorded(hours, hour, {}) \union S ELSE hours[x]
      BY <1>1, <2>2 DEF Noted
    <3> QED BY <3>1, <3>2 DEF Recorded
  <2> QED BY <2>1, <2>2
<1>3. \A h : HeardAt(h)' = IF h = hour THEN HeardAt(h) \union S ELSE HeardAt(h)
  <2> SUFFICES ASSUME NEW h, NEW m
               PROVE  m \in HeardAt(h)' <=> m \in HeardAt(h) \/ (h = hour /\ m \in S)
    OBVIOUS
  <2>1. m \in HeardAt(h)' <=> \E p \in arrived' : p[1] = h /\ p[2] = m
    BY DEF HeardAt
  <2>2. m \in HeardAt(h) <=> \E p \in arrived : p[1] = h /\ p[2] = m
    BY DEF HeardAt
  <2>3. \A p : p \in arrived' <=> p \in arrived \/ \E x \in S : p = <<hour, x>>
    BY <1>1
  <2>4. \A x : <<hour, x>>[1] = hour /\ <<hour, x>>[2] = x
    OBVIOUS
  <2>5. ASSUME m \in HeardAt(h)' PROVE m \in HeardAt(h) \/ (h = hour /\ m \in S)
    BY <2>1, <2>2, <2>3, <2>4, <2>5
  <2>6. ASSUME h = hour, m \in S PROVE m \in HeardAt(h)'
    <3>1. <<hour, m>> \in arrived'
      BY <2>3, <2>6
    <3> QED BY <2>1, <2>4, <2>6, <3>1
  <2>7. ASSUME m \in HeardAt(h) PROVE m \in HeardAt(h)'
    BY <2>1, <2>2, <2>3, <2>7
  <2> QED BY <2>5, <2>6, <2>7
<1>4. DOMAIN hours' \subseteq DOMAIN hours \union {hour}
  BY <1>1 DEF Noted
<1>5. hour' = hour /\ keyed' = keyed /\ HourOf' = HourOf /\ hour \in Nat
  BY <1>1 DEF CounterInv, record, HourOf
<1>6. \A d \in Conn : received'[d] \in Nat /\ (conn'[d] # "closed" => HeldBack(buffer'[d], received'[d]))
  BY <1>1 DEF CounterInv
<1>7. \A h \in Int : h > HourOf' - WEEK => \A m : m \in Recorded(hours', h, {}) <=> m \in HeardAt(h)'
  BY <1>2, <1>3, <1>5 DEF CounterInv
<1>8. \A h \in DOMAIN hours' : h \in Int
  BY <1>4, <1>5 DEF CounterInv
<1> QED BY <1>1, <1>5, <1>6, <1>7, <1>8 DEF CounterInv

(* What a window finds in the hours it keeps is what was heard in it.           *)
LEMMA WindowHolds ==
    ASSUME CounterAssumption, CounterInv, keyed # NoHour, NEW n \in 1..WEEK
    PROVE  UNION {hours[h] : h \in Window(n)} = HeardIn(n, keyed)
<1>1. keyed \in Nat /\ WEEK \in Nat /\ n \in Nat /\ n <= WEEK /\ HourOf = keyed
  BY DEF CounterInv, CounterAssumption, HourOf
<1>2. ASSUME NEW h \in Int, InWindow(h, n, keyed)
      PROVE  \A m : m \in Recorded(hours, h, {}) <=> m \in HeardAt(h)
  <2>1. h > HourOf - WEEK
    BY <1>1, <1>2 DEF InWindow
  <2> QED BY <2>1 DEF CounterInv
<1>3. \A h : h \in (keyed - n + 1)..keyed <=> h \in Int /\ InWindow(h, n, keyed)
  BY <1>1 DEF InWindow
<1>4. ASSUME NEW m, m \in HeardIn(n, keyed)
      PROVE  \E h \in Window(n) : m \in hours[h]
  <2>1. PICK p \in arrived : p[1] \in (keyed - n + 1)..keyed /\ m = p[2]
    BY <1>4 DEF HeardIn
  <2>2. p[1] \in Int /\ InWindow(p[1], n, keyed) /\ m \in HeardAt(p[1])
    BY <1>3, <2>1 DEF HeardAt
  <2>3. m \in Recorded(hours, p[1], {})
    BY <1>2, <2>2
  <2> QED BY <2>2, <2>3 DEF Recorded, Window
<1>5. ASSUME NEW m, NEW h \in Window(n), m \in hours[h]
      PROVE  m \in HeardIn(n, keyed)
  <2>1. h \in DOMAIN hours /\ h \in Int /\ InWindow(h, n, keyed)
    BY <1>5 DEF Window, CounterInv
  <2>2. m \in HeardAt(h)
    BY <1>2, <1>5, <2>1 DEF Recorded
  <2>3. h \in (keyed - n + 1)..keyed
    BY <1>3, <2>1
  <2> QED BY <2>2, <2>3 DEF HeardAt, HeardIn
<1> QED BY <1>4, <1>5

LEMMA HourHolds ==
    ASSUME CounterAssumption, CounterInv, keyed # NoHour
    PROVE  Recorded(hours, keyed, {}) = HeardIn(1, keyed)
<1>1. keyed \in Nat /\ WEEK \in Nat /\ WEEK >= 1 /\ HourOf = keyed
  BY DEF CounterInv, CounterAssumption, HourOf
<1>2. keyed > HourOf - WEEK /\ keyed \in Int
  BY <1>1
<1>3. \A m : m \in Recorded(hours, keyed, {}) <=> m \in HeardAt(keyed)
  BY <1>2 DEF CounterInv
<1>4. \A h : h \in (keyed - 1 + 1)..keyed <=> h = keyed
  BY <1>1
<1>5. HeardAt(keyed) = HeardIn(1, keyed)
  BY <1>4 DEF HeardAt, HeardIn
<1> QED BY <1>3, <1>5

(* A heartbeat's step that leaves the hours alone gives its hour back.          *)
LEMMA StepStays ==
    ASSUME CounterInv, NEW from, NEW to, Step(from, to), UNCHANGED <<hour, hours, arrived, wire>>
    PROVE  CounterInv'
<1>1. keyed' = NoHour /\ keyed # NoHour
  BY DEF Step
<1>2. HourOf = keyed /\ HourOf' = hour /\ keyed <= hour
  BY <1>1 DEF HourOf, CounterInv
<1>3. hour' = hour /\ hour \in Nat /\ hour <= hour
  BY DEF CounterInv
<1> QED BY <1>1, <1>2, <1>3, HeardStays DEF CounterInv, wire

LEMMA PruneStep ==
    ASSUME CounterAssumption, CounterInv, Prune
    PROVE  CounterInv'
<1>1. /\ keyed # NoHour /\ keyed' = NoHour /\ UNCHANGED <<hour, wire, arrived>>
      /\ hours' = [h \in {h \in DOMAIN hours : Kept(h)} |-> hours[h]]
  BY DEF Prune, Step
<1>2. DOMAIN hours' = {h \in DOMAIN hours : Kept(h)} /\ \A h \in DOMAIN hours' : hours'[h] = hours[h]
  BY <1>1
<1>3. /\ HourOf = keyed /\ HourOf' = hour /\ keyed <= hour
      /\ hour \in Nat /\ keyed \in Nat /\ WEEK \in Nat /\ RETAIN_HOURS \in Nat /\ WEEK <= RETAIN_HOURS
  BY <1>1 DEF HourOf, CounterInv, CounterAssumption
<1>4. ASSUME NEW h \in Int, h > hour - WEEK
      PROVE  Recorded(hours', h, {}) = Recorded(hours, h, {}) /\ h > HourOf - WEEK
  <2>1. Kept(h) /\ h > HourOf - WEEK
    BY <1>3, <1>4 DEF Kept
  <2> QED BY <1>2, <2>1 DEF Recorded
<1>5. \A h : HeardAt(h)' = HeardAt(h)
  BY <1>1 DEF HeardAt
<1>6. \A h \in Int : h > HourOf' - WEEK => \A m : m \in Recorded(hours', h, {}) <=> m \in HeardAt(h)'
  BY <1>3, <1>4, <1>5 DEF CounterInv
<1>7. hour' = hour /\ received' = received /\ buffer' = buffer /\ conn' = conn /\ HourOf' <= hour'
  BY <1>1, <1>3 DEF wire
<1> QED BY <1>1, <1>2, <1>3, <1>6, <1>7 DEF CounterInv

LEMMA CounterStep ==
    ASSUME CounterAssumption, CounterInv, [CounterNext]_counterVars
    PROVE  CounterInv'
<1>0. HourOf \in Nat /\ HourOf <= HourOf
  BY DEF HourOf, CounterInv
<1>1. ASSUME UNCHANGED <<hour, hours, arrived, record, wire>> PROVE CounterInv'
  <2>1. HourOf' = HourOf /\ keyed' = keyed /\ hour' = hour
    BY <1>1 DEF HourOf, record
  <2> QED BY <1>0, <1>1, <2>1, HeardStays DEF CounterInv, wire
<1>2. ASSUME NEW c \in Conn, Connect(c) PROVE CounterInv'
  <2>1. UNCHANGED <<hour, hours, arrived, keyed, received, buffer>>
    BY <1>2 DEF Connect, tallies, record
  <2>2. DOMAIN conn' = Conn /\ \A d \in Conn : conn'[d] # "closed" => conn[d] # "closed"
    BY <1>2 DEF Connect, CounterInv
  <2>3. HourOf' = HourOf
    BY <2>1 DEF HourOf
  <2> QED BY <1>0, <2>1, <2>2, <2>3, HeardStays DEF CounterInv
<1>3. ASSUME NEW c \in Conn, Receive(c) PROVE CounterInv'
  BY <1>3, ReceiveStep
<1>4. ASSUME NEW c \in Conn, Disconnect(c) PROVE CounterInv'
  <2>1. UNCHANGED <<hour, hours, arrived, keyed, received>>
    BY <1>4 DEF Disconnect, tallies, record
  <2>2. /\ DOMAIN conn' = Conn /\ DOMAIN buffer' = Conn /\ conn'[c] = "closed"
        /\ \A d \in Conn : d # c => conn'[d] = conn[d] /\ buffer'[d] = buffer[d]
    BY <1>4 DEF Disconnect, CounterInv
  <2>3. HourOf' = HourOf
    BY <2>1 DEF HourOf
  <2> QED BY <1>0, <2>1, <2>2, <2>3, HeardStays DEF CounterInv
<1>5. ASSUME NEW page, Poll(page) PROVE CounterInv'
  BY <1>1, <1>5 DEF Poll, tallies
<1>6. ASSUME CountHour \/ RollDay \/ RollWeek PROVE CounterInv'
  <2>1. UNCHANGED <<hour, hours, arrived, wire>>
    BY <1>6 DEF CountHour, RollDay, RollWeek, tallies
  <2>2. \E from, to : Step(from, to)
    BY <1>6 DEF CountHour, RollDay, RollWeek
  <2> QED BY <2>1, <2>2, StepStays
<1>7. ASSUME HeartbeatTakesHour PROVE CounterInv'
  <2>1. keyed = NoHour /\ keyed' = hour /\ UNCHANGED <<hour, hours, arrived, wire>>
    BY <1>7 DEF HeartbeatTakesHour, tallies
  <2>2. HourOf = hour /\ HourOf' = hour /\ hour \in Nat /\ hour <= hour
    BY <2>1 DEF HourOf, CounterInv, NoHour
  <2> QED BY <2>1, <2>2, HeardStays DEF CounterInv, wire
<1>8. ASSUME Prune PROVE CounterInv'
  BY <1>8, PruneStep
<1>9. ASSUME HourTurns PROVE CounterInv'
  <2>1. hour' = hour + 1 /\ keyed' = keyed /\ UNCHANGED <<hours, arrived, wire>>
    BY <1>9 DEF HourTurns, tallies, record
  <2>2. hour \in Nat /\ keyed \in Nat \union {NoHour} /\ HourOf <= hour /\ HourOf \in Nat
    BY <1>0 DEF CounterInv
  <2>3. HourOf = (IF keyed = NoHour THEN hour ELSE keyed) /\ HourOf' = IF keyed = NoHour THEN hour + 1 ELSE keyed
    BY <2>1 DEF HourOf
  <2>4. hour' \in Nat /\ HourOf <= HourOf' /\ HourOf' <= hour'
    BY <2>1, <2>2, <2>3
  <2> QED BY <2>1, <2>4, HeardStays DEF CounterInv, wire
<1>10. ASSUME UNCHANGED counterVars PROVE CounterInv'
  BY <1>1, <1>10 DEF counterVars, tallies
<1> QED
  BY <1>2, <1>3, <1>4, <1>5, <1>6, <1>7, <1>8, <1>9, <1>10 DEF CounterNext

LEMMA HasRecordStays ==
    ASSUME HasRecord, [CounterNext]_counterVars
    PROVE  HasRecord'
<1>1. ASSUME UNCHANGED <<beatPc, beat>> PROVE HasRecord'
  BY <1>1 DEF HasRecord
<1>2. ASSUME CountHour PROVE HasRecord'
  BY <1>2 DEF CountHour, HasRecord
<1>3. ASSUME RollDay \/ RollWeek PROVE HasRecord'
  BY <1>3 DEF RollDay, RollWeek, Step, HasRecord
<1>4. ASSUME Prune PROVE HasRecord'
  BY <1>4 DEF Prune, Step, HasRecord
<1>5. ASSUME \/ \E c \in Conn : Connect(c) \/ Receive(c) \/ Disconnect(c)
             \/ \E page \in Page : Poll(page)
             \/ HeartbeatTakesHour \/ HourTurns
      PROVE  HasRecord'
  BY <1>1, <1>5 DEF Connect, Receive, Disconnect, Poll, HeartbeatTakesHour, HourTurns, record
<1>6. ASSUME UNCHANGED counterVars PROVE HasRecord'
  BY <1>1, <1>6 DEF counterVars, record
<1> QED BY <1>2, <1>3, <1>4, <1>5, <1>6 DEF CounterNext

(* The three counts of a record are set by their own steps only.                *)
LEMMA RollsRight ==
    ASSUME CounterAssumption, CounterInv, HasRecord, CounterNext
    PROVE  /\ Rolls("hour", 1, beat'.vessels)
           /\ Rolls("day", DAY, beat'.day)
           /\ Rolls("week", WEEK, beat'.week)
<1> DEFINE G == /\ Rolls("hour", 1, beat'.vessels)
                /\ Rolls("day", DAY, beat'.day)
                /\ Rolls("week", WEEK, beat'.week)
<1>0. DAY \in 1..WEEK /\ WEEK \in 1..WEEK
  BY DEF CounterAssumption
<1>1. ASSUME UNCHANGED beatPc PROVE G
  BY <1>1 DEF Rolls
<1>2. ASSUME CountHour PROVE G
  <2>1. /\ beatPc = "hour" /\ keyed # NoHour
        /\ beat' = [hour |-> keyed, dayAt |-> keyed, weekAt |-> keyed,
                    connected |-> \E c \in Conn : conn[c] = "open",
                    vessels |-> Cardinality(Recorded(hours, keyed, {})),
                    messages |-> Recorded(messages, keyed, 0), day |-> 0, week |-> 0]
    BY <1>2 DEF CountHour, Step
  <2>2. beat'.vessels = Cardinality(Recorded(hours, keyed, {}))
    BY <2>1
  <2> QED BY <2>1, <2>2, HourHolds DEF Rolls
<1>3. ASSUME RollDay PROVE G
  <2>1. /\ beatPc = "day" /\ keyed # NoHour /\ beat' = [beat EXCEPT !.dayAt = keyed, !.day = RollingDistinct(DAY)]
    BY <1>3 DEF RollDay, Step
  <2> QED BY <1>0, <2>1, WindowHolds DEF Rolls, RollingDistinct, HasRecord
<1>4. ASSUME RollWeek PROVE G
  <2>1. /\ beatPc = "week" /\ keyed # NoHour /\ beat' = [beat EXCEPT !.weekAt = keyed, !.week = RollingDistinct(WEEK)]
    BY <1>4 DEF RollWeek, Step
  <2> QED BY <1>0, <2>1, WindowHolds DEF Rolls, RollingDistinct, HasRecord
<1>5. ASSUME Prune PROVE G
  BY <1>5 DEF Prune, Step, Rolls
<1>6. ASSUME \/ \E c \in Conn : Connect(c) \/ Receive(c) \/ Disconnect(c)
             \/ \E page \in Page : Poll(page)
             \/ HeartbeatTakesHour \/ HourTurns
      PROVE  G
  BY <1>1, <1>6 DEF Connect, Receive, Disconnect, Poll, HeartbeatTakesHour, HourTurns, record
<1> QED BY <1>2, <1>3, <1>4, <1>5, <1>6 DEF CounterNext

(* The hour and the rolling windows count exactly the stations whose sentences had       *)
(* arrived whole in them, wherever the reads end and the hour turns, and no prune        *)
(* reaches into them.                                                             *)
THEOREM WindowsAreExact == CounterSpec => RollingExact
<1>1. CounterInit => CounterInv /\ HasRecord
  BY CounterStarts, CounterAssumption
<1>2. CounterInv /\ [CounterNext]_counterVars => CounterInv'
  BY CounterStep, CounterAssumption
<1>4. HasRecord /\ [CounterNext]_counterVars => HasRecord'
  BY HasRecordStays
<1> DEFINE G == /\ Rolls("hour", 1, beat'.vessels)
                /\ Rolls("day", DAY, beat'.day)
                /\ Rolls("week", WEEK, beat'.week)
<1>3. CounterInv /\ HasRecord /\ [CounterNext]_counterVars => [G]_counterVars
  BY RollsRight, CounterAssumption
<1> QED BY <1>1, <1>2, <1>3, <1>4, PTL DEF CounterSpec, RollingExact
=============================================================================
