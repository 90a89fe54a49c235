------------------------ MODULE ReaderManagerProofs ------------------------
(* Theorems about ReaderManager, for any readers, slots and bounds.        *)
EXTENDS ReaderManager, FunctionTheorems, FiniteSetTheorems, TLAPS

-----------------------------------------------------------------------------
(* What pcscd lists.                                                       *)

LEMMA FirstPlaces ==
    ASSUME NEW n \in Nat
    PROVE  IsFiniteSet(0..(n - 1)) /\ Cardinality(0..(n - 1)) = n
BY FS_Interval

LEMMA SlotsFinite ==
    /\ NumSlots \in Nat /\ IsFiniteSet(Slots) /\ Cardinality(Slots) = NumSlots
    /\ \A S \in SUBSET Slots : IsFiniteSet(S) /\ Cardinality(S) \in 0..NumSlots
<1>1. NumSlots \in Nat /\ NumSlots > 0
  BY SettingAssumption
<1>2. IsFiniteSet(0..(NumSlots - 1)) /\ Cardinality(0..(NumSlots - 1)) = NumSlots
  BY <1>1, FirstPlaces
<1>3. \A S \in SUBSET Slots : IsFiniteSet(S) /\ Cardinality(S) \in 0..NumSlots
  <2> SUFFICES ASSUME NEW S \in SUBSET Slots
               PROVE  IsFiniteSet(S) /\ Cardinality(S) \in 0..NumSlots
    OBVIOUS
  <2>1. IsFiniteSet(S) /\ Cardinality(S) <= NumSlots
    BY <1>2, FS_Subset DEF Slots
  <2>2. Cardinality(S) \in Nat
    BY <2>1, FS_CardinalityType
  <2> QED
    BY <1>1, <2>1, <2>2
<1> QED
  BY <1>1, <1>2, <1>3 DEF Slots

\* The readers are counted by their places, and each place of the list has one.
LEMMA ListingTyped ==
    ASSUME ports \in [Slots -> Readers \union {NULL}]
    PROVE  /\ Cardinality(Occupied) \in 0..NumSlots
           /\ Cardinality(Occupied) = 0 <=> Occupied = {}
           /\ \A i \in 0..(Cardinality(Occupied) - 1) : Listing[i] \in Readers
<1> DEFINE n == Cardinality(Occupied)
           f == [p \in Occupied |-> Cardinality(Before(p))]
<1>1. /\ Occupied \subseteq Slots /\ IsFiniteSet(Occupied) /\ n \in 0..NumSlots
      /\ n = 0 <=> Occupied = {}
  BY SlotsFinite, FS_EmptySet DEF Occupied
<1>2. \A p \in Occupied : /\ Before(p) \subseteq Occupied /\ p \notin Before(p)
                          /\ IsFiniteSet(Before(p)) /\ Cardinality(Before(p)) \in Nat
  BY <1>1, SlotsFinite, FS_Subset, FS_CardinalityType DEF Before, Slots
<1>3. \A p \in Occupied : Cardinality(Before(p)) < n
  <2> TAKE p \in Occupied
  <2>1. Before(p) \union {p} \subseteq Occupied
    BY <1>2
  <2>2. Cardinality(Before(p) \union {p}) = Cardinality(Before(p)) + 1
    BY <1>2, FS_AddElement
  <2>3. Cardinality(Before(p) \union {p}) <= n
    BY <1>1, <2>1, FS_Subset
  <2> QED
    BY <1>1, <1>2, <2>2, <2>3
<1>4. \A p, q \in Occupied : p < q => Cardinality(Before(p)) < Cardinality(Before(q))
  <2> SUFFICES ASSUME NEW p \in Occupied, NEW q \in Occupied, p < q
               PROVE  Cardinality(Before(p)) < Cardinality(Before(q))
    OBVIOUS
  <2>1. Before(p) \union {p} \subseteq Before(q)
    <3>1. \A r \in Occupied : r \in Int
      BY <1>1, SlotsFinite DEF Slots
    <3>2. \A r \in Before(p) : r \in Occupied /\ r < q
      BY <3>1 DEF Before
    <3> QED
      BY <3>2 DEF Before
  <2>2. Cardinality(Before(p) \union {p}) = Cardinality(Before(p)) + 1
    BY <1>2, FS_AddElement
  <2>3. Cardinality(Before(p) \union {p}) <= Cardinality(Before(q))
    BY <1>2, <2>1, FS_Subset
  <2> QED
    BY <1>2, <2>2, <2>3
<1>5. f \in Injection(Occupied, 0..(n - 1))
  <2>1. f \in [Occupied -> 0..(n - 1)]
    BY <1>1, <1>2, <1>3
  <2>2. \A p, q \in Occupied : f[p] = f[q] => p = q
    <3> SUFFICES ASSUME NEW p \in Occupied, NEW q \in Occupied, f[p] = f[q]
                 PROVE  p = q
      OBVIOUS
    <3>1. p \in Int /\ q \in Int /\ f[p] = Cardinality(Before(p)) /\ f[q] = Cardinality(Before(q))
      BY <1>1, SlotsFinite DEF Slots
    <3> QED
      BY <1>2, <1>4, <3>1
  <2> QED
    BY <2>1, <2>2, Fun_IsInj
<1>6. f \in Surjection(Occupied, 0..(n - 1))
  <2>1. IsFiniteSet(0..(n - 1)) /\ Cardinality(0..(n - 1)) = n
    <3>1. n \in Nat
      BY <1>1, SlotsFinite
    <3> QED
      BY <3>1, FirstPlaces
  <2> QED
    BY <1>5, <2>1, FS_Injection
<1>7. \A i \in 0..(n - 1) : \E p \in Occupied : Cardinality(Before(p)) = i
  BY <1>6 DEF Surjection
<1>8. \A i \in 0..(n - 1) : Listing[i] \in Readers
  <2> TAKE i \in 0..(n - 1)
  <2> DEFINE p == CHOOSE p \in Occupied : Cardinality(Before(p)) = i
  <2>1. p \in Occupied
    BY <1>7
  <2>2. Listing[i] = ports[p]
    BY DEF Listing
  <2> QED
    BY <2>1, <2>2 DEF Occupied
<1> QED
  BY <1>1, <1>8

\* Without a gap, the reader at a place of the list is the one at that place.
LEMMA ListingByPlace ==
    ASSUME ports \in [Slots -> Readers \union {NULL}], NoGap,
           NEW i \in 0..(Cardinality(Occupied) - 1)
    PROVE  Listing[i] = ports[i]
<1> DEFINE n == Cardinality(Occupied)
<1>1. n \in 0..NumSlots /\ Occupied \subseteq Slots /\ NumSlots \in Nat
  BY ListingTyped, SlotsFinite DEF Occupied
<1>2. \A p \in Occupied : Before(p) = 0..(p - 1) /\ Cardinality(Before(p)) = p
  <2> TAKE p \in Occupied
  <2>1. p \in Nat /\ \A q \in 0..(p - 1) : q \in Slots
    BY <1>1 DEF Slots
  <2>2. Before(p) = 0..(p - 1)
    BY <1>1, <2>1 DEF Before, Occupied, NoGap, Slots
  <2> QED
    BY <2>1, <2>2, FS_Interval
<1>3. \E p \in Occupied : Cardinality(Before(p)) = i
  <2>1. ~(i \in Occupied) => Occupied \subseteq 0..(i - 1)
    BY <1>1 DEF Occupied, NoGap, Slots
  <2>2. Occupied \subseteq 0..(i - 1) => n <= i
    <3> SUFFICES ASSUME Occupied \subseteq 0..(i - 1)
                 PROVE  n <= i
      OBVIOUS
    <3>1. i \in Nat
      BY <1>1
    <3>2. IsFiniteSet(0..(i - 1)) /\ Cardinality(0..(i - 1)) = i
      BY <3>1, FirstPlaces
    <3> QED
      BY <3>2, FS_Subset
  <2> QED
    BY <1>1, <1>2, <2>1, <2>2
<1>4. (CHOOSE p \in Occupied : Cardinality(Before(p)) = i) = i
  BY <1>2, <1>3
<1> QED
  BY <1>4 DEF Listing

-----------------------------------------------------------------------------
(* What the library calls make of a table.                                 *)

LEMMA ResetTable ==
    ASSUME NEW l \in Lib, NEW I
    PROVE  LET t == Reset(l, I)
           IN  /\ t \in Lib /\ t.nb = l.nb
               /\ \A i \in Slots :
                     IF i \in I
                     THEN t.name[i] = NULL /\ t.card[i] = NULL /\ ~t.driver[i] /\ t.tags[i] = 0
                     ELSE /\ t.name[i] = l.name[i] /\ t.card[i] = l.card[i]
                          /\ t.driver[i] = l.driver[i] /\ t.tags[i] = l.tags[i]
<1>1. NumSlots \in Nat /\ MaxTags \in Nat
  BY SettingAssumption
<1> DEFINE names == [i \in Slots |-> IF i \in I THEN NULL ELSE l.name[i]]
           cards == [i \in Slots |-> IF i \in I THEN NULL ELSE l.card[i]]
           drivers == [i \in Slots |-> IF i \in I THEN FALSE ELSE l.driver[i]]
           counts == [i \in Slots |-> IF i \in I THEN 0 ELSE l.tags[i]]
<1>2. Reset(l, I) = [l EXCEPT !.name = names, !.card = cards, !.driver = drivers, !.tags = counts]
  BY DEF Reset
<1>3. /\ names \in [Slots -> Readers \union {NULL, Freed}]
      /\ cards \in [Slots -> Readers \union {NULL, Stale}]
      /\ drivers \in [Slots -> BOOLEAN]
      /\ counts \in [Slots -> 0..MaxTags]
  <2>1. /\ l.name \in [Slots -> Readers \union {NULL, Freed}]
        /\ l.card \in [Slots -> Readers \union {NULL, Stale}]
        /\ l.driver \in [Slots -> BOOLEAN] /\ l.tags \in [Slots -> 0..MaxTags]
    BY DEF Lib
  <2>2. drivers \in [Slots -> BOOLEAN]
    BY <2>1, Zenon
  <2>3. names \in [Slots -> Readers \union {NULL, Freed}]
    BY <2>1
  <2>4. cards \in [Slots -> Readers \union {NULL, Stale}]
    BY <2>1
  <2>5. counts \in [Slots -> 0..MaxTags]
    BY <1>1, <2>1
  <2> QED
    BY <2>2, <2>3, <2>4, <2>5, Zenon
<1> HIDE DEF names, cards, drivers, counts
<1>4. /\ Reset(l, I) \in Lib /\ Reset(l, I).nb = l.nb
      /\ Reset(l, I).name = names /\ Reset(l, I).card = cards
      /\ Reset(l, I).driver = drivers /\ Reset(l, I).tags = counts
  BY <1>2, <1>3 DEF Lib
<1> QED
  BY <1>4 DEF names, cards, drivers, counts

LEMMA FreeNamesTable ==
    ASSUME NEW l \in Lib
    PROVE  LET t == FreeNames(l)
           IN  /\ t \in Lib /\ t.nb = l.nb
               /\ t.card = l.card /\ t.driver = l.driver /\ t.tags = l.tags
               /\ \A i \in Slots : t.name[i] = IF l.name[i] = NULL THEN NULL ELSE Freed
BY DEF FreeNames, Lib

\* The names are those of the list, or point to what was freed.
LEMMA FillTable ==
    ASSUME NEW l \in Lib, ports \in [Slots -> Readers \union {NULL}]
    PROVE  LET t == Fill(l)
               n == Cardinality(Occupied)
           IN  /\ t \in Lib /\ t.nb = n
               /\ \A i \in Slots :
                     /\ t.tags[i] \in {0, l.tags[i]}
                     /\ IF i < n
                        THEN t.name[i] = Listing[i] /\ t.card[i] = l.card[i]
                        ELSE \/ t.name[i] = NULL /\ t.card[i] = NULL
                             \/ /\ t.name[i] = IF l.name[i] = NULL THEN NULL ELSE Freed
                                /\ t.card[i] = l.card[i]
<1> DEFINE n == Cardinality(Occupied)
           f == FreeNames(l)
           k == Reset(f, {i \in Slots : n <= i /\ i < l.nb})
           names == [i \in Slots |-> IF i < n THEN Listing[i] ELSE k.name[i]]
<1>1. n \in 0..NumSlots /\ \A i \in 0..(n - 1) : Listing[i] \in Readers
  BY ListingTyped
<1>2. /\ f \in Lib /\ f.nb = l.nb /\ f.card = l.card /\ f.driver = l.driver /\ f.tags = l.tags
      /\ \A i \in Slots : f.name[i] = IF l.name[i] = NULL THEN NULL ELSE Freed
  BY FreeNamesTable
<1>3. /\ k \in Lib
      /\ \A i \in Slots :
            IF n <= i /\ i < l.nb
            THEN k.name[i] = NULL /\ k.card[i] = NULL /\ k.tags[i] = 0
            ELSE k.name[i] = f.name[i] /\ k.card[i] = f.card[i] /\ k.tags[i] = f.tags[i]
  BY <1>2, ResetTable
<1>4. Fill(l) = [k EXCEPT !.nb = n, !.name = names]
  BY DEF Fill
<1> HIDE DEF f, k, n
<1>5. \A i \in Slots : i < n => i \in 0..(n - 1)
  BY <1>1, SlotsFinite DEF Slots
<1>6. names \in [Slots -> Readers \union {NULL, Freed}]
  BY <1>1, <1>3, <1>5 DEF Lib
<1>7. /\ Fill(l) \in Lib /\ Fill(l).nb = n /\ Fill(l).name = names
      /\ Fill(l).card = k.card /\ Fill(l).tags = k.tags
  BY <1>1, <1>3, <1>4, <1>6 DEF Lib
<1> QED
  BY <1>1, <1>2, <1>3, <1>7 DEF n, Slots, Lib

Results == [rv : {"ok", "fail"}, lib : Lib, faults : Nat]

\* Every slot is named after the reader at its place, and so is its handle.
Matches(l) ==
    \A i \in Slots : /\ l.name[i] \in {NULL, Freed, ports[i]}
                     /\ l.card[i] \in {NULL, Stale, ports[i]}
                     /\ l.card[i] # NULL => l.name[i] # NULL

\* The tables an enumeration replaces.
Enumerates == setting.auto /\ ctx = "live"

\* What a call may make of a table: tags are only forgotten, and names only
\* change to others if the readers are enumerated.
Leads(l, t) ==
    /\ t \in Lib
    /\ \A i \in Slots : t.tags[i] \in {0, l.tags[i]}
    /\ NoGap /\ Matches(l) => Matches(t)
    /\ ~Enumerates => t.nb = l.nb /\ \A i \in Slots : t.name[i] \in {NULL, l.name[i]}

LEMMA LeadsOn ==
    ASSUME NEW l, NEW t, NEW u, Leads(l, t), Leads(t, u)
    PROVE  Leads(l, u)
BY DEF Leads

LEMMA LeadsReset ==
    ASSUME NEW l \in Lib, NEW I
    PROVE  Leads(l, Reset(l, I))
<1> DEFINE t == Reset(l, I)
<1>1. /\ t \in Lib /\ t.nb = l.nb
      /\ \A i \in Slots :
            IF i \in I
            THEN t.name[i] = NULL /\ t.card[i] = NULL /\ ~t.driver[i] /\ t.tags[i] = 0
            ELSE /\ t.name[i] = l.name[i] /\ t.card[i] = l.card[i]
                 /\ t.driver[i] = l.driver[i] /\ t.tags[i] = l.tags[i]
  BY ResetTable
<1> HIDE DEF t
<1>2. Matches(l) => Matches(t)
  BY <1>1 DEF Matches
<1>3. Leads(l, t)
  BY <1>1, <1>2 DEF Leads
<1> QED
  BY <1>3 DEF t

LEMMA NamesDiffer ==
    {NULL, Stale, Freed} \intersect Readers = {} /\ NULL # Stale /\ NULL # Freed
<1>1. \A x, y : Cardinality({x, y}) # 3
  <2> TAKE x, y
  <2>1. IsFiniteSet({x}) /\ Cardinality({x}) = 1
    BY FS_Singleton
  <2>2. {x, y} = {x} \union {y}
    OBVIOUS
  <2> QED
    BY <2>1, <2>2, FS_AddElement
<1>2. NULL = Stale => {NULL, Stale, Freed} = {NULL, Freed}
  OBVIOUS
<1>3. NULL = Freed => {NULL, Stale, Freed} = {NULL, Stale}
  OBVIOUS
<1> QED
  BY <1>1, <1>2, <1>3, ReadersAssumption, Zenon

LEMMA MatchesFill ==
    ASSUME NEW l \in Lib, ports \in [Slots -> Readers \union {NULL}], NoGap, Matches(l)
    PROVE  Matches(Fill(l))
<1> DEFINE t == Fill(l)
           n == Cardinality(Occupied)
<1>1. \A i \in Slots :
         IF i < n
         THEN t.name[i] = Listing[i] /\ t.card[i] = l.card[i]
         ELSE \/ t.name[i] = NULL /\ t.card[i] = NULL
              \/ /\ t.name[i] = IF l.name[i] = NULL THEN NULL ELSE Freed
                 /\ t.card[i] = l.card[i]
  BY FillTable
<1>2. /\ n \in 0..NumSlots /\ NumSlots \in Nat
      /\ \A i \in 0..(n - 1) : Listing[i] \in Readers /\ Listing[i] = ports[i]
  BY ListingTyped, ListingByPlace, SlotsFinite
<1> HIDE DEF t, n
<1>3. \A i \in Slots : i < n => i \in 0..(n - 1)
  BY <1>2 DEF Slots
<1>4. Matches(t)
  BY <1>1, <1>2, <1>3, NamesDiffer DEF Matches
<1> QED
  BY <1>4 DEF t

LEMMA EnumerateLeads ==
    ASSUME NEW l \in Lib, ports \in [Slots -> Readers \union {NULL}],
           setting.auto, NEW e \in Enumerate(l)
    PROVE  /\ e \in Results /\ Leads(l, e.lib)
           /\ e.rv = "ok" => \A i \in Slots : i < e.lib.nb => e.lib.name[i] \in Readers
<1>1. Leads(l, l)
  BY DEF Leads
<1>2. CASE e = Result("fail", l, 0) \/ e = Result("fail", l, 1)
  BY <1>1, <1>2 DEF Result, Results
<1>3. FreeNames(l) \in Lib
  BY FreeNamesTable
<1>4. ASSUME ctx = "live" PROVE Leads(l, FreeNames(l))
  <2> DEFINE t == FreeNames(l)
  <2>1. /\ t \in Lib /\ t.card = l.card /\ t.tags = l.tags
        /\ \A i \in Slots : t.name[i] = IF l.name[i] = NULL THEN NULL ELSE Freed
    BY FreeNamesTable
  <2> HIDE DEF t
  <2>2. Leads(l, t)
    BY <1>4, <2>1, NamesDiffer DEF Leads, Matches, Enumerates
  <2> QED
    BY <2>2 DEF t
<1>5. CASE ctx = "live" /\ e = Result("fail", FreeNames(l), 1)
  BY <1>3, <1>4, <1>5 DEF Result, Results
<1>6. CASE ctx = "live" /\ e = Result("fail", [FreeNames(l) EXCEPT !.nb = 0], 0)
  <2> DEFINE t == FreeNames(l)
             u == [t EXCEPT !.nb = 0]
  <2>1. 0 \in 0..NumSlots
    BY SlotsFinite
  <2>2. t \in Lib
    BY <1>3
  <2> HIDE DEF t
  <2>3. u \in Lib /\ u.name = t.name /\ u.card = t.card /\ u.tags = t.tags
    BY <2>1, <2>2 DEF Lib
  <2> HIDE DEF u
  <2>4. Leads(l, t)
    BY <1>4, <1>6 DEF t
  <2>5. Leads(l, u)
    BY <1>6, <2>3, <2>4 DEF Leads, Matches, Enumerates
  <2> QED
    BY <1>6, <2>3, <2>5 DEF Result, Results, u, t
<1>7. CASE ctx = "live" /\ e = Result("ok", Fill(l), 0)
  <2> DEFINE t == Fill(l)
             n == Cardinality(Occupied)
  <2>1. /\ t \in Lib /\ t.nb = n
        /\ \A i \in Slots : t.tags[i] \in {0, l.tags[i]} /\ (i < n => t.name[i] = Listing[i])
    BY FillTable
  <2>2. /\ n \in 0..NumSlots /\ NumSlots \in Nat
        /\ \A i \in 0..(n - 1) : Listing[i] \in Readers
    BY ListingTyped, SlotsFinite
  <2>3. NoGap /\ Matches(l) => Matches(t)
    BY MatchesFill
  <2> HIDE DEF t, n
  <2>4. \A i \in Slots : i < n => i \in 0..(n - 1)
    BY <2>2 DEF Slots
  <2>5. Leads(l, t)
    BY <1>7, <2>1, <2>3 DEF Leads, Enumerates
  <2> QED
    BY <1>7, <2>1, <2>2, <2>4, <2>5 DEF Result, Results, t
<1> QED
  BY <1>2, <1>5, <1>6, <1>7 DEF Enumerate

LEMMA ConnectSlotsLeads ==
    ASSUME NEW l \in Lib, NEW flaky, DOMAIN flaky \in SUBSET Slots,
           \A i \in DOMAIN flaky : flaky[i] \in {"refused", "checkFails"}
    PROVE  LET c == ConnectSlots(l, flaky)
           IN  c \in Results /\ Leads(l, c.lib)
<1> DEFINE out(i) == Outcome(l, i, flaky)
           stop(i) == i \in Candidates(l) /\ out(i) \in {"checkFails", "unsupported"}
           tried == {i \in Candidates(l) : \A j \in Slots : j < i => ~stop(j)}
           opened == {i \in tried : out(i) \in {"ok", "unsupported"}}
           closed == Reset(l, tried \ opened)
           cards == [i \in Slots |-> IF i \in opened THEN l.name[i] ELSE closed.card[i]]
           drivers == [i \in Slots |-> IF i \in opened THEN out(i) = "ok" ELSE closed.driver[i]]
           t == [closed EXCEPT !.card = cards, !.driver = drivers]
           r == IF l.nb = 0 \/ \E i \in tried : stop(i) THEN "fail" ELSE "ok"
<1>1. ConnectSlots(l, flaky) = Result(r, t, Cardinality(DOMAIN flaky))
  BY Zenon DEF ConnectSlots
<1>2. Cardinality(DOMAIN flaky) \in Nat
  BY SlotsFinite
<1>3. /\ closed \in Lib /\ closed.nb = l.nb /\ Leads(l, closed)
      /\ \A i \in Slots : i \in opened => closed.name[i] = l.name[i]
  BY ResetTable, LeadsReset
<1>4. \A i \in opened : i \in Slots /\ l.name[i] \in Readers
  BY DEF Candidates, Outcome, Reachable
<1> HIDE DEF closed, opened
<1>5. cards \in [Slots -> Readers \union {NULL, Stale}]
  BY <1>3, <1>4 DEF Lib
<1>6. drivers \in [Slots -> BOOLEAN]
  <2>1. closed.driver \in [Slots -> BOOLEAN]
    BY <1>3 DEF Lib
  <2>2. \A i \in Slots : (out(i) = "ok") \in BOOLEAN
    OBVIOUS
  <2> QED
    BY <2>1, <2>2, Zenon
<1> HIDE DEF cards, drivers
<1>7. /\ t \in Lib /\ t.nb = closed.nb /\ t.name = closed.name /\ t.tags = closed.tags
      /\ t.card = cards
  BY <1>3, <1>5, <1>6 DEF Lib
<1> HIDE DEF t
<1>8. Matches(closed) => Matches(t)
  <2>1. \A i \in Slots : i \in opened => t.card[i] = t.name[i] /\ t.name[i] \in Readers
    BY <1>3, <1>4, <1>7 DEF cards
  <2>2. \A i \in Slots : i \notin opened => t.card[i] = closed.card[i]
    BY <1>7 DEF cards
  <2> QED
    BY <1>7, <2>1, <2>2, NamesDiffer DEF Matches
<1>9. Leads(closed, t)
  BY <1>3, <1>7, <1>8 DEF Leads, Lib
<1>10. Leads(l, t)
  BY <1>3, <1>9, LeadsOn
<1> QED
  BY <1>1, <1>2, <1>7, <1>10 DEF Result, Results

\* The context, the setting and pcscd's table have values of their type.
Typed == setting \in Settings /\ ports \in [Slots -> Readers \union {NULL}]

LEMMA ConnectLeads ==
    ASSUME NEW l \in Lib, Typed, NEW c \in Connect(l)
    PROVE  c \in Results /\ Leads(l, c.lib)
<1>1. ASSUME NEW t \in Lib, Leads(l, t), c \in ConnectTable(t)
      PROVE  c \in Results /\ Leads(l, c.lib)
  <2>1. PICK F \in SUBSET Slots : \E flaky \in [F -> {"refused", "checkFails"}] :
                                     c = ConnectSlots(t, flaky)
    BY <1>1 DEF ConnectTable, Candidates
  <2>2. PICK flaky \in [F -> {"refused", "checkFails"}] : c = ConnectSlots(t, flaky)
    BY <2>1
  <2>3. c \in Results /\ Leads(t, c.lib)
    BY <2>2, ConnectSlotsLeads
  <2> QED
    BY <1>1, <2>3, LeadsOn
<1>2. CASE setting.auto
  <2>1. (\E e \in Enumerate(l) : c \in ConnectTable(e.lib)) \/ c \in Enumerate(l)
    <3>1. TablesTried(l) = {e.lib : e \in {e \in Enumerate(l) : e.rv = "ok"}}
      BY <1>2 DEF TablesTried
    <3>2. c \in UNION {ConnectTable(t) : t \in TablesTried(l)} \/ c \in Enumerate(l)
      <4>1. Connect(l) = (UNION {ConnectTable(t) : t \in TablesTried(l)})
                           \union {e \in Enumerate(l) : e.rv = "fail"}
        BY <1>2 DEF Connect
      <4> QED
        BY <4>1
    <3>3. ASSUME c \in UNION {ConnectTable(t) : t \in TablesTried(l)}
          PROVE  \E e \in Enumerate(l) : c \in ConnectTable(e.lib)
      <4>1. PICK t \in TablesTried(l) : c \in ConnectTable(t)
        BY <3>3, Zenon
      <4>2. PICK e \in Enumerate(l) : t = e.lib
        BY <3>1, <4>1, Zenon
      <4> QED
        BY <4>1, <4>2, Zenon
    <3> QED
      BY <3>2, <3>3
  <2>2. \A e \in Enumerate(l) : e \in Results /\ Leads(l, e.lib)
    BY <1>2, EnumerateLeads DEF Typed
  <2> QED
    BY <1>1, <2>1, <2>2 DEF Leads
<1>3. CASE ~setting.auto
  <2>1. c \in ConnectTable(l)
    BY <1>3 DEF Connect, TablesTried
  <2>2. Leads(l, l)
    BY DEF Leads
  <2> QED
    BY <1>1, <2>1, <2>2
<1> QED
  BY <1>2, <1>3

LEMMA DisconnectLeads ==
    ASSUME NEW l \in Lib, Typed, NEW d \in Disconnect(l)
    PROVE  d \in Results /\ Leads(l, d.lib)
<1> DEFINE CloseAll(t) == Reset(t, {i \in Slots : i < t.nb /\ t.card[i] # NULL})
<1>1. \A t \in Lib : CloseAll(t) \in Lib /\ Leads(t, CloseAll(t))
  BY ResetTable, LeadsReset
<1>2. Leads(l, l)
  BY DEF Leads
<1>3. CASE ctx = "none"
  BY <1>2, <1>3 DEF Disconnect, Result, Results
<1>4. CASE ctx # "none" /\ ~setting.auto
  BY <1>1, <1>4 DEF Disconnect, Result, Results
<1>5. CASE ctx # "none" /\ setting.auto
  <2>1. PICK e \in Enumerate(l) :
           d = IF e.rv = "fail" THEN e ELSE Result("ok", CloseAll(e.lib), 0)
    BY <1>5 DEF Disconnect
  <2>2. e \in Results /\ Leads(l, e.lib)
    BY <1>5, EnumerateLeads DEF Typed
  <2>3. e.lib \in Lib
    BY <2>2 DEF Leads
  <2>4. CloseAll(e.lib) \in Lib /\ Leads(l, CloseAll(e.lib))
    BY <1>1, <2>2, <2>3, LeadsOn
  <2> QED
    BY <2>1, <2>2, <2>4 DEF Result, Results
<1> QED
  BY <1>3, <1>4, <1>5

-----------------------------------------------------------------------------
(* The types.                                                              *)

\* A slot gives at most MaxTags to what has been copied.
CopyTyped ==
    /\ pc \in {"copy", "done", "crashed"} \/ (copySlot = 0 /\ copyTag = 0 /\ copied = 0)
    /\ copied <= copySlot * MaxTags + copyTag
    /\ copyTag > 0 => copySlot < slot

\* While the readers are read, a slot gives at most MaxTags to the total.
TypeInv ==
    /\ TypeOK
    /\ pc = "driver" => slot < NumSlots
    /\ pc \in {"read", "driver"} => total <= slot * MaxTags
    /\ CopyTyped

LEMMA Spent ==
    ASSUME TypeOK, NEW kind \in Kinds, NEW n \in Nat, Spend(kind, n)
    PROVE  /\ used' \in [Kinds -> Nat]
           /\ \A k \in Kinds : /\ used'[k] <= Bound[k] /\ used'[k] >= used[k]
                               /\ k # kind => used'[k] = used[k]
           /\ used'[kind] = used[kind] + n
BY DEF Spend, TypeOK

\* Handles that no longer work.
LEMMA InvalidateTable ==
    ASSUME NEW l \in Lib, NEW R
    PROVE  LET t == Invalidate(l, R)
           IN  /\ t \in Lib /\ t.nb = l.nb /\ t.name = l.name
               /\ t.driver = l.driver /\ t.tags = l.tags
               /\ \A i \in Slots : t.card[i] = IF l.card[i] \in R THEN Stale ELSE l.card[i]
BY DEF Invalidate, Lib

LEMMA Products ==
    ASSUME NEW i \in Nat, NEW n \in Nat, NEW m \in Nat, i <= n
    PROVE  i * m \in Nat /\ (i + 1) * m = i * m + m /\ i * m <= n * m
OBVIOUS

\* SkipSlot and TestSlot clear the count of the slot, ReadSlot sets it.
LEMMA CountTable ==
    ASSUME NEW l \in Lib, NEW n \in 0..MaxTags
    PROVE  LET t == [l EXCEPT !.tags[slot] = n]
           IN  /\ t \in Lib /\ t.nb = l.nb /\ t.name = l.name
               /\ t.card = l.card /\ t.driver = l.driver
               /\ \A i \in Slots : t.tags[i] = IF i = slot THEN n ELSE l.tags[i]
BY DEF Lib

LEMMA TypeInit == Init => TypeInv
<1> SUFFICES ASSUME Init PROVE TypeInv
  OBVIOUS
<1>1. NumSlots \in Nat /\ MaxTags \in Nat /\ 0 \in 0..NumSlots /\ 0 \in 0..MaxTags
  BY SettingAssumption
<1>2. 0 \in 0..(NumSlots * MaxTags)
  BY <1>1, Products
<1>3. lib \in Lib
  BY <1>1, Zenon DEF Init, Lib
<1>4. used \in [Kinds -> Nat] /\ \A k \in Kinds : used[k] <= Bound[k]
  BY BoundsAssumption DEF Init, Kinds, Bound
<1>5. CopyTyped
  BY <1>1 DEF Init, CopyTyped
<1> QED
  BY <1>1, <1>2, <1>3, <1>4, <1>5 DEF Init, TypeInv, TypeOK, StartSettings

\* A step that leaves the reading of the readers alone keeps the types if the
\* table, pcscd, the setting and the counts of the bounds keep theirs.
LEMMA TypeKept ==
    ASSUME TypeInv, UNCHANGED <<slot, rv, total, temp, copying>>,
           \/ pc' \in {"done", "crashed"} \/ UNCHANGED pc
           \/ pc \in {"idle", "connect"} /\ pc' \in {"idle", "connect", "list"},
           up' \in BOOLEAN, ports' \in [Slots -> Readers \union {NULL}],
           ctx' \in {"none", "live", "stale"}, setting' \in Settings, lib' \in Lib,
           used' \in [Kinds -> Nat], \A k \in Kinds : used'[k] <= Bound[k]
    PROVE  TypeInv'
BY DEF TypeInv, TypeOK, CopyTyped, copying

LEMMA TypeMachine ==
    ASSUME TypeInv, Machine
    PROVE  TypeInv'
<1>1. TypeOK /\ lib \in Lib /\ ports \in [Slots -> Readers \union {NULL}] /\ ctx \in {"none", "live", "stale"}
  BY DEF TypeInv, TypeOK
<1>2. {"plug", "unplug", "restart"} \subseteq Kinds /\ 1 \in Nat
  BY DEF Kinds
<1>3. ASSUME NEW r \in Readers, PlugIn(r) PROVE TypeInv'
  <2>1. used' \in [Kinds -> Nat] /\ \A k \in Kinds : used'[k] <= Bound[k]
    BY <1>1, <1>2, <1>3, Spent DEF PlugIn
  <2>2. ports' \in [Slots -> Readers \union {NULL}]
    BY <1>1, <1>3 DEF PlugIn
  <2> QED
    BY <1>3, <2>1, <2>2, TypeKept DEF PlugIn, TypeInv, TypeOK, poll
<1>4. ASSUME NEW r \in Readers, Unplug(r) PROVE TypeInv'
  <2>1. used' \in [Kinds -> Nat] /\ \A k \in Kinds : used'[k] <= Bound[k]
    BY <1>1, <1>2, <1>4, Spent DEF Unplug
  <2>2. ports' \in [Slots -> Readers \union {NULL}]
    BY <1>1, <1>4 DEF Unplug
  <2>3. lib' \in Lib
    BY <1>1, <1>4, InvalidateTable DEF Unplug
  <2> QED
    BY <1>4, <2>1, <2>2, <2>3, TypeKept DEF Unplug, TypeInv, TypeOK, poll
<1>5. CASE StartDaemon
  BY <1>5, TypeKept DEF StartDaemon, TypeInv, TypeOK, poll
<1>6. CASE KillDaemon
  <2>1. used' \in [Kinds -> Nat] /\ \A k \in Kinds : used'[k] <= Bound[k]
    BY <1>1, <1>2, <1>6, Spent DEF KillDaemon
  <2>2. lib' \in Lib
    BY <1>1, <1>6, InvalidateTable DEF KillDaemon
  <2>3. ctx' \in {"none", "live", "stale"}
    BY <1>1, <1>6 DEF KillDaemon
  <2> QED
    BY <1>6, <2>1, <2>2, <2>3, TypeKept DEF KillDaemon, TypeInv, TypeOK, poll
<1> QED
  BY <1>3, <1>4, <1>5, <1>6 DEF Machine

LEMMA TypeImpliesTyped == TypeInv => Typed /\ lib \in Lib /\ TypeOK
BY DEF TypeInv, TypeOK, Typed

\* A library call that is a whole step.
LEMMA CallTyped ==
    ASSUME TypeInv,
           NEW c \in Connect(lib) \union Disconnect(lib) \union {Result("ok", lib, 0)},
           lib' = c.lib, Spend("fault", c.faults)
    PROVE  /\ c \in Results /\ lib' \in Lib
           /\ used' \in [Kinds -> Nat] /\ \A k \in Kinds : used'[k] <= Bound[k]
<1>1. Typed /\ lib \in Lib /\ TypeOK
  BY TypeImpliesTyped
<1>2. Result("ok", lib, 0) \in Results
  BY <1>1 DEF Result, Results
<1>3. c \in Results
  BY <1>1, <1>2, ConnectLeads, DisconnectLeads
<1>4. c.lib \in Lib /\ c.faults \in Nat /\ "fault" \in Kinds
  BY <1>3 DEF Results, Kinds
<1> QED
  BY <1>1, <1>3, <1>4, Spent

\* The end of the first loop and the copy only go on in the poll.
LEMMA CopyFrame ==
    ASSUME EndRead \/ Copy
    PROVE  /\ UNCHANGED <<world, lib, slot, rv, total, used>>
           /\ pc \in {"read", "copy"} /\ pc' \in {"copy", "idle", "crashed"}
           /\ temp' \subseteq temp
BY DEF EndRead, Copy, AtCopy, CopyTag, CopiedSlot, CopyUnread, EndCopy

LEMMA TypeCopy ==
    ASSUME TypeInv, EndRead \/ Copy
    PROVE  TypeInv'
<1>1. /\ TypeOK /\ lib \in Lib /\ NumSlots \in Nat /\ MaxTags \in Nat
      /\ lib.nb \in 0..NumSlots /\ slot \in 0..NumSlots
      /\ copySlot \in Nat /\ copyTag \in 0..MaxTags /\ copied \in Nat
      /\ copied <= copySlot * MaxTags + copyTag
  BY TypeImpliesTyped, SettingAssumption DEF TypeInv, CopyTyped, TypeOK, Lib
<1>2. /\ copySlot' \in 0..NumSlots /\ copyTag' \in 0..MaxTags
      /\ copied' \in 0..(NumSlots * MaxTags)
      /\ pc' \in {"copy", "crashed"} \/ (copySlot' = 0 /\ copyTag' = 0 /\ copied' = 0)
      /\ copied' <= copySlot' * MaxTags + copyTag'
      /\ copyTag' > 0 => copySlot' < slot
  <2>1. CASE UNCHANGED copying /\ (EndRead \/ pc' = "crashed")
    BY <1>1, <2>1 DEF EndRead, copying, TypeInv, CopyTyped, TypeOK
  <2>2. CASE EndCopy
    <3>1. 0 <= 0 * MaxTags + 0 /\ 0 \in 0..(NumSlots * MaxTags)
      BY <1>1, Products
    <3> QED
      BY <1>1, <2>2, <3>1 DEF EndCopy
  <2>3. CASE AtCopy
    <3>1. copySlot < NumSlots /\ lib.tags[copySlot] \in 0..MaxTags
      BY <1>1, <2>3 DEF AtCopy, Lib, Slots
    <3>2. /\ copySlot * MaxTags \in Nat /\ NumSlots * MaxTags \in Nat
          /\ (copySlot + 1) * MaxTags = copySlot * MaxTags + MaxTags
          /\ (copySlot + 1) * MaxTags <= NumSlots * MaxTags
      BY <1>1, <3>1, Products
    <3>3. CASE CopyTag
      BY <1>1, <3>1, <3>2, <3>3, <2>3 DEF CopyTag, AtCopy
    <3>4. CASE CopiedSlot
      <4>1. copied <= (copySlot + 1) * MaxTags /\ copied <= NumSlots * MaxTags
        BY <1>1, <3>2
      <4> QED
        BY <1>1, <3>1, <3>2, <3>4, <2>3, <4>1 DEF CopiedSlot, AtCopy
    <3>5. CASE CopyUnread /\ ~UNCHANGED copying
      <4>1. /\ copied' = copied + lib.tags[copySlot] /\ pc' = "copy"
            /\ copySlot' = copySlot + 1 /\ copyTag' = 0 /\ copyTag = 0
        BY <1>1, <3>5 DEF CopyUnread, AtCopy, TypeInv, CopyTyped
      <4>2. copied' <= (copySlot + 1) * MaxTags /\ copied' <= NumSlots * MaxTags
        BY <1>1, <3>1, <3>2, <4>1
      <4> QED
        BY <1>1, <3>1, <4>1, <4>2
    <3>6. CopyTag \/ CopiedSlot \/ CopyUnread \/ EndRead \/ EndCopy
      BY DEF Copy
    <3>7. ASSUME CopyUnread, UNCHANGED copying PROVE pc' = "crashed"
      BY <1>1, <3>7 DEF CopyUnread, copying
    <3>8. EndRead => UNCHANGED copying
      BY DEF EndRead
    <3> QED
      BY <2>1, <2>2, <3>3, <3>4, <3>5, <3>6, <3>7, <3>8
  <2> QED
    BY <2>1, <2>2, <2>3 DEF Copy, EndRead, CopyTag, CopiedSlot, CopyUnread
<1>3. /\ UNCHANGED <<world, lib, slot, rv, total, used>>
      /\ pc' \in {"copy", "idle", "crashed"} /\ temp' \subseteq temp
  BY CopyFrame
<1> QED
  BY <1>1, <1>2, <1>3 DEF TypeInv, CopyTyped, TypeOK, world, machine

LEMMA TypePoll ==
    ASSUME TypeInv, Poll
    PROVE  TypeInv'
<1>1. Typed /\ lib \in Lib /\ TypeOK
  BY TypeImpliesTyped
<1>2. /\ NumSlots \in Nat /\ MaxTags \in Nat /\ slot \in 0..NumSlots
      /\ total \in 0..(NumSlots * MaxTags) /\ lib.nb \in 0..NumSlots
      /\ temp \subseteq Slots /\ rv \in {"ok", "fail"}
      /\ used \in [Kinds -> Nat] /\ \A k \in Kinds : used[k] <= Bound[k]
  BY <1>1, SettingAssumption DEF TypeOK, Lib
\* Until the copy begins, nothing has been copied.
<1>12. ASSUME pc \notin {"copy", "done", "crashed"}, UNCHANGED copying, slot' \in Nat
       PROVE  CopyTyped' /\ UNCHANGED <<copySlot, copyTag, copied>>
  BY <1>2, <1>12 DEF TypeInv, CopyTyped, copying
<1>3. CASE ManagerConnect
  <2>1. PICK e \in IF Occupied = {}
                   THEN {Result("fail", lib, 0)}
                   ELSE {Result("ok", Fill(lib), 0), Result("fail", lib, 1)} :
           /\ lib' = e.lib /\ Spend("fault", e.faults)
           /\ pc' = IF e.rv = "ok" THEN "connect" ELSE "idle"
    BY <1>3 DEF ManagerConnect
  <2>2. Fill(lib) \in Lib
    BY <1>1, FillTable DEF Typed
  <2>3. e \in Results
    BY <1>1, <2>1, <2>2 DEF Result, Results
  <2>4. e.lib \in Lib /\ e.faults \in Nat /\ "fault" \in Kinds
    BY <2>3 DEF Results, Kinds
  <2>5. used' \in [Kinds -> Nat] /\ \A k \in Kinds : used'[k] <= Bound[k]
    BY <1>1, <2>1, <2>4, Spent
  <2> QED
    BY <1>3, <2>1, <2>4, <2>5, TypeKept DEF ManagerConnect, TypeInv, TypeOK
<1>4. CASE FirstConnect
  <2>1. PICK c \in Connect(lib) : lib' = c.lib /\ Spend("fault", c.faults)
    BY <1>4 DEF FirstConnect
  <2>2. lib' \in Lib /\ used' \in [Kinds -> Nat] /\ \A k \in Kinds : used'[k] <= Bound[k]
    BY <2>1, CallTyped
  <2> QED
    BY <1>4, <2>2, TypeKept DEF FirstConnect, TypeInv, TypeOK, world, machine, copying
<1>5. CASE BeginList
  <2>1. PICK c \in IF setting.auto THEN Connect(lib) ELSE {Result("ok", lib, 0)} :
           /\ lib' = c.lib /\ Spend("fault", c.faults) /\ rv' = c.rv
           /\ pc' = IF c.rv = "ok" THEN "read" ELSE "idle"
    BY <1>5 DEF BeginList
  <2>2. c \in Results /\ lib' \in Lib
        /\ used' \in [Kinds -> Nat] /\ \A k \in Kinds : used'[k] <= Bound[k]
    BY <2>1, CallTyped
  <2>3. rv' \in {"ok", "fail"} /\ pc' \in {"read", "idle"}
    BY <2>1, <2>2 DEF Results
  <2>4. slot' = 0 /\ total' = 0 /\ temp' = {} /\ 0 <= 0 * MaxTags /\ 0 \in 0..(NumSlots * MaxTags)
    BY <1>2, <1>5, Products DEF BeginList
  <2> QED
    BY <1>1, <1>2, <1>5, <1>12, <2>2, <2>3, <2>4 DEF BeginList, TypeInv, TypeOK, world, machine
<1>6. CASE SkipSlot
  <2>1. lib' \in Lib
    BY <1>1, <1>2, <1>6, CountTable DEF SkipSlot
  <2>2. slot' = slot + 1 /\ slot' \in 0..NumSlots /\ total' = total /\ total' <= slot' * MaxTags
    BY <1>2, <1>6, Products DEF SkipSlot, AtSlot, TypeInv
  <2> QED
    BY <1>1, <1>2, <1>6, <1>12, <2>1, <2>2 DEF SkipSlot, AtSlot, TypeInv, TypeOK, world, machine
<1>7. CASE TestSlot
  <2>1. lib' \in Lib
    BY <1>1, <1>2, <1>7, CountTable DEF TestSlot
  <2>2. slot' = slot /\ slot < NumSlots /\ total' = total /\ total <= slot * MaxTags
    BY <1>2, <1>7 DEF TestSlot, AtSlot, TypeInv
  <2> QED
    BY <1>1, <1>2, <1>7, <1>12, <2>1, <2>2 DEF TestSlot, AtSlot, TypeInv, TypeOK, world, machine
<1>8. CASE NoDriver
  BY <1>1, <1>8, TypeKept DEF NoDriver, TypeInv, TypeOK, world, machine, copying
<1>9. CASE ReadSlot
  <2>1. PICK n \in 0..MaxTags : lib' = [lib EXCEPT !.tags[slot] = n] /\ total' = total + n
    BY <1>9 DEF ReadSlot
  <2>2. lib' \in Lib
    BY <1>1, <2>1, CountTable
  <2>3. slot' = slot + 1 /\ slot < NumSlots /\ total <= slot * MaxTags
    BY <1>9 DEF ReadSlot, AtDriver, TypeInv
  <2>4. slot' \in 0..NumSlots /\ slot \in Nat /\ n \in Nat /\ n <= MaxTags /\ total \in Nat
    BY <1>2, <2>3
  <2>5. /\ slot * MaxTags \in Nat /\ slot' * MaxTags = slot * MaxTags + MaxTags
        /\ slot' * MaxTags <= NumSlots * MaxTags /\ NumSlots * MaxTags \in Nat
    BY <1>2, <2>3, <2>4, Products
  <2>6. total' <= slot' * MaxTags /\ total' \in 0..(NumSlots * MaxTags)
    BY <1>2, <2>1, <2>3, <2>4, <2>5
  <2>7. temp' \subseteq Slots
    BY <1>2, <1>9, <2>3 DEF ReadSlot, Slots
  <2> QED
    BY <1>1, <1>2, <1>9, <1>12, <2>2, <2>4, <2>6, <2>7 DEF ReadSlot, AtDriver, TypeInv, TypeOK, world, machine
<1>10. CASE ReadSlotFails
  <2>1. used' \in [Kinds -> Nat] /\ \A k \in Kinds : used'[k] <= Bound[k]
    <3>1. (IF Reachable(lib.card[slot]) THEN 1 ELSE 0) \in Nat /\ "fault" \in Kinds
      BY DEF Kinds
    <3> QED
      BY <1>1, <1>10, <3>1, Spent DEF ReadSlotFails
  <2>2. lib' \in Lib
    BY <1>1, <1>10, ResetTable DEF ReadSlotFails
  <2>3. slot' = slot + 1 /\ slot < NumSlots /\ total <= slot * MaxTags /\ total' = total
    BY <1>10 DEF ReadSlotFails, AtDriver, TypeInv
  <2>4. slot' \in 0..NumSlots /\ total' <= slot' * MaxTags
    BY <1>2, <2>3, Products
  <2> QED
    BY <1>1, <1>2, <1>10, <1>12, <2>1, <2>2, <2>3, <2>4 DEF ReadSlotFails, AtDriver, TypeInv, TypeOK, world, machine
<1>11. CASE EndRead \/ Copy
  BY <1>11, TypeCopy
<1> QED
  BY <1>3, <1>4, <1>5, <1>6, <1>7, <1>8, <1>9, <1>10, <1>11 DEF Poll

\* What SIGHUP makes of the table and of the counts.
LEMMA HangupLeads ==
    ASSUME TypeInv, Hangup
    PROVE  /\ Leads(lib, lib') /\ UNCHANGED <<world, poll>>
           /\ used' \in [Kinds -> Nat]
           /\ \A k \in Kinds : used'[k] <= Bound[k] /\ used'[k] >= used[k]
           /\ used'["hangup"] > 0
           /\ \A k \in Kinds \ {"hangup", "fault"} : used'[k] = used[k]
<1>1. PICK d \in Disconnect(lib) : \E c \in Connect(d.lib) :
         /\ lib' = c.lib
         /\ used' = [used EXCEPT !["hangup"] = @ + 1, !["fault"] = @ + d.faults + c.faults]
  BY DEF Hangup
<1>2. PICK c \in Connect(d.lib) :
         /\ lib' = c.lib
         /\ used' = [used EXCEPT !["hangup"] = @ + 1, !["fault"] = @ + d.faults + c.faults]
  BY <1>1
<1>3. Typed /\ lib \in Lib /\ used \in [Kinds -> Nat]
  BY TypeImpliesTyped DEF TypeOK
<1>4. d \in Results /\ Leads(lib, d.lib) /\ d.lib \in Lib
  BY <1>3, DisconnectLeads DEF Leads
<1>5. c \in Results /\ Leads(d.lib, c.lib)
  BY <1>3, <1>4, ConnectLeads
<1>6. Leads(lib, lib')
  BY <1>2, <1>4, <1>5, LeadsOn
<1>7. d.faults \in Nat /\ c.faults \in Nat
  BY <1>4, <1>5 DEF Results
<1>8. /\ used' \in [Kinds -> Nat] /\ used'["hangup"] = used["hangup"] + 1
      /\ \A k \in Kinds : used'[k] >= used[k]
      /\ \A k \in Kinds \ {"hangup", "fault"} : used'[k] = used[k]
  BY <1>2, <1>3, <1>7 DEF Kinds
<1> QED
  BY <1>3, <1>6, <1>8 DEF Hangup, Kinds

\* What SIGTERM and the end of main make of it.
LEMMA LeavingLeads ==
    ASSUME TypeInv, Terminate \/ Quit
    PROVE  /\ Leads(lib, lib') /\ UNCHANGED <<up, ports, setting, slot, rv, total, temp, copying>>
           /\ pc' = "done" /\ ctx' \in {ctx, "none"}
           /\ used' \in [Kinds -> Nat]
           /\ \A k \in Kinds : used'[k] <= Bound[k] /\ used'[k] >= used[k]
           /\ \A k \in Kinds \ {"fault"} : used'[k] = used[k]
<1>1. PICK d \in Disconnect(lib) : lib' = d.lib /\ Spend("fault", d.faults)
  BY DEF Terminate, Quit
<1>2. Typed /\ lib \in Lib /\ TypeOK
  BY TypeImpliesTyped
<1>3. d \in Results /\ Leads(lib, d.lib)
  BY <1>2, DisconnectLeads
<1>4. d.faults \in Nat /\ "fault" \in Kinds
  BY <1>3 DEF Results, Kinds
<1>5. /\ used' \in [Kinds -> Nat]
      /\ \A k \in Kinds : used'[k] <= Bound[k] /\ used'[k] >= used[k]
      /\ \A k \in Kinds \ {"fault"} : used'[k] = used[k]
  BY <1>1, <1>2, <1>4, Spent
<1> QED
  BY <1>1, <1>3, <1>5 DEF Terminate, Quit, world, machine

LEMMA TypeSignal ==
    ASSUME TypeInv, ChangeSetting \/ Signal \/ Quit
    PROVE  TypeInv'
<1>1. TypeOK /\ lib \in Lib
  BY TypeImpliesTyped
<1>2. CASE ChangeSetting
  <2>1. "setting" \in Kinds /\ 1 \in Nat
    BY DEF Kinds
  <2>2. used' \in [Kinds -> Nat] /\ \A k \in Kinds : used'[k] <= Bound[k]
    BY <1>1, <1>2, <2>1, Spent DEF ChangeSetting
  <2> QED
    BY <1>1, <1>2, <2>2, TypeKept DEF ChangeSetting, TypeOK, machine, poll
<1>3. CASE Hangup
  BY <1>1, <1>3, HangupLeads, TypeKept DEF Leads, TypeOK, world, machine, poll
<1>4. CASE HangupWhileFreed
  <2>1. "hangup" \in Kinds /\ 1 \in Nat
    BY DEF Kinds
  <2>2. used' \in [Kinds -> Nat] /\ \A k \in Kinds : used'[k] <= Bound[k]
    BY <1>1, <1>4, <2>1, Spent DEF HangupWhileFreed
  <2> QED
    BY <1>1, <1>4, <2>2, TypeKept DEF HangupWhileFreed, TypeOK, world, machine
<1>5. CASE Terminate \/ Quit
  BY <1>1, <1>5, LeavingLeads, TypeKept DEF Leads, TypeOK
<1> QED
  BY <1>2, <1>3, <1>4, <1>5 DEF Signal

LEMMA TypeStep == TypeInv /\ [Next]_vars => TypeInv'
<1>1. CASE UNCHANGED vars
  BY <1>1 DEF vars, machine, world, poll, copying, CopyTyped, TypeInv, TypeOK
<1> QED
  BY <1>1, TypeMachine, TypePoll, TypeSignal DEF Next

LEMMA TypeInvariant == Spec => []TypeInv
BY TypeInit, TypeStep, PTL DEF Spec

\* Every variable always has a value of its type; in particular no more tags
\* are counted than the readers can give, although SIGHUP changes the number
\* of readers while they are read (tagReader.c:661-692).
THEOREM ManagerTypeCorrect == Spec => []TypeOK
<1>1. TypeInv => TypeOK
  BY DEF TypeInv
<1> QED
  BY <1>1, TypeInvariant, PTL

-----------------------------------------------------------------------------
(* Who crashes the program.                                                *)

\* What happens to the machine changes neither the settings nor what a poll
\* has done, and of the table only which handles work.
LEMMA MachineFrame ==
    ASSUME TypeInv, Machine
    PROVE  /\ UNCHANGED <<setting, poll>> /\ (ctx' = "none" <=> ctx = "none")
           /\ lib'.nb = lib.nb /\ lib'.name = lib.name
           /\ lib'.driver = lib.driver /\ lib'.tags = lib.tags
           /\ \A i \in Slots : lib'.card[i] \in {lib.card[i], Stale}
           /\ \A k \in {"fault", "hangup", "setting"} : used'[k] = used[k]
           /\ used'["unplug"] >= used["unplug"]
<1>1. TypeOK /\ lib \in Lib /\ 1 \in Nat /\ {"plug", "unplug", "restart"} \subseteq Kinds
      /\ {"fault", "hangup", "setting"} \subseteq Kinds /\ used["unplug"] \in Nat
  BY TypeImpliesTyped DEF Kinds, TypeOK
<1>2. ASSUME NEW R, lib' = Invalidate(lib, R)
      PROVE  /\ lib'.nb = lib.nb /\ lib'.name = lib.name
             /\ lib'.driver = lib.driver /\ lib'.tags = lib.tags
             /\ \A i \in Slots : lib'.card[i] \in {lib.card[i], Stale}
  BY <1>1, <1>2, InvalidateTable
<1>3. ASSUME NEW kind \in {"plug", "unplug", "restart"}, Spend(kind, 1)
      PROVE  /\ \A k \in {"fault", "hangup", "setting"} : used'[k] = used[k]
             /\ used'["unplug"] >= used["unplug"]
  BY <1>1, <1>3, Spent
<1>4. ASSUME NEW r \in Readers, PlugIn(r) \/ Unplug(r)
      PROVE  /\ UNCHANGED <<ctx, setting, poll>> /\ (UNCHANGED lib \/ lib' = Invalidate(lib, {r}))
             /\ \E kind \in {"plug", "unplug", "restart"} : Spend(kind, 1)
  BY <1>4 DEF PlugIn, Unplug
<1>5. CASE StartDaemon
  BY <1>1, <1>5 DEF StartDaemon
<1>6. CASE KillDaemon
  BY <1>1, <1>2, <1>3, <1>6 DEF KillDaemon
<1> QED
  BY <1>1, <1>2, <1>3, <1>4, <1>5, <1>6 DEF Machine

\* The driver that was tested is still there, and the table is no longer than
\* the part of it that was read, unless a SIGHUP came between.
CrashInv ==
    /\ pc = "driver" => lib.driver[slot] \/ used["hangup"] > 0
    /\ pc = "copy" => lib.nb <= slot \/ used["hangup"] > 0
    /\ OnlyHangupCrashes

LEMMA CrashStep == TypeInv /\ CrashInv /\ [Next]_vars => CrashInv'
<1> SUFFICES ASSUME TypeInv, CrashInv, [Next]_vars
             PROVE  CrashInv'
  OBVIOUS
<1> USE DEF CrashInv, OnlyHangupCrashes
<1>1. CASE UNCHANGED vars
  BY <1>1 DEF vars, poll
<1>2. CASE Machine
  BY <1>2, MachineFrame DEF poll
<1>3. CASE ManagerConnect \/ FirstConnect \/ BeginList
  BY <1>3 DEF ManagerConnect, FirstConnect, BeginList
<1>4. CASE SkipSlot \/ ReadSlot \/ ReadSlotFails
  BY <1>4 DEF SkipSlot, AtSlot, ReadSlot, ReadSlotFails
<1>5. CASE TestSlot
  <2>1. lib.driver[slot] /\ lib'.driver = lib.driver /\ pc' = "driver" /\ slot' = slot
    BY <1>5, SettingAssumption, CountTable, TypeImpliesTyped DEF TestSlot, ToBeRead
  <2> QED
    BY <2>1
<1>6. CASE NoDriver
  BY <1>6 DEF NoDriver
<1>7. CASE ChangeSetting
  BY <1>7 DEF ChangeSetting, poll
<1>8. CASE Hangup
  BY <1>8, HangupLeads
<1>9. CASE HangupWhileFreed
  <2>1. "hangup" \in Kinds /\ 1 \in Nat /\ used["hangup"] \in Nat
    BY TypeImpliesTyped DEF Kinds, TypeOK
  <2> QED
    BY <1>9, <2>1, TypeImpliesTyped, Spent DEF HangupWhileFreed
<1>10. CASE Terminate \/ Quit
  BY <1>10, LeavingLeads
<1>11. CASE EndRead \/ Copy
  <2>1. UNCHANGED <<lib, slot, used>> /\ pc' # "driver" /\ lib.nb \in Nat /\ slot \in Nat
    BY <1>11, CopyFrame, TypeImpliesTyped, SlotsFinite DEF TypeOK, Lib
  <2>2. CASE EndRead
    BY <2>1, <2>2 DEF EndRead
  <2>3. CASE CopyTag \/ CopiedSlot \/ EndCopy
    BY <2>1, <2>3 DEF CopyTag, CopiedSlot, EndCopy, AtCopy
  <2>4. CASE CopyUnread
    <3>1. copySlot \in Nat /\ pc = "copy" /\ copySlot < lib.nb /\ copySlot >= slot
      BY <2>4, TypeImpliesTyped, SlotsFinite DEF CopyUnread, AtCopy, TypeOK
    <3> QED
      BY <2>1, <3>1
  <2> QED
    BY <1>11, <2>2, <2>3, <2>4 DEF Copy
<1> QED
  BY <1>1, <1>2, <1>3, <1>4, <1>5, <1>6, <1>7, <1>8, <1>9, <1>10, <1>11 DEF Next, Poll, Signal

\* Without a SIGHUP the program never uses a driver that is not there, frees a
\* list twice or reads an array it has not allocated, whatever the readers and
\* pcscd do (tagReader.c:669-681, 308-311, 704-726).
THEOREM OnlySighupCrashes == Spec => []OnlyHangupCrashes
<1>1. Init => CrashInv
  BY DEF Init, CrashInv, OnlyHangupCrashes
<1>2. CrashInv => OnlyHangupCrashes
  BY DEF CrashInv
<1> QED
  BY <1>1, <1>2, CrashStep, TypeInvariant, PTL DEF Spec

-----------------------------------------------------------------------------
(* Names that were freed.                                                  *)

\* Before the first connection to pcscd the table is empty.  Without AUTO no
\* list of names is ever freed after it, as long as the setting stays.
NamesInv ==
    Alive =>
        /\ ctx = "none" => pc = "idle" /\ lib.nb = 0 /\ \A i \in Slots : lib.name[i] = NULL
        /\ used["setting"] = 0 /\ ~setting.auto => \A i \in Slots : lib.name[i] # Freed

\* A step that only forgets names.
LEMMA NamesForgotten ==
    ASSUME NamesInv, lib' \in Lib, UNCHANGED setting, Alive,
           \A i \in Slots : lib'.name[i] \in {NULL, lib.name[i]},
           used'["setting"] >= used["setting"], used["setting"] \in Nat,
           ctx' = "none" => ctx = "none" /\ pc' = pc /\ lib'.nb = lib.nb
    PROVE  NamesInv'
<1>1. NULL # Freed
  BY NamesDiffer
<1> QED
  BY <1>1 DEF NamesInv, Alive

LEMMA NamesPoll ==
    ASSUME TypeInv, NamesInv, Poll
    PROVE  NamesInv'
<1>1. /\ Typed /\ lib \in Lib /\ TypeOK
      /\ used \in [Kinds -> Nat] /\ {"setting", "fault"} \subseteq Kinds
  BY TypeImpliesTyped DEF Kinds, TypeOK
<1>2. CASE ManagerConnect
  <2>1. PICK e \in IF Occupied = {}
                   THEN {Result("fail", lib, 0)}
                   ELSE {Result("ok", Fill(lib), 0), Result("fail", lib, 1)} :
           lib' = e.lib
    BY <1>2 DEF ManagerConnect
  <2>2. lib' = lib \/ lib' = Fill(lib)
    BY <2>1 DEF Result
  <2>3. \A i \in Slots : lib.name[i] = NULL
    BY <1>2 DEF ManagerConnect, NamesInv, Alive
  <2>4. \A i \in Slots : Fill(lib).name[i] \in Readers \union {NULL}
    <3> DEFINE n == Cardinality(Occupied)
    <3>1. \A i \in Slots : IF i < n THEN Fill(lib).name[i] = Listing[i] ELSE Fill(lib).name[i] = NULL
      BY <1>1, <2>3, FillTable DEF Typed
    <3>2. n \in 0..NumSlots /\ NumSlots \in Nat /\ \A i \in 0..(n - 1) : Listing[i] \in Readers
      BY <1>1, ListingTyped, SlotsFinite DEF Typed
    <3> HIDE DEF n
    <3>3. \A i \in Slots : i < n => i \in 0..(n - 1)
      BY <3>2 DEF Slots
    <3> QED
      BY <3>1, <3>2, <3>3
  <2>5. \A i \in Slots : lib'.name[i] # Freed
    BY <2>2, <2>3, <2>4, NamesDiffer
  <2> QED
    BY <1>2, <2>5 DEF ManagerConnect, NamesInv
<1>3. CASE FirstConnect \/ BeginList
  <2>1. /\ Alive /\ ctx # "none" /\ UNCHANGED <<ctx, setting>>
        /\ \E c \in Connect(lib) \union Disconnect(lib) \union {Result("ok", lib, 0)} :
              /\ c \in Connect(lib) \union {Result("ok", lib, 0)}
              /\ lib' = c.lib /\ Spend("fault", c.faults)
    <3>1. \E c \in Connect(lib) \union {Result("ok", lib, 0)} :
             lib' = c.lib /\ Spend("fault", c.faults)
      BY <1>3 DEF FirstConnect, BeginList
    <3>2. Alive /\ ctx # "none" /\ UNCHANGED <<ctx, setting>>
      BY <1>3 DEF FirstConnect, BeginList, NamesInv, Alive, world, machine
    <3> QED
      BY <3>1, <3>2
  <2>2. PICK c \in Connect(lib) \union Disconnect(lib) \union {Result("ok", lib, 0)} :
           /\ c \in Connect(lib) \union {Result("ok", lib, 0)}
           /\ lib' = c.lib /\ Spend("fault", c.faults)
    BY <2>1
  <2>3. c \in Results /\ lib' \in Lib
    BY <2>2, CallTyped
  <2>4. used'["setting"] = used["setting"]
    BY <1>1, <2>2, <2>3, Spent DEF Results
  <2>5. Leads(lib, lib')
    <3>1. Leads(lib, lib)
      BY <1>1 DEF Leads
    <3> QED
      BY <1>1, <2>2, <3>1, ConnectLeads DEF Result
  <2>6. ~setting.auto => \A i \in Slots : lib'.name[i] \in {NULL, lib.name[i]}
    BY <2>5 DEF Leads, Enumerates
  <2> QED
    BY <2>1, <2>4, <2>6, NamesDiffer DEF NamesInv
<1>4. CASE SkipSlot \/ TestSlot \/ NoDriver \/ ReadSlot \/ ReadSlotFails \/ EndRead \/ Copy
  <2>1. Alive /\ UNCHANGED <<ctx, setting>> /\ pc # "idle" /\ ctx # "none"
    BY <1>4, CopyFrame DEF SkipSlot, AtSlot, TestSlot, NoDriver, ReadSlot, ReadSlotFails,
                AtDriver, Alive, NamesInv, world, machine
  <2>2. used'["setting"] = used["setting"]
    <3>1. CASE ReadSlotFails
      BY <1>1, <3>1, Spent DEF ReadSlotFails
    <3>2. CASE SkipSlot \/ TestSlot \/ NoDriver \/ ReadSlot \/ EndRead \/ Copy
      BY <3>2, CopyFrame DEF SkipSlot, TestSlot, NoDriver, ReadSlot
    <3> QED
      BY <1>4, <3>1, <3>2
  <2>3. lib' \in Lib /\ \A i \in Slots : lib'.name[i] \in {NULL, lib.name[i]}
    <3>1. CASE SkipSlot \/ TestSlot \/ ReadSlot
      <4>1. PICK n \in 0..MaxTags : lib' = [lib EXCEPT !.tags[slot] = n]
        BY <3>1, SettingAssumption DEF SkipSlot, TestSlot, ReadSlot
      <4> QED
        BY <1>1, <4>1, CountTable
    <3>2. CASE ReadSlotFails
      BY <1>1, <3>2, ResetTable DEF ReadSlotFails
    <3>3. CASE NoDriver \/ EndRead \/ Copy
      BY <1>1, <3>3, CopyFrame DEF NoDriver
    <3> QED
      BY <1>4, <3>1, <3>2, <3>3
  <2> QED
    BY <1>1, <2>1, <2>2, <2>3, NamesForgotten
<1> QED
  BY <1>2, <1>3, <1>4 DEF Poll

LEMMA NamesStep == TypeInv /\ NamesInv /\ [Next]_vars => NamesInv'
<1> SUFFICES ASSUME TypeInv, NamesInv, [Next]_vars
             PROVE  NamesInv'
  OBVIOUS
<1>1. /\ Typed /\ lib \in Lib /\ TypeOK
      /\ used \in [Kinds -> Nat] /\ {"setting", "hangup"} \subseteq Kinds
  BY TypeImpliesTyped DEF Kinds, TypeOK
<1>2. CASE UNCHANGED vars
  BY <1>2 DEF vars, world, machine, poll, NamesInv, Alive
<1>3. CASE Machine
  BY <1>3, MachineFrame DEF NamesInv, Alive, poll
<1>4. CASE ChangeSetting
  <2>1. used'["setting"] = used["setting"] + 1
    BY <1>1, <1>4, Spent DEF ChangeSetting
  <2> QED
    BY <1>1, <1>4, <2>1 DEF ChangeSetting, NamesInv, Alive, machine, poll
<1>5. CASE Hangup
  <2>1. /\ Leads(lib, lib') /\ UNCHANGED <<ctx, setting, pc>>
        /\ used'["setting"] = used["setting"]
    BY <1>1, <1>5, HangupLeads DEF world, machine, poll
  <2>2. ~setting.auto \/ ctx = "none" =>
           lib'.nb = lib.nb /\ \A i \in Slots : lib'.name[i] \in {NULL, lib.name[i]}
    BY <2>1 DEF Leads, Enumerates
  <2> QED
    BY <2>1, <2>2, NamesDiffer DEF NamesInv, Alive
<1>6. CASE HangupWhileFreed \/ Terminate \/ Quit
  BY <1>6 DEF HangupWhileFreed, Terminate, Quit, NamesInv, Alive
<1> QED
  BY <1>2, <1>3, <1>4, <1>5, <1>6, NamesPoll DEF Next, Signal

\* Whatever fails, readersConnect opens no name that readersEnumerate has
\* freed, as long as the setting is that of the command line
\* (tagReader.c:449-474).
THEOREM NoFreedNameOpened == Spec => []NoDanglingConnect
<1>1. Init => NamesInv
  BY NamesDiffer DEF Init, NamesInv
<1>2. TypeInv /\ NamesInv => NoDanglingConnect
  <2> SUFFICES ASSUME TypeInv, NamesInv, Alive, used["setting"] = 0,
                      NEW t \in TablesTried(lib), NEW i \in Candidates(t)
               PROVE  t.name[i] # Freed
    BY DEF NoDanglingConnect
  <2>1. Typed /\ lib \in Lib /\ i \in Slots /\ i < t.nb
    BY TypeImpliesTyped DEF Candidates
  <2>2. CASE setting.auto
    <3>1. TablesTried(lib) = {e.lib : e \in {e \in Enumerate(lib) : e.rv = "ok"}}
      BY <2>2 DEF TablesTried
    <3>2. PICK e \in Enumerate(lib) : t = e.lib /\ e.rv = "ok"
      BY <3>1
    <3>3. t.name[i] \in Readers
      BY <2>1, <2>2, <3>2, EnumerateLeads DEF Typed
    <3> QED
      BY <3>3, NamesDiffer
  <2>3. CASE ~setting.auto
    BY <2>1, <2>3 DEF TablesTried, NamesInv
  <2> QED
    BY <2>2, <2>3
<1> QED
  BY <1>1, <1>2, NamesStep, TypeInvariant, PTL DEF Spec

-----------------------------------------------------------------------------
(* What a poll makes of the table and the counts.                          *)

\* The steps of a poll in one form: each is a way to a table like those of the
\* library calls, except that a reader may be read.
LEMMA PollFrame ==
    ASSUME TypeInv, Poll
    PROVE  /\ UNCHANGED <<up, ports, setting>> /\ used'["unplug"] = used["unplug"]
           /\ NoGap /\ Matches(lib) => Matches(lib')
<1>1. /\ Typed /\ lib \in Lib /\ TypeOK
      /\ used \in [Kinds -> Nat] /\ {"unplug", "fault"} \subseteq Kinds
  BY TypeImpliesTyped DEF Kinds, TypeOK
<1>2. UNCHANGED <<up, ports, setting>>
  BY CopyFrame DEF Poll, ManagerConnect, FirstConnect, BeginList, SkipSlot, TestSlot, NoDriver,
         ReadSlot, ReadSlotFails, world, machine
<1>3. CASE ManagerConnect
  <2>1. PICK e \in IF Occupied = {}
                   THEN {Result("fail", lib, 0)}
                   ELSE {Result("ok", Fill(lib), 0), Result("fail", lib, 1)} :
           lib' = e.lib /\ Spend("fault", e.faults)
    BY <1>3 DEF ManagerConnect
  <2>2. lib' \in {lib, Fill(lib)} /\ e.faults \in Nat
    BY <2>1 DEF Result
  <2>3. used'["unplug"] = used["unplug"]
    BY <1>1, <2>1, <2>2, Spent
  <2>4. NoGap /\ Matches(lib) => Matches(lib')
    BY <1>1, <2>2, MatchesFill DEF Typed
  <2> QED
    BY <1>2, <2>3, <2>4
<1>4. CASE FirstConnect \/ BeginList
  <2>1. PICK c \in Connect(lib) \union {Result("ok", lib, 0)} :
           lib' = c.lib /\ Spend("fault", c.faults)
    BY <1>4 DEF FirstConnect, BeginList
  <2>2. c.faults \in Nat
    BY <2>1, CallTyped DEF Results
  <2>3. used'["unplug"] = used["unplug"]
    BY <1>1, <2>1, <2>2, Spent
  <2>4. NoGap /\ Matches(lib) => Matches(lib')
    BY <1>1, <2>1, ConnectLeads DEF Result, Leads
  <2> QED
    BY <1>2, <2>3, <2>4
<1>5. CASE SkipSlot \/ TestSlot \/ ReadSlot
  <2>1. PICK n \in 0..MaxTags : lib' = [lib EXCEPT !.tags[slot] = n]
    BY <1>5, SettingAssumption DEF SkipSlot, TestSlot, ReadSlot
  <2>2. lib'.name = lib.name /\ lib'.card = lib.card
    BY <1>1, <2>1, CountTable
  <2>3. UNCHANGED used
    BY <1>5 DEF SkipSlot, TestSlot, ReadSlot
  <2> QED
    BY <1>2, <2>2, <2>3 DEF Matches
<1>6. CASE ReadSlotFails
  <2>1. used'["unplug"] = used["unplug"]
    BY <1>1, <1>6, Spent DEF ReadSlotFails
  <2>2. Leads(lib, lib')
    BY <1>1, <1>6, LeadsReset DEF ReadSlotFails
  <2> QED
    BY <1>2, <2>1, <2>2 DEF Leads
<1>7. CASE NoDriver \/ EndRead \/ Copy
  BY <1>2, <1>7, CopyFrame DEF NoDriver
<1> QED
  BY <1>3, <1>4, <1>5, <1>6, <1>7 DEF Poll

-----------------------------------------------------------------------------
(* Whose handle a slot holds.                                              *)

PlaceInv == used["unplug"] = 0 => NoGap /\ Matches(lib)

\* A reader that is plugged in takes the first free place: no slot was named
\* after that place.
LEMMA PlaceMachine ==
    ASSUME TypeInv, PlaceInv, Machine
    PROVE  PlaceInv'
<1>1. /\ lib \in Lib /\ TypeOK /\ ports \in [Slots -> Readers \union {NULL}]
      /\ used["unplug"] \in Nat /\ {"plug", "unplug", "restart"} \subseteq Kinds /\ 1 \in Nat
  BY TypeImpliesTyped DEF Kinds, TypeOK
<1>2. /\ lib'.name = lib.name /\ used'["unplug"] >= used["unplug"]
      /\ \A i \in Slots : lib'.card[i] \in {lib.card[i], Stale}
  BY MachineFrame
<1>3. used'["unplug"] = 0 => used["unplug"] = 0
  <2>1. CASE \E r \in Readers : PlugIn(r)
    BY <1>1, <2>1, Spent DEF PlugIn
  <2>2. CASE \E r \in Readers : Unplug(r)
    BY <1>1, <2>2, Spent DEF Unplug
  <2>3. CASE KillDaemon
    BY <1>1, <2>3, Spent DEF KillDaemon
  <2> QED
    BY <2>1, <2>2, <2>3 DEF Machine, StartDaemon
<1>4. ASSUME NEW r \in Readers, PlugIn(r), NoGap, Matches(lib)
      PROVE  NoGap' /\ Matches(lib)'
  <2>1. PICK p \in Slots : /\ ports[p] = NULL
                           /\ \A q \in Slots : q < p => ports[q] # NULL
                           /\ ports' = [ports EXCEPT ![p] = r]
    BY <1>4 DEF PlugIn
  <2>2. \A q \in Slots : ports'[q] = IF q = p THEN r ELSE ports[q]
    BY <1>1, <2>1
  <2>3. NoGap'
    <3> SUFFICES ASSUME NEW q1 \in Slots, NEW q2 \in Slots, q1 < q2, ports'[q2] # NULL
                 PROVE  ports'[q1] # NULL
      BY DEF NoGap
    <3>1. CASE q2 = p
      BY <2>1, <2>2, <3>1
    <3>2. CASE q2 # p
      BY <1>4, <2>2, <3>2, NamesDiffer DEF NoGap
    <3> QED
      BY <3>1, <3>2
  <2>4. lib' = lib
    BY <1>4 DEF PlugIn
  <2>5. Matches(lib)'
    BY <1>4, <2>1, <2>2, <2>4 DEF Matches
  <2> QED
    BY <2>3, <2>5
<1>5. ASSUME NEW r \in Readers, Unplug(r) PROVE used'["unplug"] # 0
  BY <1>1, <1>5, Spent DEF Unplug
<1>6. ASSUME StartDaemon \/ KillDaemon, NoGap, Matches(lib)
      PROVE  NoGap' /\ Matches(lib)'
  <2>1. ports' = ports
    BY <1>6 DEF StartDaemon, KillDaemon
  <2>2. NoGap'
    BY <1>6, <2>1 DEF NoGap
  <2>3. \A i \in Slots : lib'.card[i] # NULL => lib.card[i] # NULL
    <3>1. CASE StartDaemon
      BY <3>1 DEF StartDaemon
    <3>2. CASE KillDaemon
      BY <1>1, <3>2, InvalidateTable, NamesDiffer DEF KillDaemon
    <3> QED
      BY <1>6, <3>1, <3>2
  <2>4. Matches(lib)'
    BY <1>2, <1>6, <2>1, <2>3 DEF Matches
  <2> QED
    BY <2>2, <2>4
<1> QED
  BY <1>3, <1>4, <1>5, <1>6 DEF Machine, PlaceInv

LEMMA PlaceStep == TypeInv /\ PlaceInv /\ [Next]_vars => PlaceInv'
<1> SUFFICES ASSUME TypeInv, PlaceInv, [Next]_vars
             PROVE  PlaceInv'
  OBVIOUS
<1>1. /\ Typed /\ lib \in Lib /\ TypeOK
      /\ {"unplug", "setting", "hangup"} \subseteq Kinds /\ 1 \in Nat
  BY TypeImpliesTyped DEF Kinds
<1>2. ASSUME UNCHANGED ports, used'["unplug"] = used["unplug"],
             NoGap /\ Matches(lib) => Matches(lib')
      PROVE  PlaceInv'
  BY <1>2 DEF PlaceInv, NoGap, Matches
<1>3. CASE UNCHANGED vars
  BY <1>3 DEF vars, world, machine, PlaceInv, NoGap, Matches
<1>4. CASE Machine
  BY <1>4, PlaceMachine
<1>5. CASE Poll
  BY <1>2, <1>5, PollFrame
<1>6. CASE ChangeSetting
  <2>1. used'["unplug"] = used["unplug"] /\ UNCHANGED <<ports, lib>>
    BY <1>1, <1>6, Spent DEF ChangeSetting, machine
  <2> QED
    BY <1>2, <2>1
<1>7. CASE Hangup
  <2>1. Leads(lib, lib') /\ UNCHANGED ports /\ used'["unplug"] = used["unplug"]
    BY <1>1, <1>7, HangupLeads DEF world, machine
  <2> QED
    BY <1>2, <2>1 DEF Leads
<1>8. CASE HangupWhileFreed
  <2>1. used'["unplug"] = used["unplug"] /\ UNCHANGED <<ports, lib>>
    BY <1>1, <1>8, Spent DEF HangupWhileFreed, world, machine
  <2> QED
    BY <1>2, <2>1
<1>9. CASE Terminate \/ Quit
  <2>1. Leads(lib, lib') /\ UNCHANGED ports /\ used'["unplug"] = used["unplug"]
    BY <1>1, <1>9, LeavingLeads
  <2> QED
    BY <1>2, <2>1 DEF Leads
<1> QED
  BY <1>3, <1>4, <1>5, <1>6, <1>7, <1>8, <1>9 DEF Next, Signal

\* If pcscd's table has no gap at the start and no reader is ever unplugged, a
\* handle that works belongs to the reader its slot is named after, whatever is
\* plugged in, restarted, reset and enumerated (tagReader.c:336-347).
THEOREM HandlesMatchNames == NoGap /\ Spec => []HandleMatchesName
<1>1. NoGap /\ Init => PlaceInv
  BY DEF Init, PlaceInv, Matches
<1>2. TypeInv /\ PlaceInv => HandleMatchesName
  BY TypeImpliesTyped, NamesDiffer DEF PlaceInv, Matches, HandleMatchesName, Lib
<1> QED
  BY <1>1, <1>2, PlaceStep, TypeInvariant, PTL DEF Spec

-----------------------------------------------------------------------------
(* The tags that are copied.                                               *)

LEMMA HeldFinite ==
    ASSUME NEW n
    PROVE  /\ Held(n) \subseteq Slots \X (1..MaxTags)
           /\ IsFiniteSet(Held(n)) /\ Cardinality(Held(n)) \in Nat
           /\ IsFiniteSet(Slots \X (1..MaxTags))
<1>1. IsFiniteSet(1..MaxTags)
  BY FS_Interval, SettingAssumption
<1>2. IsFiniteSet(Slots \X (1..MaxTags))
  BY <1>1, SlotsFinite, FS_Product
<1>3. Held(n) \subseteq Slots \X (1..MaxTags)
  BY DEF Held
<1> QED
  BY <1>2, <1>3, FS_Subset, FS_CardinalityType

LEMMA HeldFewer ==
    ASSUME NEW m, NEW n, Held(m) \subseteq Held(n)
    PROVE  Cardinality(Held(m)) <= Cardinality(Held(n))
BY HeldFinite, FS_Subset

\* Forgetting tags makes them fewer.
LEMMA HeldShrinks ==
    ASSUME lib \in Lib, lib' \in Lib, slot' = slot, slot \in Nat,
           \A i \in Slots : i < slot => lib'.tags[i] \in {0, lib.tags[i]}
    PROVE  /\ Cardinality(Held(slot))' \in Nat
           /\ Cardinality(Held(slot))' <= Cardinality(Held(slot))
<1>1. \A place \in Slots \X (1..MaxTags) :
         /\ place[1] \in Slots /\ place[2] \in Nat /\ place[2] > 0
         /\ lib.tags[place[1]] \in Nat
  BY SettingAssumption DEF Lib
<1>2. Held(slot)' \subseteq Held(slot)
  BY <1>1 DEF Held
<1>3. Held(slot)' \in SUBSET Held(slot) /\ IsFiniteSet(Held(slot))
  BY <1>2, HeldFinite
<1> QED
  BY <1>3, FS_Subset, FS_CardinalityType

\* Going past a slot that holds n tags adds n of them.
LEMMA HeldGrows ==
    ASSUME lib \in Lib, slot \in Slots, slot' = slot + 1, NEW n \in 0..MaxTags,
           lib' \in Lib,
           \A i \in Slots : lib'.tags[i] = IF i = slot THEN n ELSE lib.tags[i]
    PROVE  Cardinality(Held(slot))' = Cardinality(Held(slot)) + n
<1> DEFINE new == {slot} \X (1..n)
<1>1. NumSlots \in Nat /\ MaxTags \in Nat /\ slot \in Nat /\ n \in Nat
  BY SettingAssumption, SlotsFinite DEF Slots
<1>2. Held(slot)' = Held(slot) \union new
  <2>1. Held(slot)' = {place \in Slots \X (1..MaxTags) :
                          place[1] < slot + 1 /\ place[2] <= lib'.tags[place[1]]}
    BY DEF Held
  <2>2. ASSUME NEW i \in Slots, NEW k \in 1..MaxTags
        PROVE  <<i, k>> \in Held(slot)' <=> <<i, k>> \in Held(slot) \/ <<i, k>> \in new
    <3>1. i \in Nat /\ k \in Nat
      BY <1>1 DEF Slots
    <3>2. <<i, k>> \in Held(slot)' <=> i < slot + 1 /\ k <= lib'.tags[i]
      BY <2>1
    <3>3. <<i, k>> \in Held(slot) <=> i < slot /\ k <= lib.tags[i]
      BY DEF Held
    <3>4. <<i, k>> \in new <=> i = slot /\ k <= n
      BY <1>1, <3>1
    <3> QED
      BY <1>1, <3>1, <3>2, <3>3, <3>4
  <2>3. new \subseteq Slots \X (1..MaxTags)
    BY <1>1
  <2>4. Held(slot)' \subseteq Slots \X (1..MaxTags) /\ Held(slot) \subseteq Slots \X (1..MaxTags)
    BY <2>1 DEF Held
  <2> QED
    BY <2>2, <2>3, <2>4
<1>3. Held(slot) \intersect new = {}
  BY <1>1 DEF Held
<1>4. IsFiniteSet(new) /\ Cardinality(new) = n
  <2>1. IsFiniteSet({slot}) /\ Cardinality({slot}) = 1
    BY FS_Singleton
  <2>2. IsFiniteSet(1..n) /\ Cardinality(1..n) = n
    BY <1>1, FS_Interval
  <2>3. IsFiniteSet(new) /\ Cardinality(new) = Cardinality({slot}) * Cardinality(1..n)
    BY <2>1, <2>2, FS_Product, Zenon
  <2> QED
    BY <1>1, <2>1, <2>2, <2>3
<1> HIDE DEF new
<1>5. IsFiniteSet(Held(slot)) /\ Cardinality(Held(slot)) \in Nat
  BY HeldFinite
<1>6. Cardinality(Held(slot) \union new)
         = Cardinality(Held(slot)) + Cardinality(new) - Cardinality({})
  BY <1>3, <1>4, <1>5, FS_Union
<1> QED
  BY <1>1, <1>2, <1>4, <1>5, <1>6, FS_EmptySet

\* The places of the tags that are left to copy from the slots that were read.
ToCopy == {place \in Held(slot) : \/ place[1] > copySlot
                                  \/ place[1] = copySlot /\ place[2] > copyTag}

\* While the readers are read, the tags of the slots that are behind are
\* counted and in an array; while they are copied, so are those that are left.
\* A SIGHUP forgets tags, but their count and arrays stay.
CountInv ==
    /\ pc \in {"read", "driver"} =>
          /\ Cardinality(Held(slot)) <= total
          /\ \A i \in Slots : i < slot /\ lib.tags[i] > 0 => i \in temp
    /\ pc = "copy" /\ copySlot <= slot =>
          /\ copied + Cardinality(ToCopy) <= total
          /\ \A i \in Slots : copySlot <= i /\ i < slot /\ lib.tags[i] > 0 => i \in temp

\* Without a SIGHUP between two readers the count is exact, and neither loop
\* passes the last reader.
FilledInv ==
    ~HangupInPoll =>
        /\ pc \in {"read", "driver"} =>
              /\ slot <= lib.nb /\ (pc = "driver" => slot < lib.nb)
              /\ Cardinality(Held(slot)) = total
        /\ pc = "copy" =>
              /\ slot = lib.nb /\ copySlot <= slot
              /\ copied + Cardinality(ToCopy) = total

LEMMA ToCopyFinite ==
    /\ ToCopy \subseteq Held(slot)
    /\ IsFiniteSet(ToCopy) /\ Cardinality(ToCopy) \in Nat
<1>1. ToCopy \subseteq Held(slot)
  BY DEF ToCopy
<1> QED
  BY <1>1, HeldFinite, FS_Subset, FS_CardinalityType

\* At the start of the copy all tags are left.
LEMMA AllToCopy ==
    ASSUME TypeInv, copySlot = 0, copyTag = 0
    PROVE  ToCopy = Held(slot)
<1>1. \A place \in Slots \X (1..MaxTags) :
         place[1] \in Nat /\ place[2] \in Nat /\ place[2] > 0
  BY SlotsFinite, SettingAssumption DEF Slots
<1>2. \A place \in Held(slot) : place[1] > copySlot \/ (place[1] = copySlot /\ place[2] > copyTag)
  BY <1>1 DEF Held
<1> QED
  BY <1>2 DEF ToCopy

\* The steps of the copy keep the counts.
LEMMA CountCopy ==
    ASSUME TypeInv, CountInv, FilledInv, EndRead \/ Copy
    PROVE  CountInv' /\ FilledInv'
<1>1. /\ TypeOK /\ slot \in Nat /\ total \in Nat /\ lib.nb \in Nat
      /\ copySlot \in Nat /\ copyTag \in Nat /\ copied \in Nat
      /\ \A i \in Slots : i \in Nat /\ lib.tags[i] \in Nat
  BY TypeImpliesTyped, SlotsFinite, SettingAssumption DEF TypeOK, Lib, Slots
<1>2. UNCHANGED <<lib, slot, total>> /\ Held(slot)' = Held(slot) /\ pc' \notin {"read", "driver"}
  BY CopyFrame DEF Held
<1>3. \A place \in Held(slot) : /\ place = <<place[1], place[2]>>
                                 /\ place[1] \in Slots /\ place[1] \in Nat /\ place[2] \in Nat
                                 /\ place[1] < slot /\ place[2] <= lib.tags[place[1]]
  BY <1>1, SettingAssumption DEF Held
<1>4. ASSUME pc' # "copy" PROVE CountInv' /\ FilledInv'
  BY <1>2, <1>4 DEF CountInv, FilledInv
<1>5. CASE EndRead /\ pc' = "copy"
  <2>1. pc = "read" /\ slot >= lib.nb /\ UNCHANGED <<temp, copySlot, copyTag, copied>>
    BY <1>5 DEF EndRead, copying
  <2>2. copySlot = 0 /\ copyTag = 0 /\ copied = 0
    BY <2>1 DEF TypeInv, CopyTyped
  <2>3. ToCopy' = Held(slot)
    <3>1. ToCopy' = ToCopy
      BY <1>2, <2>1 DEF ToCopy
    <3> QED
      BY <2>2, <3>1, AllToCopy
  <2>4. Cardinality(Held(slot)) \in Nat
    BY HeldFinite
  <2> QED
    BY <1>1, <1>2, <1>5, <2>1, <2>2, <2>3, <2>4 DEF CountInv, FilledInv
<1>6. CASE CopyTag
  <2> DEFINE next == <<copySlot, copyTag + 1>>
  <2>1. /\ pc = "copy" /\ copySlot < slot /\ copySlot < lib.nb /\ copyTag < lib.tags[copySlot]
        /\ copyTag' = copyTag + 1 /\ copied' = copied + 1 /\ copySlot' = copySlot
        /\ pc' = pc /\ temp' = temp
    BY <1>6 DEF CopyTag, AtCopy
  <2>2. copySlot \in Slots /\ lib.tags[copySlot] \in 0..MaxTags /\ MaxTags \in Nat
    BY <1>1, <2>1, SlotsFinite, SettingAssumption DEF Slots, TypeOK, Lib
  <2>3. next \in ToCopy
    <3>1. next \in Slots \X (1..MaxTags)
      BY <1>1, <2>1, <2>2
    <3> QED
      BY <1>1, <2>1, <3>1 DEF ToCopy, Held
  <2>4. ToCopy' = ToCopy \ {next}
    <3>1. \A place \in Held(slot) :
             place[1] = copySlot /\ place[2] > copyTag
                <=> place = next \/ (place[1] = copySlot /\ place[2] > copyTag + 1)
      BY <1>1, <1>3
    <3>2. \A place \in Held(slot) : place = next => place[1] = copySlot /\ ~(place[2] > copyTag + 1)
      BY <1>1
    <3> HIDE DEF next
    <3>3. ToCopy' = {place \in Held(slot) : \/ place[1] > copySlot
                                            \/ place[1] = copySlot /\ place[2] > copyTag + 1}
      BY <1>2, <2>1 DEF ToCopy
    <3>4. ~(copySlot > copySlot)
      BY <1>1
    <3> QED
      BY <3>1, <3>2, <3>3, <3>4 DEF ToCopy
  <2>5. Cardinality(ToCopy') = Cardinality(ToCopy) - 1 /\ Cardinality(ToCopy) \in Nat
    BY <2>3, <2>4, ToCopyFinite, FS_RemoveElement
  <2> QED
    BY <1>1, <1>2, <2>1, <2>5 DEF CountInv, FilledInv
<1>7. CASE CopiedSlot
  <2>1. /\ pc = "copy" /\ copySlot < slot /\ copyTag >= lib.tags[copySlot] /\ copySlot \in Slots
        /\ copyTag' = 0 /\ copied' = copied /\ copySlot' = copySlot + 1
        /\ pc' = pc /\ temp' = temp \ {copySlot}
    BY <1>1, <1>7, SlotsFinite DEF CopiedSlot, AtCopy, TypeOK, Slots
  <2>2. ToCopy' = ToCopy
    <3>1. \A place \in Held(slot) :
             \/ place[1] > copySlot + 1
             \/ place[1] = copySlot + 1 /\ place[2] > 0
             <=> \/ place[1] > copySlot
                 \/ place[1] = copySlot /\ place[2] > copyTag
      <4> TAKE place \in Held(slot)
      <4>1. place[2] > 0
        BY SettingAssumption DEF Held
      <4>2. place[1] = copySlot => ~(place[2] > copyTag)
        BY <1>1, <1>3, <2>1
      <4> QED
        BY <1>1, <1>3, <4>1, <4>2
    <3> QED
      BY <1>2, <2>1, <3>1 DEF ToCopy
  <2>3. \A i \in Slots : copySlot + 1 <= i => copySlot <= i /\ i # copySlot
    BY <1>1
  <2>4. copySlot <= slot /\ copySlot + 1 <= slot
    BY <1>1, <2>1
  <2> QED
    BY <1>2, <2>1, <2>2, <2>3, <2>4 DEF CountInv, FilledInv
\* The copy is past the readers that were read, which takes a longer table.
<1>8. CASE CopyUnread /\ pc' = "copy"
  <2>1. pc = "copy" /\ copySlot < lib.nb /\ slot <= copySlot /\ copySlot' = copySlot + 1
    BY <1>1, <1>8 DEF CopyUnread, AtCopy
  <2>2. HangupInPoll
    BY <1>1, <2>1 DEF FilledInv
  <2>3. ~(copySlot' <= slot)
    BY <1>1, <2>1
  <2> QED
    BY <1>2, <2>2, <2>3 DEF CountInv, FilledInv
<1>9. CASE EndCopy
  BY <1>4, <1>9 DEF EndCopy
<1> QED
  BY <1>4, <1>5, <1>6, <1>7, <1>8, <1>9 DEF Copy

LEMMA CountStep == TypeInv /\ CountInv /\ FilledInv /\ [Next]_vars => CountInv' /\ FilledInv'
<1> SUFFICES ASSUME TypeInv, CountInv, FilledInv, [Next]_vars
             PROVE  CountInv' /\ FilledInv'
  OBVIOUS
<1>1. /\ Typed /\ lib \in Lib /\ TypeOK /\ slot \in Nat /\ total \in Nat
      /\ lib.nb \in 0..NumSlots /\ NumSlots \in Nat /\ MaxTags \in Nat /\ lib' \in Lib
      /\ Cardinality(Held(slot)) \in Nat
  <2>1. lib' \in Lib
    BY TypeStep DEF TypeInv, TypeOK
  <2>2. Cardinality(Held(slot)) \in Nat
    BY HeldFinite
  <2> QED
    BY <2>1, <2>2, TypeImpliesTyped, SlotsFinite, SettingAssumption DEF TypeOK, Lib
<1>2. ASSUME UNCHANGED <<pc, slot, total, temp, copySlot, copyTag, copied>>,
             lib'.nb = lib.nb, lib'.tags = lib.tags
      PROVE  CountInv' /\ FilledInv'
  <2>1. Held(slot)' = Held(slot)
    BY <1>2 DEF Held
  <2>2. ToCopy' = ToCopy
    BY <1>2, <2>1 DEF ToCopy
  <2> QED
    BY <1>2, <2>1, <2>2 DEF CountInv, FilledInv
<1>3. ASSUME pc' \notin {"read", "driver", "copy"} PROVE CountInv' /\ FilledInv'
  BY <1>3 DEF CountInv, FilledInv
<1>4. CASE UNCHANGED vars
  BY <1>2, <1>4 DEF vars, poll, copying
<1>5. CASE Machine
  BY <1>2, <1>5, MachineFrame DEF poll, copying
<1>6. CASE ManagerConnect \/ FirstConnect \/ NoDriver \/ HangupWhileFreed \/ Terminate \/ Quit
  BY <1>3, <1>6 DEF ManagerConnect, FirstConnect, NoDriver, HangupWhileFreed, Terminate, Quit
<1>7. CASE ChangeSetting
  BY <1>2, <1>7 DEF ChangeSetting, poll, copying
<1>8. CASE BeginList
  <2>1. slot' = 0 /\ total' = 0 /\ temp' = {} /\ pc' \notin {"driver", "copy"}
    BY <1>8 DEF BeginList
  <2>2. Held(slot)' = {}
    <3>1. \A i \in Slots : ~(i < 0)
      BY <1>1 DEF Slots
    <3> QED
      BY <2>1, <3>1 DEF Held
  <2>3. Cardinality(Held(slot))' = 0
    BY <2>2, FS_EmptySet
  <2>4. lib'.nb \in Nat
    BY <1>1 DEF Lib
  <2>5. \A i \in Slots : ~(i < 0)
    BY <1>1 DEF Slots
  <2> QED
    BY <2>1, <2>3, <2>4, <2>5 DEF CountInv, FilledInv
\* The step past a slot that holds n tags in the end.
<1>9. ASSUME NEW n \in 0..MaxTags, pc \in {"read", "driver"}, slot \in Slots, slot' = slot + 1, pc' = "read",
             \A i \in Slots : lib'.tags[i] = IF i = slot THEN n ELSE lib.tags[i],
             total' = total + n, lib'.nb = lib.nb, ~HangupInPoll => slot < lib.nb,
             temp \subseteq temp', n > 0 => slot \in temp'
      PROVE  CountInv' /\ FilledInv'
  <2>1. Cardinality(Held(slot))' = Cardinality(Held(slot)) + n
    BY <1>1, <1>9, HeldGrows
  <2>2. \A i \in Slots : i < slot + 1 => i < slot \/ i = slot
    BY <1>1 DEF Slots
  <2>3. CountInv'
    BY <1>1, <1>9, <2>1, <2>2 DEF CountInv
  <2>4. FilledInv'
    BY <1>1, <1>9, <2>1 DEF FilledInv
  <2> QED
    BY <2>3, <2>4
<1>10. CASE SkipSlot
  <2>1. pc = "read" /\ slot < lib.nb /\ lib' = [lib EXCEPT !.tags[slot] = 0] /\ slot' = slot + 1
        /\ total' = total /\ temp' = temp /\ pc' = "read"
    BY <1>10 DEF SkipSlot, AtSlot
  <2>2. /\ lib'.nb = lib.nb
        /\ \A i \in Slots : lib'.tags[i] = IF i = slot THEN 0 ELSE lib.tags[i]
    BY <1>1, <2>1, CountTable
  <2>3. slot \in Slots /\ total + 0 = total /\ 0 \in 0..MaxTags
    BY <1>1, <2>1 DEF Slots
  <2> QED
    BY <1>9, <2>1, <2>2, <2>3
<1>11. CASE TestSlot
  <2>1. pc = "read" /\ slot < lib.nb /\ lib' = [lib EXCEPT !.tags[slot] = 0] /\ slot' = slot
        /\ total' = total /\ temp' = temp /\ pc' = "driver"
    BY <1>11 DEF TestSlot, AtSlot
  <2>2. /\ lib'.nb = lib.nb
        /\ \A i \in Slots : lib'.tags[i] = IF i = slot THEN 0 ELSE lib.tags[i]
    BY <1>1, <2>1, CountTable
  <2>3. \A i \in Slots : i < slot => lib'.tags[i] = lib.tags[i]
    BY <1>1, <2>2 DEF Slots
  <2>4. Held(slot)' = Held(slot)
    BY <2>1, <2>3 DEF Held
  <2> QED
    BY <2>1, <2>2, <2>3, <2>4 DEF CountInv, FilledInv
<1>12. CASE ReadSlot
  <2>1. PICK n \in 0..MaxTags : lib' = [lib EXCEPT !.tags[slot] = n] /\ total' = total + n
    BY <1>12 DEF ReadSlot
  <2>2. pc = "driver" /\ slot' = slot + 1 /\ temp' = temp \union {slot} /\ pc' = "read"
    BY <1>12 DEF ReadSlot, AtDriver
  <2>3. /\ lib'.nb = lib.nb
        /\ \A i \in Slots : lib'.tags[i] = IF i = slot THEN n ELSE lib.tags[i]
    BY <1>1, <2>1, CountTable
  <2>4. slot \in Slots
    BY <1>1, <2>2 DEF TypeInv, Slots
  <2> QED
    BY <1>9, <2>1, <2>2, <2>3, <2>4 DEF FilledInv
<1>13. CASE ReadSlotFails
  <2>1. pc = "driver" /\ slot' = slot + 1 /\ temp' = temp /\ total' = total
        /\ lib' = Reset(lib, {slot}) /\ pc' = "read"
    BY <1>13 DEF ReadSlotFails, AtDriver
  <2>2. /\ lib'.nb = lib.nb
        /\ \A i \in Slots : lib'.tags[i] = IF i = slot THEN 0 ELSE lib.tags[i]
    BY <1>1, <2>1, ResetTable
  <2>3. slot \in Slots /\ total + 0 = total /\ 0 \in 0..MaxTags
    BY <1>1, <2>1 DEF TypeInv, Slots
  <2>4. (~HangupInPoll => slot < lib.nb) /\ temp \subseteq temp' /\ ~(0 > 0) /\ total' = total + 0
    BY <2>1, <2>3 DEF FilledInv
  <2> QED
    BY <1>9, <2>1, <2>2, <2>3, <2>4
<1>14. CASE Hangup
  <2>1. Leads(lib, lib') /\ UNCHANGED poll
    BY <1>14, HangupLeads
  <2>2. CASE pc \in {"read", "driver"}
    <3>1. HangupInPoll
      BY <1>14, <2>2 DEF Hangup
    <3>2. Cardinality(Held(slot))' \in Nat /\ Cardinality(Held(slot))' <= Cardinality(Held(slot))
      BY <1>1, <2>1, HeldShrinks DEF Leads, poll
    <3>3. \A i \in Slots : lib'.tags[i] > 0 => lib.tags[i] > 0
      BY <1>1, <2>1 DEF Leads
    <3> QED
      BY <1>1, <2>1, <2>2, <3>1, <3>2, <3>3 DEF CountInv, FilledInv, poll
  <2>3. CASE pc = "copy"
    <3>1. HangupInPoll /\ UNCHANGED <<pc, slot, total, temp, copySlot, copyTag, copied>>
      BY <1>14, <2>1, <2>3 DEF Hangup, poll, copying
    <3>2. \A i \in Slots : lib'.tags[i] \in {0, lib.tags[i]} /\ lib.tags[i] \in Nat
      BY <1>1, <2>1 DEF Leads, Lib
    <3>3. ToCopy' \subseteq ToCopy
      <4>1. \A place \in Slots \X (1..MaxTags) :
               place[1] \in Slots /\ place[2] \in Nat /\ place[2] > 0
        BY <1>1
      <4>2. Held(slot)' \subseteq Held(slot)
        BY <3>1, <3>2, <4>1 DEF Held
      <4> QED
        BY <3>1, <4>2 DEF ToCopy
    <3>4. Cardinality(ToCopy') <= Cardinality(ToCopy) /\ Cardinality(ToCopy') \in Nat
          /\ Cardinality(ToCopy) \in Nat
      BY <3>3, ToCopyFinite, FS_Subset, FS_CardinalityType
    <3>5. \A i \in Slots : lib'.tags[i] > 0 => lib.tags[i] > 0
      BY <3>2
    <3>6. copied \in Nat
      BY <1>1, SettingAssumption DEF TypeOK
    <3> QED
      BY <1>1, <2>3, <3>1, <3>4, <3>5, <3>6 DEF CountInv, FilledInv
  <2>4. CASE pc \notin {"read", "driver", "copy"}
    BY <1>3, <2>1, <2>4 DEF poll
  <2> QED
    BY <2>2, <2>3, <2>4
<1>15. CASE EndRead \/ Copy
  BY <1>15, CountCopy
<1> QED
  BY <1>4, <1>5, <1>6, <1>7, <1>8, <1>10, <1>11, <1>12, <1>13, <1>14, <1>15 DEF Next, Poll, Signal

LEMMA CountInvariant == Spec => []CountInv /\ []FilledInv
<1>1. Init => CountInv /\ FilledInv
  BY DEF Init, CountInv, FilledInv
<1> QED
  BY <1>1, CountStep, TypeInvariant, PTL DEF Spec

\* However SIGHUP changes the table between the readers, before or during the
\* copy, the tags that are copied from the readers that were read fit into the
\* list that was allocated for their count (tagReader.c:700-725).  (The copy
\* may not stay with them: FreesOnlyInitialised.)
THEOREM CopiesAlwaysFit == Spec => []CopiesFit
<1>1. TypeInv /\ CountInv => CopiesFit
  <2> SUFFICES ASSUME TypeInv, CountInv, pc = "copy", copySlot <= slot
               PROVE  copied <= total
    BY DEF CopiesFit
  <2>1. copied + Cardinality(ToCopy) <= total
    BY DEF CountInv
  <2>2. copied \in Nat /\ total \in Nat /\ Cardinality(ToCopy) \in Nat
    BY ToCopyFinite, SlotsFinite, SettingAssumption DEF TypeInv, TypeOK
  <2> QED
    BY <2>1, <2>2
<1> QED
  BY <1>1, TypeInvariant, CountInvariant, PTL

\* Every tag that is copied from a reader that was read comes from an array
\* that was allocated in this poll and not freed (tagReader.c:709-722).
THEOREM CopiesAlwaysBacked == Spec => []CopiesAreBacked
<1>1. TypeInv /\ CountInv => CopiesAreBacked
  <2> SUFFICES ASSUME TypeInv, CountInv, AtCopy, copySlot < slot, copyTag < lib.tags[copySlot]
               PROVE  copySlot \in temp
    BY DEF CopiesAreBacked
  <2>1. /\ pc = "copy" /\ copySlot \in Slots /\ copySlot <= slot /\ copySlot <= copySlot
        /\ copyTag \in Nat /\ lib.tags[copySlot] \in Nat
    <3>1. copySlot \in Slots
      BY SlotsFinite DEF TypeInv, TypeOK, Lib, AtCopy, Slots
    <3> QED
      BY <3>1, SlotsFinite, SettingAssumption DEF TypeInv, TypeOK, Lib, AtCopy
  <2>2. lib.tags[copySlot] > 0
    BY <2>1
  <2> QED
    BY <2>1, <2>2 DEF CountInv
<1> QED
  BY <1>1, TypeInvariant, CountInvariant, PTL

\* Without a SIGHUP while the readers are read and copied, the copies fill the
\* list (tagReader.c:700-725).
THEOREM ListAlwaysFilled == Spec => []ListIsFilled
<1>1. TypeInv /\ FilledInv => ListIsFilled
  <2> SUFFICES ASSUME TypeInv, FilledInv, pc = "copy", copySlot >= lib.nb, ~HangupInPoll
               PROVE  copied = total
    BY DEF ListIsFilled
  <2>1. /\ copySlot \in Nat /\ slot \in Nat /\ lib.nb \in Nat /\ copied \in Nat /\ total \in Nat
    BY SlotsFinite, SettingAssumption DEF TypeInv, TypeOK, Lib
  <2>2. copySlot = slot /\ copied + Cardinality(ToCopy) = total
    BY <2>1 DEF FilledInv
  <2>3. ToCopy = {}
    <3>1. \A place \in Held(slot) : place[1] \in Nat /\ place[1] < slot
      BY SlotsFinite DEF Held, Slots
    <3> QED
      BY <2>1, <2>2, <3>1 DEF ToCopy
  <2> QED
    BY <2>1, <2>2, <2>3, FS_EmptySet
<1> QED
  BY <1>1, TypeInvariant, CountInvariant, PTL
=============================================================================
