------------------------- MODULE AdlMonitor_proofs -------------------------
(***************************************************************************)
(* Proofs about AdlMonitor, for any number of cards and of failing calls,  *)
(* any settings, and any order in which the driver names the cards: the    *)
(* clocks of a card are put back, and shown as they were set.              *)
(***************************************************************************)
EXTENDS AdlMonitor, SequenceTheorems, FiniteSetTheorems, LoopTheorems

CardStates == [levels : Levels, fan : Nat, user : BOOLEAN, power : Int]

Adls ==
    [has_adl : BOOLEAN, card : Cards, managed : BOOLEAN, DefPerfLev : Levels,
     has_fanspeed : BOOLEAN, twin : {NoTwin} \cup Device, DefFanSpeed : Nat]

AdlTypes ==
    /\ layout \in Layouts /\ settings \in AdlSettings
    /\ card \in [Cards -> CardStates] /\ atStart \in [Cards -> CardStates]
    /\ adlPc \in {"down", "adapters", "devices", "set"}
    /\ adapters \in Seq(Cards) /\ Len(adapters) <= nDevs
    /\ gpu \in 0 .. Len(adapters) /\ adlStep \in 0 .. 4 * nDevs
    /\ gpus \in [Device -> Adls] /\ adl_active \in BOOLEAN /\ clean \in BOOLEAN
    /\ failures \in 0 .. MaxFailures
    /\ troubled \in SUBSET Cards /\ spoilt \in SUBSET Cards

-----------------------------------------------------------------------------
(* The parts of the inductive invariant.                                   *)

\* Nothing is set before the devices are known.
Untouched ==
    /\ adlPc \in {"adapters", "devices"} => card = atStart /\ adlStep = 0
    /\ adlPc = "adapters" => gpu = 0

ActiveIfAny == adlPc # "down" /\ ~adl_active => \A i \in Device : ~gpus[i].has_adl

\* What is kept to be put back is what the card had.
KnowsLevels ==
    \A i \in Device : gpus[i].has_adl /\ gpus[i].card \notin troubled =>
        gpus[i].DefPerfLev = atStart[gpus[i].card].levels

SavedOrdered ==
    \A i \in Device : gpus[i].has_adl /\ gpus[i].card \notin spoilt =>
        gpus[i].DefPerfLev = Garbage \/ Ordered(gpus[i].DefPerfLev)

\* A card that was changed has a device that knows of it.
OnlyManaged ==
    adlPc = "set" => \A c \in Cards \ troubled :
        (\A i \in Device : ~Manages(i, c)) => card[c] = atStart[c]

NoTwinsYet == adlPc \in {"adapters", "devices"} => \A i \in Device : gpus[i].twin = NoTwin

TwinsHaveFans ==
    \A i \in Device : ~gpus[i].has_fanspeed /\ gpus[i].twin # NoTwin =>
        gpus[gpus[i].twin].has_fanspeed

\* Nothing has failed, and the driver names the cards as OpenCL does.
Smooth == troubled = {} /\ Plain

\* Device i belongs to the i-th card of OpenCL, and everything of it is known.
IsFound(i) ==
    LET c == layout.opencl[i + 1] IN
    gpus[i].has_adl /\ gpus[i].card = c /\ gpus[i].has_fanspeed = layout.fan[c]

FoundInOrder ==
    adlPc \in {"devices", "set"} /\ Smooth =>
        /\ adapters = layout.opencl
        /\ adlPc = "set" => gpu = nDevs
        /\ gpu > 0 => adl_active
        /\ \A i \in Device : i < gpu => IsFound(i)

\* The k-th setting of device i has had its turn.
Had(i, k) == adlStep > 4 * i + k

EngineSet(i, c) ==
    card[c].levels[Top].engine =
        IF settings[i].core # 0 /\ Had(i, 0) THEN settings[i].core ELSE atStart[c].levels[Top].engine
MemorySet(i, c) ==
    card[c].levels[Top].memory =
        IF settings[i].memory # 0 /\ Had(i, 1) THEN settings[i].memory ELSE atStart[c].levels[Top].memory
PowerSet(i, c) ==
    card[c].power =
        IF settings[i].power \in PowerRange /\ Had(i, 2) THEN settings[i].power ELSE atStart[c].power
FanSet(i, c) ==
    layout.fan[c] =>
        card[c].fan = IF settings[i].fan # 0 /\ Had(i, 3) THEN settings[i].fan ELSE atStart[c].fan

SetSoFar ==
    adlPc = "set" /\ Smooth =>
        \A i \in Device : LET c == layout.opencl[i + 1] IN
            EngineSet(i, c) /\ MemorySet(i, c) /\ PowerSet(i, c) /\ FanSet(i, c)

AdlIInv ==
    /\ AdlTypes /\ LevelsOrdered /\ PutBack
    /\ Untouched /\ ActiveIfAny /\ KnowsLevels /\ SavedOrdered /\ OnlyManaged
    /\ NoTwinsYet /\ TwinsHaveFans /\ FoundInOrder /\ SetSoFar

-----------------------------------------------------------------------------
(* Constants and types.                                                    *)

LEMMA DeviceFacts ==
    ASSUME AdlTypes
    PROVE  /\ nDevs \in Nat
           /\ \A i \in Device : /\ i \in Nat /\ i < nDevs /\ i + 1 \in DOMAIN layout.opencl
                                /\ layout.opencl[i + 1] \in Cards
                                /\ settings[i].core \in Nat /\ settings[i].memory \in Nat
                                /\ settings[i].fan \in Nat
           /\ layout.fan \in [Cards -> BOOLEAN] /\ layout.id \in [Cards -> Nat]
           /\ layout.adapters \in Seq(Cards) /\ layout.opencl \in Seq(Cards)
<1>1. layout \in Layouts /\ settings \in AdlSettings  BY DEF AdlTypes
<1>2. layout.opencl \in Seq(Cards) /\ layout.adapters \in Seq(Cards)
      BY <1>1, AdlAssumption
<1>3. layout.fan \in [Cards -> BOOLEAN] /\ layout.id \in [Cards -> Nat]
      BY <1>1, AdlAssumption
<1>4. nDevs \in Nat  BY <1>2, LenProperties DEF nDevs
<1>5. ASSUME NEW i \in Device
      PROVE  /\ i \in Nat /\ i < nDevs /\ i + 1 \in DOMAIN layout.opencl
             /\ layout.opencl[i + 1] \in Cards
  <2>1. i \in Nat /\ i < nDevs /\ i + 1 \in 1 .. Len(layout.opencl)
        BY <1>4 DEF Device, nDevs
  <2> QED BY <1>2, <2>1, LenProperties, ElementOfSeq
<1>6. ASSUME NEW i \in Device
      PROVE  settings[i].core \in Nat /\ settings[i].memory \in Nat /\ settings[i].fan \in Nat
      BY <1>1, AdlAssumption DEF Device, nDevs
<1> QED BY <1>2, <1>3, <1>4, <1>5, <1>6

LEMMA AdapterFacts ==
    ASSUME AdlTypes, gpu < Len(adapters)
    PROVE  /\ gpu \in Device /\ gpu + 1 \in 0 .. Len(adapters)
           /\ adapters[gpu + 1] \in Cards /\ Len(adapters) \in Nat
<1>1. nDevs \in Nat  BY DeviceFacts
<1>2. Len(adapters) \in Nat /\ adapters \in Seq(Cards) /\ Len(adapters) <= nDevs
      BY LenProperties DEF AdlTypes
<1>3. gpu \in 0 .. Len(adapters)  BY DEF AdlTypes
<1>4. gpu + 1 \in 1 .. Len(adapters)  BY <1>2, <1>3
<1> QED BY <1>1, <1>2, <1>3, <1>4, ElementOfSeq DEF Device

\* The number of failures keeps its bound.
LEMMA FailingFacts ==
    ASSUME NEW calls, IsFiniteSet(calls), failures \in 0 .. MaxFailures,
           NEW failing \in Failing(calls)
    PROVE  failures + Cardinality(failing) \in 0 .. MaxFailures /\ failing \subseteq calls
<1>1. failing \in SUBSET calls /\ failures + Cardinality(failing) <= MaxFailures
      BY DEF Failing
<1>2. Cardinality(failing) \in Nat
      BY <1>1, FS_Subset, FS_CardinalityType
<1> QED BY <1>1, <1>2, AdlAssumption

LEMMA TroubleFacts ==
    ASSUME NEW calls, IsFiniteSet(calls), AdlTypes, NEW cards \in SUBSET Cards,
           NEW failing \in Failing(calls), Trouble(failing, cards)
    PROVE  /\ failures' \in 0 .. MaxFailures
           /\ troubled \subseteq troubled' /\ troubled' \in SUBSET Cards
           /\ troubled' \subseteq troubled \cup cards
           /\ failing # {} => cards \subseteq troubled'
<1>1. failures' \in 0 .. MaxFailures
      BY FailingFacts DEF AdlTypes, Trouble
<1>2. troubled \in SUBSET Cards  BY DEF AdlTypes
<1> QED BY <1>1, <1>2 DEF Trouble

LEMMA FewFinite ==
    /\ \A a : IsFiniteSet({a})
    /\ \A a, b : IsFiniteSet({a, b})
    /\ \A a, b, c : IsFiniteSet({a, b, c})
    /\ \A a, b, c, d, e, f : IsFiniteSet({a, b, c, d, e, f})
<1>1. \A a : IsFiniteSet({a})  BY FS_Singleton
<1>2. ASSUME NEW a, NEW b  PROVE IsFiniteSet({a, b})
  <2>1. IsFiniteSet({a} \cup {b})  BY <1>1, FS_Union
  <2>2. {a, b} = {a} \cup {b}  OBVIOUS
  <2> QED BY <2>1, <2>2
<1>3. ASSUME NEW a, NEW b, NEW c  PROVE IsFiniteSet({a, b, c})
  <2>1. IsFiniteSet({a, b} \cup {c})  BY <1>1, <1>2, FS_Union
  <2>2. {a, b, c} = {a, b} \cup {c}  OBVIOUS
  <2> QED BY <2>1, <2>2
<1>4. ASSUME NEW a, NEW b, NEW c, NEW d, NEW e, NEW f
      PROVE  IsFiniteSet({a, b, c, d, e, f})
  <2>1. IsFiniteSet({a, b, c} \cup {d, e, f})  BY <1>3, FS_Union
  <2>2. {a, b, c, d, e, f} = {a, b, c} \cup {d, e, f}  OBVIOUS
  <2> QED BY <2>1, <2>2
<1> QED BY <1>1, <1>2, <1>3, <1>4

\* Setting the top level keeps the others below it.
ClockedRight(levels, clock, value, q) ==
    /\ q \in Levels
    /\ q[Top].engine = IF clock = "engine" THEN value ELSE levels[Top].engine
    /\ q[Top].memory = IF clock = "memory" THEN value ELSE levels[Top].memory
    /\ Ordered(levels) => Ordered(q)

LEMMA ClockedFacts ==
    ASSUME NEW levels \in Levels, NEW value \in Nat, NEW clock \in {"engine", "memory"}
    PROVE  ClockedRight(levels, clock, value, Clocked(levels, clock, value))
<1> DEFINE q == Clocked(levels, clock, value)
<1>1. Top \in Nat \ {0} /\ Top \in 1 .. Top  BY AdlAssumption
<1>2. \A l \in 1 .. Top : levels[l] \in [engine : Nat, memory : Nat]
      BY DEF Levels
<1>3. CASE clock = "engine"
  <2>1. ASSUME NEW l \in 1 .. Top
        PROVE  /\ q[l] \in [engine : Nat, memory : Nat]
               /\ q[l].engine = IF l = Top \/ levels[l].engine > value THEN value
                                ELSE levels[l].engine
               /\ q[l].memory = levels[l].memory
        BY <1>2, <1>3 DEF Clocked
  <2>2. q \in Levels  BY <2>1 DEF Levels, Clocked
  <2> HIDE DEF q
  <2>3. Ordered(levels) => Ordered(q)
        BY <1>1, <1>2, <2>1 DEF Ordered
  <2> QED BY <1>1, <1>3, <2>1, <2>2, <2>3 DEF ClockedRight, q
<1>4. CASE clock = "memory"
  <2>1. ASSUME NEW l \in 1 .. Top
        PROVE  /\ q[l] \in [engine : Nat, memory : Nat]
               /\ q[l].memory = IF l = Top \/ levels[l].memory > value THEN value
                                ELSE levels[l].memory
               /\ q[l].engine = levels[l].engine
        BY <1>2, <1>4 DEF Clocked
  <2>2. q \in Levels  BY <2>1 DEF Levels, Clocked
  <2> HIDE DEF q
  <2>3. Ordered(levels) => Ordered(q)
        BY <1>1, <1>2, <2>1 DEF Ordered
  <2> QED BY <1>1, <1>4, <2>1, <2>2, <2>3 DEF ClockedRight, q
<1> QED BY <1>3, <1>4

-----------------------------------------------------------------------------
(* The cards that the driver names.                                        *)

FoundStates == [last : Int, cards : Seq(Cards)]

\* What adapter k makes of those found before.
FoundNext(failing, k, p) ==
    LET c == layout.adapters[k] IN
    IF k \in failing \/ layout.id[c] = p.last THEN p
    ELSE [last |-> layout.id[c], cards |-> Append(p.cards, c)]

Founds(failing, f) ==
    f = [k \in 0 .. Len(layout.adapters) |->
           IF k = 0 THEN [last |-> -1, cards |-> <<>>] ELSE FoundNext(failing, k, f[k - 1])]

FoundIs(failing, f) ==
    /\ Len(layout.adapters) \in Nat
    /\ f[0] = [last |-> -1, cards |-> <<>>]
    /\ \A k \in 0 .. Len(layout.adapters) : f[k] \in FoundStates
    /\ \A k \in 1 .. Len(layout.adapters) : f[k] = FoundNext(failing, k, f[k - 1])
    /\ FoundCards(failing) = f[Len(layout.adapters)].cards

LEMMA FoundNextType ==
    ASSUME AdlTypes, NEW failing, NEW k \in 1 .. Len(layout.adapters), NEW p \in FoundStates
    PROVE  FoundNext(failing, k, p) \in FoundStates
<1>1. layout.adapters[k] \in Cards
      BY DeviceFacts, ElementOfSeq, LenProperties
<1>2. layout.id[layout.adapters[k]] \in Int
      BY <1>1, DeviceFacts
<1>3. Append(p.cards, layout.adapters[k]) \in Seq(Cards)
      BY <1>1, AppendProperties DEF FoundStates
<1> QED BY <1>2, <1>3 DEF FoundNext, FoundStates

LEMMA FoundExists ==
    ASSUME AdlTypes, NEW failing
    PROVE  \E f : FoundIs(failing, f)
<1> DEFINE n == Len(layout.adapters)
           G == [k \in 1 .. n |-> [p \in FoundStates |-> FoundNext(failing, k, p)]]
           a == [last |-> -1, cards |-> <<>>]
           found[k \in 0 .. n] ==
              IF k = 0 THEN [last |-> -1, cards |-> <<>>]
              ELSE LET p == found[k - 1]
                       c == layout.adapters[k]
                   IN  IF k \in failing \/ layout.id[c] = p.last THEN p
                       ELSE [last |-> layout.id[c], cards |-> Append(p.cards, c)]
<1>1. n \in Nat  BY DeviceFacts, LenProperties
<1>2. a \in FoundStates
  <2>1. <<>> \in Seq(Cards)  BY EmptySeq
  <2> QED BY <2>1 DEF FoundStates
<1>3. G \in [1 .. n -> [FoundStates -> FoundStates]]
      BY FoundNextType
<1>4. PICK g : IsLoop(g, n, FoundStates, a, G)
  <2> HIDE DEF n, G, a
  <2> QED BY <1>1, <1>2, <1>3, LoopExists
<1>5. Founds(failing, g)
  <2>1. g \in [0 .. n -> FoundStates] /\ g[0] = a  BY <1>4 DEF IsLoop
  <2>2. ASSUME NEW k \in 0 .. n, k # 0  PROVE g[k] = FoundNext(failing, k, g[k - 1])
    <3>1. k \in 1 .. n /\ k - 1 \in 0 .. n  BY <1>1, <2>2
    <3>2. g[k] = G[k][g[k - 1]]  BY <1>4, <3>1 DEF IsLoop
    <3>3. g[k - 1] \in FoundStates  BY <2>1, <3>1
    <3> QED BY <3>1, <3>2, <3>3
  <2> HIDE DEF G
  <2>3. \A k \in 0 .. n : g[k] = IF k = 0 THEN [last |-> -1, cards |-> <<>>]
                                 ELSE FoundNext(failing, k, g[k - 1])
        BY <2>1, <2>2
  <2>4. g = [k \in 0 .. n |-> g[k]]  BY <2>1
  <2> QED BY <2>3, <2>4 DEF Founds
<1>6. Founds(failing, found)
      BY <1>5 DEF Founds, FoundNext
<1>7. FoundCards(failing) = found[n].cards
      BY DEF FoundCards
<1> HIDE DEF found
<1>8. found[0] = a
      BY <1>1, <1>6 DEF Founds
<1>9. ASSUME NEW k \in 1 .. n  PROVE found[k] = FoundNext(failing, k, found[k - 1])
  <2>1. k \in 0 .. n /\ k # 0  BY <1>1
  <2> QED BY <1>6, <2>1 DEF Founds
<1>10. \A k \in 0 .. n : found[k] \in FoundStates
  <2> DEFINE S == {k \in 0 .. n : found[k] \in FoundStates}
  <2>1. 0 \in S  BY <1>1, <1>2, <1>8
  <2>2. ASSUME NEW k \in 0 .. n, k < n, k \in S  PROVE k + 1 \in S
    <3>1. k + 1 \in 1 .. n /\ k + 1 - 1 = k /\ k + 1 \in 0 .. n  BY <1>1, <2>2
    <3>2. found[k + 1] = FoundNext(failing, k + 1, found[k])  BY <1>9, <3>1
    <3> QED BY <2>2, <3>1, <3>2, FoundNextType
  <2>3. \A k \in 0 .. n : k \in S
    <3> HIDE DEF S, n
    <3> QED BY <1>1, <2>1, <2>2, InductionUpTo
  <2> QED BY <2>3
<1>11. FoundIs(failing, found)
       BY <1>1, <1>7, <1>8, <1>9, <1>10 DEF FoundIs
<1> QED BY <1>11

LEMMA FoundType ==
    ASSUME AdlTypes, NEW failing
    PROVE  FoundCards(failing) \in Seq(Cards)
<1>1. PICK f : FoundIs(failing, f)  BY FoundExists
<1>2. Len(layout.adapters) \in 0 .. Len(layout.adapters)  BY <1>1 DEF FoundIs
<1> QED BY <1>1, <1>2 DEF FoundIs, FoundStates

\* place tells the card of OpenCL that an adapter belongs to.
InPlace(place) ==
    /\ place \in [DOMAIN layout.adapters -> DOMAIN layout.opencl]
    /\ \A k \in DOMAIN place : layout.adapters[k] = layout.opencl[place[k]]
    /\ \A k, l \in DOMAIN place : k <= l => place[k] <= place[l]
    /\ \A i \in DOMAIN layout.opencl : \E k \in DOMAIN place : place[k] = i

\* The places go up one by one from the first card to the last.
OneByOne(place, n) ==
    /\ n = 0 => nDevs = 0
    /\ \A k \in 1 .. n : place[k] \in 1 .. nDevs
    /\ n > 0 => place[1] = 1 /\ place[n] = nDevs
    /\ \A k \in 1 .. n - 1 : place[k + 1] = place[k] \/ place[k + 1] = place[k] + 1

LEMMA PlacesFollow ==
    ASSUME AdlTypes, NEW place, InPlace(place)
    PROVE  OneByOne(place, Len(layout.adapters))
<1> DEFINE n == Len(layout.adapters)
<1>1. n \in Nat /\ nDevs \in Nat  BY DeviceFacts, LenProperties
<1>2. DOMAIN layout.adapters = 1 .. n /\ DOMAIN layout.opencl = 1 .. nDevs
      BY DeviceFacts, LenProperties DEF nDevs
<1>3. /\ place \in [1 .. n -> 1 .. nDevs]
      /\ \A k, l \in 1 .. n : k <= l => place[k] <= place[l]
      /\ \A i \in 1 .. nDevs : \E k \in 1 .. n : place[k] = i
      BY <1>2 DEF InPlace
<1> HIDE DEF n
<1>4. n = 0 => nDevs = 0
  <2> SUFFICES ASSUME n = 0, nDevs # 0 PROVE FALSE
      OBVIOUS
  <2>1. 1 \in 1 .. nDevs  BY <1>1
  <2> QED BY <1>3, <2>1
<1>5. \A k \in 1 .. n : place[k] \in 1 .. nDevs  BY <1>3
<1>6. ASSUME n > 0  PROVE place[1] = 1 /\ place[n] = nDevs
  <2>1. 1 \in 1 .. n /\ n \in 1 .. n  BY <1>1, <1>6
  <2>2. 1 \in 1 .. nDevs /\ nDevs \in 1 .. nDevs  BY <1>1, <1>5, <2>1
  <2>3. PICK k \in 1 .. n : place[k] = 1  BY <1>3, <2>2
  <2>4. PICK l \in 1 .. n : place[l] = nDevs  BY <1>3, <2>2
  <2>5. place[1] <= place[k] /\ place[l] <= place[n]  BY <1>1, <1>3, <2>1
  <2> QED BY <1>1, <1>5, <2>1, <2>3, <2>4, <2>5
<1>7. ASSUME NEW k \in 1 .. n - 1
      PROVE  place[k + 1] = place[k] \/ place[k + 1] = place[k] + 1
  <2>1. k \in 1 .. n /\ k + 1 \in 1 .. n  BY <1>1
  <2>2. place[k] <= place[k + 1] /\ place[k] \in 1 .. nDevs /\ place[k + 1] \in 1 .. nDevs
        BY <1>3, <1>5, <2>1
  <2> SUFFICES ASSUME place[k + 1] > place[k] + 1 PROVE FALSE
      BY <1>1, <2>2
  <2>3. place[k] + 1 \in 1 .. nDevs  BY <1>1, <2>2
  <2>4. PICK m \in 1 .. n : place[m] = place[k] + 1  BY <1>3, <2>3
  <2>5. CASE m <= k
    <3>1. place[m] <= place[k]  BY <1>3, <2>1, <2>5
    <3> QED BY <2>2, <2>4, <3>1
  <2>6. CASE k + 1 <= m
    <3>1. place[k + 1] <= place[m]  BY <1>3, <2>1, <2>6
    <3> QED BY <2>2, <2>4, <3>1
  <2> QED BY <1>1, <2>1, <2>5, <2>6
<1> QED BY <1>4, <1>5, <1>6, <1>7 DEF OneByOne, n

\* After adapter k the cards up to its place are found.
UpToPlace(f, place, k) ==
    /\ f[k].last = layout.id[layout.opencl[place[k]]]
    /\ Len(f[k].cards) = place[k]
    /\ \A i \in 1 .. place[k] : f[k].cards[i] = layout.opencl[i]

\* Card c is found behind those of p.
LEMMA OneMoreFound ==
    ASSUME NEW p \in FoundStates, NEW c \in Cards
    PROVE  /\ Len(Append(p.cards, c)) = Len(p.cards) + 1 /\ Len(p.cards) \in Nat
           /\ Append(p.cards, c)[Len(p.cards) + 1] = c
           /\ \A i \in 1 .. Len(p.cards) : Append(p.cards, c)[i] = p.cards[i]
<1>1. p.cards \in Seq(Cards)  BY DEF FoundStates
<1> QED BY <1>1, AppendProperties, LenProperties

LEMMA FoundPlain ==
    ASSUME AdlTypes, Plain
    PROVE  FoundCards({}) = layout.opencl
<1> DEFINE n == Len(layout.adapters)
<1>1. PICK place : InPlace(place)
      BY DEF Plain, InPlace
<1>2. OneByOne(place, n)  BY <1>1, PlacesFollow
<1>3. PICK f : FoundIs({}, f)  BY FoundExists
<1>4. n \in Nat /\ nDevs \in Nat /\ DOMAIN layout.adapters = 1 .. n
      /\ DOMAIN layout.opencl = 1 .. nDevs
      BY DeviceFacts, LenProperties DEF nDevs
<1>5. ASSUME NEW k \in 1 .. n
      PROVE  /\ place[k] \in 1 .. nDevs /\ layout.adapters[k] = layout.opencl[place[k]]
             /\ layout.opencl[place[k]] \in Cards
             /\ layout.id[layout.opencl[place[k]]] \in Nat
  <2>1. place[k] \in 1 .. nDevs  BY <1>2 DEF OneByOne
  <2>2. place \in [1 .. n -> 1 .. nDevs]  BY <1>1, <1>4 DEF InPlace
  <2>3. layout.adapters[k] = layout.opencl[place[k]]  BY <1>1, <2>2 DEF InPlace
  <2>4. layout.opencl[place[k]] \in Cards
        BY <2>1, DeviceFacts, ElementOfSeq DEF nDevs
  <2> QED BY <2>1, <2>3, <2>4, DeviceFacts
<1>6. ASSUME NEW i \in 1 .. nDevs, NEW j \in 1 .. nDevs,
             layout.id[layout.opencl[i]] = layout.id[layout.opencl[j]]
      PROVE  i = j
      BY <1>4, <1>6 DEF Plain
<1>7. /\ f[0] = [last |-> -1, cards |-> <<>>]
      /\ \A k \in 0 .. n : f[k] \in FoundStates
      /\ \A k \in 1 .. n : f[k] = FoundNext({}, k, f[k - 1])
      /\ FoundCards({}) = f[n].cards
      BY <1>3 DEF FoundIs
<1> HIDE DEF n
<1> DEFINE S == {k \in 0 .. n : k = 0 \/ UpToPlace(f, place, k)}
<1>8. 0 \in S  BY <1>4
<1>9. ASSUME NEW k \in 0 .. n, k < n, k \in S  PROVE k + 1 \in S
  <2> DEFINE c == layout.opencl[place[k + 1]]
  <2>1. k + 1 \in 1 .. n /\ k + 1 - 1 = k /\ k + 1 \in 0 .. n  BY <1>4, <1>9
  <2>2. c \in Cards /\ layout.adapters[k + 1] = c /\ layout.id[c] \in Nat
        /\ place[k + 1] \in 1 .. nDevs
        BY <1>5, <2>1
  <2>3. f[k] \in FoundStates  BY <1>7
  <2>4. f[k + 1] = IF layout.id[c] = f[k].last THEN f[k]
                   ELSE [last |-> layout.id[c], cards |-> Append(f[k].cards, c)]
    <3>1. f[k + 1] = FoundNext({}, k + 1, f[k])  BY <1>7, <2>1
    <3> QED BY <2>2, <3>1 DEF FoundNext
  <2>5. CASE k = 0
    <3>1. place[k + 1] = 1  BY <1>2, <2>1, <2>5, <1>4 DEF OneByOne
    <3>2. f[k].last = -1 /\ f[k].cards = <<>>  BY <1>7, <2>5
    <3>3. f[k + 1] = [last |-> layout.id[c], cards |-> Append(f[k].cards, c)]
          BY <2>2, <2>4, <3>2
    <3>4. Len(f[k].cards) = 0  BY <3>2, EmptySeq
    <3>5. UpToPlace(f, place, k + 1)
          BY <2>2, <2>3, <3>1, <3>3, <3>4, OneMoreFound DEF UpToPlace
    <3> QED BY <2>1, <3>5
  <2>6. CASE k # 0
    <3>1. k \in 1 .. n /\ k \in 1 .. n - 1  BY <1>4, <1>9, <2>6
    <3>2. UpToPlace(f, place, k)  BY <1>9, <2>6
    <3>3. place[k] \in 1 .. nDevs  BY <1>5, <3>1
    <3>4. CASE place[k + 1] = place[k]
      <4>1. f[k + 1] = f[k]  BY <2>4, <3>2, <3>4 DEF UpToPlace
      <4>2. UpToPlace(f, place, k + 1)  BY <3>2, <3>4, <4>1 DEF UpToPlace
      <4> QED BY <2>1, <4>2
    <3>5. CASE place[k + 1] = place[k] + 1
      <4>1. layout.id[c] # f[k].last
        <5>1. place[k] # place[k + 1]  BY <3>3, <3>5
        <5> QED BY <1>6, <2>2, <3>2, <3>3, <5>1 DEF UpToPlace
      <4>2. f[k + 1] = [last |-> layout.id[c], cards |-> Append(f[k].cards, c)]
            BY <2>4, <4>1
      <4>3. Len(f[k].cards) = place[k] /\ \A i \in 1 .. place[k] : f[k].cards[i] = layout.opencl[i]
            BY <3>2 DEF UpToPlace
      <4> DEFINE q == Append(f[k].cards, c)
      <4>4. /\ Len(q) = place[k] + 1 /\ q[place[k] + 1] = c
            /\ \A i \in 1 .. place[k] : q[i] = layout.opencl[i]
            BY <2>2, <2>3, <4>3, OneMoreFound
      <4>5. f[k + 1].cards = q /\ f[k + 1].last = layout.id[c]  BY <4>2
      <4> HIDE DEF q
      <4>6. ASSUME NEW i \in 1 .. place[k + 1]  PROVE q[i] = layout.opencl[i]
        <5>1. i \in 1 .. place[k] \/ i = place[k] + 1  BY <3>3, <3>5
        <5> QED BY <3>5, <4>4, <5>1
      <4>7. UpToPlace(f, place, k + 1)
            BY <3>5, <4>4, <4>5, <4>6 DEF UpToPlace
      <4> QED BY <2>1, <4>7
    <3>6. place[k + 1] = place[k] \/ place[k + 1] = place[k] + 1
          BY <1>2, <3>1 DEF OneByOne
    <3> QED BY <3>4, <3>5, <3>6
  <2> QED BY <2>5, <2>6
<1>10. n \in S
  <2>1. n \in 0 .. n  BY <1>4
  <2> HIDE DEF S
  <2> QED BY <1>4, <1>8, <1>9, <2>1, InductionUpTo
<1>11. f[n].cards \in Seq(Cards)
  <2>1. n \in 0 .. n  BY <1>4
  <2> QED BY <1>7, <2>1 DEF FoundStates
<1>12. Len(f[n].cards) = nDevs /\ \A i \in 1 .. nDevs : f[n].cards[i] = layout.opencl[i]
  <2>1. CASE n = 0
    <3>1. nDevs = 0  BY <1>2, <2>1 DEF OneByOne
    <3>2. f[n].cards = <<>>  BY <1>7, <2>1
    <3> QED BY <3>1, <3>2, EmptySeq
  <2>2. CASE n # 0
    <3>1. UpToPlace(f, place, n)  BY <1>10, <2>2
    <3>2. place[n] = nDevs  BY <1>2, <1>4, <2>2 DEF OneByOne
    <3> QED BY <3>1, <3>2 DEF UpToPlace
  <2> QED BY <2>1, <2>2
<1>13. layout.opencl \in Seq(Cards) /\ Len(layout.opencl) = nDevs
       BY DeviceFacts DEF nDevs
<1>14. f[n].cards = layout.opencl
       BY <1>11, <1>12, <1>13, SeqEqual
<1> QED BY <1>7, <1>14

-----------------------------------------------------------------------------
(* The steps.                                                              *)

LEMMA SameLayout ==
    ASSUME UNCHANGED layout
    PROVE  nDevs' = nDevs /\ Device' = Device /\ Adls' = Adls /\ (Plain' <=> Plain)
<1>1. nDevs' = nDevs  BY DEF nDevs
<1>2. Device' = Device  BY <1>1 DEF Device
<1>3. Adls' = Adls  BY <1>2 DEF Adls
<1>4. Plain' <=> Plain  BY DEF Plain
<1> QED BY <1>1, <1>2, <1>3, <1>4

LEMMA GpuType ==
    ASSUME AdlTypes, NEW i \in Device
    PROVE  /\ gpus[i] \in Adls /\ gpus[i].card \in Cards /\ gpus[i].DefPerfLev \in Levels
           /\ gpus[i].has_adl \in BOOLEAN /\ gpus[i].managed \in BOOLEAN
           /\ gpus[i].has_fanspeed \in BOOLEAN /\ gpus[i].twin \in {NoTwin} \cup Device
           /\ gpus[i].DefFanSpeed \in Nat
<1>1. gpus[i] \in Adls  BY DEF AdlTypes
<1> QED BY <1>1 DEF Adls

LEMMA CardType ==
    ASSUME AdlTypes, NEW c \in Cards
    PROVE  /\ card[c] \in CardStates /\ card[c].levels \in Levels /\ card[c].fan \in Nat
           /\ card[c].user \in BOOLEAN /\ card[c].power \in Int
           /\ card[c].levels[Top].engine \in Nat /\ card[c].levels[Top].memory \in Nat
<1>1. card[c] \in CardStates  BY DEF AdlTypes
<1>2. card[c].levels \in Levels  BY <1>1 DEF CardStates
<1>3. Top \in 1 .. Top  BY AdlAssumption
<1>4. card[c].levels[Top] \in [engine : Nat, memory : Nat]  BY <1>2, <1>3 DEF Levels
<1> QED BY <1>1, <1>2, <1>4 DEF CardStates

LEMMA ClearedFacts ==
    /\ Cleared \in [Device -> Adls]
    /\ \A i \in Device : /\ ~Cleared[i].has_adl /\ ~Cleared[i].has_fanspeed
                         /\ Cleared[i].twin = NoTwin
<1>1. (CHOOSE c \in Cards : TRUE) \in Cards  BY AdlAssumption
<1>2. Garbage \in Levels  BY AdlAssumption
<1>3. AutoFan \in Nat  BY DEF AutoFan
<1> QED BY <1>1, <1>2, <1>3 DEF Cleared, Adls

LEMMA InitAdlIInv == AdlInit => AdlIInv
<1> SUFFICES ASSUME AdlInit PROVE AdlIInv
    OBVIOUS
<1>1. AdlTypes
  <2>1. layout \in Layouts /\ settings \in AdlSettings  BY DEF AdlInit
  <2>2. card \in [Cards -> CardStates] /\ atStart = card
    <3>1. [levels |-> Factory, fan |-> 30, user |-> TRUE, power |-> 0] \in CardStates
          BY AdlAssumption DEF CardStates
    <3> QED BY <3>1 DEF AdlInit
  <2>3. nDevs \in Nat  BY <2>1, AdlAssumption, LenProperties DEF nDevs
  <2>4. adapters \in Seq(Cards) /\ Len(adapters) = 0  BY EmptySeq DEF AdlInit
  <2>5. gpus \in [Device -> Adls]  BY ClearedFacts DEF AdlInit
  <2>6. gpu \in 0 .. Len(adapters) /\ adlStep \in 0 .. 4 * nDevs /\ Len(adapters) <= nDevs
        BY <2>3, <2>4 DEF AdlInit
  <2>7. /\ adlPc \in {"down", "adapters", "devices", "set"}
        /\ adl_active \in BOOLEAN /\ clean \in BOOLEAN
        /\ troubled \in SUBSET Cards /\ spoilt \in SUBSET Cards
        BY DEF AdlInit
  <2>8. failures = 0  BY DEF AdlInit
  <2>9. failures \in 0 .. MaxFailures  BY <2>8, AdlAssumption
  <2> QED BY <2>1, <2>2, <2>4, <2>5, <2>6, <2>7, <2>9 DEF AdlTypes
<1>2. LevelsOrdered
  <2>1. \A c \in Cards : card[c].levels = Factory  BY DEF AdlInit
  <2> QED BY <2>1, AdlAssumption DEF LevelsOrdered
<1>3. \A i \in Device : ~gpus[i].has_adl /\ gpus[i].twin = NoTwin
      BY ClearedFacts DEF AdlInit
<1>4. adlPc = "down" /\ ~clean  BY DEF AdlInit
<1>5. PutBack /\ Untouched /\ ActiveIfAny /\ OnlyManaged /\ NoTwinsYet
      BY <1>4 DEF PutBack, Untouched, ActiveIfAny, OnlyManaged, NoTwinsYet
<1>6. KnowsLevels /\ SavedOrdered /\ TwinsHaveFans
      BY <1>3 DEF KnowsLevels, SavedOrdered, TwinsHaveFans
<1>7. FoundInOrder /\ SetSoFar  BY <1>4 DEF FoundInOrder, SetSoFar
<1> QED BY <1>1, <1>2, <1>5, <1>6, <1>7 DEF AdlIInv

LEMMA PrepareIInv ==
    ASSUME AdlIInv, prepare_adl
    PROVE  AdlIInv'
<1> USE DEF prepare_adl
<1>1. AdlTypes  BY DEF AdlIInv
<1>2. Device' = Device /\ nDevs' = nDevs /\ Adls' = Adls  BY SameLayout
<1>3. PICK failing \in Failing({"library"}) :
          /\ adlPc' = IF failing = {} THEN "adapters" ELSE "set"
          /\ failures' = failures + Cardinality(failing)
          /\ troubled' = IF failing = {} THEN {} ELSE Cards
      OBVIOUS
<1>4. failures' \in 0 .. MaxFailures
      BY <1>1, <1>3, FailingFacts, FewFinite DEF AdlTypes
<1>5. \A i \in Device : ~gpus'[i].has_adl /\ gpus'[i].twin = NoTwin
      BY ClearedFacts
<1>6. AdlTypes'
  <2>1. gpus' \in [Device' -> Adls']  BY <1>2, ClearedFacts
  <2>2. adapters' \in Seq(Cards) /\ Len(adapters') = 0  BY EmptySeq
  <2>3. nDevs \in Nat  BY <1>1, DeviceFacts
  <2>4. gpu' \in 0 .. Len(adapters') /\ adlStep' \in 0 .. 4 * nDevs' /\ Len(adapters') <= nDevs'
        BY <1>2, <2>2, <2>3
  <2>5. /\ adlPc' \in {"down", "adapters", "devices", "set"}
        /\ adl_active' \in BOOLEAN /\ clean' \in BOOLEAN /\ troubled' \in SUBSET Cards
        BY <1>3
  <2> QED BY <1>1, <1>4, <2>1, <2>2, <2>4, <2>5 DEF AdlTypes
<1>7. LevelsOrdered'  BY DEF AdlIInv, LevelsOrdered
<1>8. adlPc' \in {"adapters", "set"} /\ (adlPc' = "set" => troubled' # {})
      BY <1>3, AdlAssumption
<1>9. PutBack' /\ Untouched' /\ OnlyManaged'
      BY <1>8 DEF PutBack, Untouched, OnlyManaged
<1>10. ActiveIfAny' /\ KnowsLevels' /\ SavedOrdered' /\ NoTwinsYet' /\ TwinsHaveFans'
       BY <1>2, <1>5 DEF ActiveIfAny, KnowsLevels, SavedOrdered, NoTwinsYet, TwinsHaveFans
<1>11. FoundInOrder' /\ SetSoFar'
       BY <1>8 DEF FoundInOrder, SetSoFar, Smooth
<1> QED BY <1>6, <1>7, <1>9, <1>10, <1>11 DEF AdlIInv

LEMMA AdaptersIInv ==
    ASSUME AdlIInv, FindAdapters
    PROVE  AdlIInv'
<1>1. AdlTypes  BY DEF AdlIInv
<1>2. Device' = Device /\ nDevs' = nDevs /\ Adls' = Adls /\ (Plain' <=> Plain)
      BY SameLayout DEF FindAdapters
<1> DEFINE calls == {Number, Info} \cup DOMAIN layout.adapters
<1>3. IsFiniteSet(calls)
  <2>1. Len(layout.adapters) \in Nat /\ DOMAIN layout.adapters = 1 .. Len(layout.adapters)
        BY <1>1, DeviceFacts, LenProperties
  <2>2. IsFiniteSet(DOMAIN layout.adapters)  BY <2>1, FS_Interval
  <2> QED BY <2>2, FewFinite, FS_Union
<1>4. PICK failing \in Failing(calls) :
          /\ adapters' = IF Number \in failing \/ Info \in failing THEN <<>>
                         ELSE SubSeq(FoundCards(failing), 1,
                                     IF Len(FoundCards(failing)) > nDevs THEN nDevs
                                     ELSE Len(FoundCards(failing)))
          /\ adlPc' = IF Number \in failing \/ Info \in failing THEN "set" ELSE "devices"
          /\ Trouble(failing, Cards)
      BY DEF FindAdapters
<1>5. /\ failures' \in 0 .. MaxFailures
      /\ troubled \subseteq troubled' /\ troubled' \in SUBSET Cards
      /\ failing # {} => Cards \subseteq troubled'
  <2> HIDE DEF calls
  <2> QED BY <1>1, <1>3, <1>4, TroubleFacts
<1>6. /\ adlPc = "adapters"
      /\ UNCHANGED <<layout, settings, card, gpu, adlStep, gpus, adl_active, starts, atStart,
                     spoilt, clean>>
      BY DEF FindAdapters
<1>7. card = atStart /\ adlStep = 0 /\ gpu = 0  BY <1>6 DEF AdlIInv, Untouched
<1>8. nDevs \in Nat  BY <1>1, DeviceFacts
<1>9. adapters' \in Seq(Cards) /\ Len(adapters') \in Nat /\ Len(adapters') <= nDevs
  <2> DEFINE all == FoundCards(failing)
             m == IF Len(all) > nDevs THEN nDevs ELSE Len(all)
  <2>1. all \in Seq(Cards) /\ Len(all) \in Nat  BY <1>1, FoundType, LenProperties
  <2>2. m \in Nat /\ m <= nDevs /\ m <= Len(all)  BY <1>8, <2>1
  <2>3. adapters' = <<>> \/ adapters' = SubSeq(all, 1, m)  BY <1>4
  <2> HIDE DEF all, m
  <2>4. SubSeq(all, 1, m) \in Seq(Cards) /\ Len(SubSeq(all, 1, m)) = m
    <3>1. \A i \in 1 .. m : all[i] \in Cards  BY <2>1, <2>2, ElementOfSeq
    <3> QED BY <2>2, <3>1, SubSeqProperties
  <2>5. CASE adapters' = <<>>
        BY <1>8, <2>5, EmptySeq
  <2>6. CASE adapters' = SubSeq(all, 1, m)
        BY <2>2, <2>4, <2>6
  <2> QED BY <2>3, <2>5, <2>6
<1>10. AdlTypes'
  <2>1. adlPc' \in {"down", "adapters", "devices", "set"}  BY <1>4
  <2>2. gpu' \in 0 .. Len(adapters')  BY <1>6, <1>7, <1>9
  <2> QED BY <1>1, <1>2, <1>5, <1>6, <1>9, <2>1, <2>2 DEF AdlTypes
<1>11. adlPc' \in {"devices", "set"} /\ (adlPc' = "set" => troubled' # {})
  <2>1. adlPc' = "set" => failing # {}  BY <1>4
  <2> QED BY <1>4, <1>5, <2>1, AdlAssumption
<1>12. LevelsOrdered'  BY <1>6 DEF AdlIInv, LevelsOrdered
<1>13. PutBack' /\ Untouched' /\ OnlyManaged'
       BY <1>6, <1>7, <1>11 DEF PutBack, Untouched, OnlyManaged
<1>14. ActiveIfAny' /\ SavedOrdered' /\ NoTwinsYet' /\ TwinsHaveFans'
       BY <1>2, <1>6, <1>11 DEF AdlIInv, ActiveIfAny, SavedOrdered, NoTwinsYet, TwinsHaveFans
<1>15. KnowsLevels'
       BY <1>2, <1>5, <1>6 DEF AdlIInv, KnowsLevels
<1>16. FoundInOrder'
  <2> SUFFICES ASSUME adlPc' = "devices", Smooth'
               PROVE  adapters' = layout.opencl
      BY <1>2, <1>6, <1>7, <1>11 DEF FoundInOrder, Smooth, Device
  <2>1. failing = {} /\ Plain
        BY <1>2, <1>5, AdlAssumption DEF Smooth
  <2>2. FoundCards({}) = layout.opencl  BY <1>1, <2>1, FoundPlain
  <2>3. layout.opencl \in Seq(Cards) /\ Len(layout.opencl) = nDevs
        BY <1>1, DeviceFacts DEF nDevs
  <2>4. adapters' = SubSeq(layout.opencl, 1, Len(layout.opencl))
        BY <1>4, <1>8, <2>1, <2>2, <2>3
  <2> QED BY <2>3, <2>4, SubSeqFull
<1>17. SetSoFar'
       BY <1>11 DEF SetSoFar, Smooth
<1> QED BY <1>10, <1>12, <1>13, <1>14, <1>15, <1>16, <1>17 DEF AdlIInv

\* A device whose data are read.
Read(c, levels, has, speed) ==
    [has_adl |-> TRUE, card |-> c, managed |-> FALSE, twin |-> NoTwin,
     DefPerfLev |-> levels, has_fanspeed |-> has, DefFanSpeed |-> speed]

\* What InitDevice makes of gpus: nothing or data that are right unless a call has failed.
DeviceRead(failing, c) ==
    \E levels \in Levels, has \in BOOLEAN, speed \in Nat :
        /\ gpus' = [gpus EXCEPT ![gpu] = Read(c, levels, has, speed)] /\ adl_active' = TRUE
        /\ levels \in {card[c].levels, Factory, Garbage}
        /\ failing = {} => levels = card[c].levels /\ has = layout.fan[c]

LEMMA ReadOrNot ==
    ASSUME AdlTypes, InitDevice
    PROVE  \E failing \in Failing({"id", "default", "current", "again", "fan_info", "fan"}) :
              /\ Trouble(failing, {adapters[gpu + 1]})
              /\ \/ failing # {} /\ UNCHANGED <<gpus, adl_active>>
                 \/ DeviceRead(failing, adapters[gpu + 1])
<1> DEFINE c == adapters[gpu + 1]
<1>1. PICK failing \in Failing({"id", "default", "current", "again", "fan_info", "fan"}) :
          /\ IF "id" \in failing THEN UNCHANGED <<gpus, adl_active>>
             ELSE /\ gpus' = [gpus EXCEPT ![gpu] =
                        [has_adl |-> TRUE, card |-> c, managed |-> FALSE, twin |-> NoTwin,
                         DefPerfLev |-> IF "current" \notin failing \/ "again" \notin failing THEN card[c].levels
                                        ELSE IF "default" \notin failing THEN Factory ELSE Garbage,
                         has_fanspeed |-> layout.fan[c] /\ "fan_info" \notin failing,
                         DefFanSpeed |-> IF layout.fan[c] /\ "fan" \notin failing
                                         THEN card[c].fan ELSE 0]]
                  /\ adl_active' = TRUE
          /\ Trouble(failing, {c})
      BY DEF InitDevice
<1>2. c \in Cards  BY AdapterFacts DEF InitDevice
<1>3. layout.fan[c] \in BOOLEAN  BY <1>2, DeviceFacts
<1>4. CASE "id" \in failing
      BY <1>1, <1>4
<1>5. CASE "id" \notin failing
  <2> DEFINE levels == IF "current" \notin failing \/ "again" \notin failing THEN card[c].levels
                       ELSE IF "default" \notin failing THEN Factory ELSE Garbage
             has == layout.fan[c] /\ "fan_info" \notin failing
             speed == IF layout.fan[c] /\ "fan" \notin failing THEN card[c].fan ELSE 0
  <2>1. levels \in {card[c].levels, Factory, Garbage}  OBVIOUS
  <2>2. levels \in Levels  BY <1>2, <2>1, CardType, AdlAssumption
  <2>3. has \in BOOLEAN  OBVIOUS
  <2>4. speed \in Nat
    <3>1. speed \in {card[c].fan, 0}  OBVIOUS
    <3>2. card[c].fan \in Nat  BY <1>2, CardType
    <3> HIDE DEF speed
    <3> QED BY <3>1, <3>2
  <2>5. failing = {} => levels = card[c].levels  OBVIOUS
  <2>6. failing = {} => has = layout.fan[c]  BY <1>3
  <2>7. gpus' = [gpus EXCEPT ![gpu] = Read(c, levels, has, speed)] /\ adl_active' = TRUE
        BY <1>1, <1>5 DEF Read
  <2> HIDE DEF levels, has, speed
  <2>8. DeviceRead(failing, c)
        BY <2>1, <2>2, <2>3, <2>4, <2>5, <2>6, <2>7 DEF DeviceRead
  <2> QED BY <1>1, <2>8
<1> QED BY <1>4, <1>5

LEMMA DeviceIInv ==
    ASSUME AdlIInv, InitDevice
    PROVE  AdlIInv'
<1> DEFINE c == adapters[gpu + 1]
           calls == {"id", "default", "current", "again", "fan_info", "fan"}
<1>1. AdlTypes  BY DEF AdlIInv
<1>2. /\ adlPc = "devices" /\ gpu < Len(adapters) /\ gpu' = gpu + 1
      /\ UNCHANGED <<layout, settings, card, adlPc, adlStep, adapters, starts, atStart, spoilt,
                     clean>>
      BY DEF InitDevice
<1>3. Device' = Device /\ nDevs' = nDevs /\ Adls' = Adls /\ (Plain' <=> Plain)
      BY <1>2, SameLayout
<1>4. PICK failing \in Failing(calls) :
          /\ Trouble(failing, {c})
          /\ \/ failing # {} /\ UNCHANGED <<gpus, adl_active>>
             \/ DeviceRead(failing, c)
      BY <1>1, ReadOrNot
<1>5. /\ gpu \in Device /\ gpu + 1 \in 0 .. Len(adapters) /\ c \in Cards
      /\ Len(adapters) \in Nat
      BY <1>1, <1>2, AdapterFacts
<1>6. /\ failures' \in 0 .. MaxFailures
      /\ troubled \subseteq troubled' /\ troubled' \in SUBSET Cards
      /\ failing # {} => c \in troubled'
  <2>1. IsFiniteSet(calls)  BY FewFinite
  <2>2. {c} \in SUBSET Cards  BY <1>5
  <2> HIDE DEF calls, c
  <2> QED BY <1>1, <1>4, <2>1, <2>2, TroubleFacts
<1>7. card = atStart /\ adlStep = 0  BY <1>2 DEF AdlIInv, Untouched
<1> HIDE DEF c, calls
<1>8. \/ failing # {} /\ UNCHANGED <<gpus, adl_active>>
      \/ /\ adl_active' = TRUE
         /\ gpus' \in [Device -> Adls]
         /\ gpus'[gpu].has_adl /\ gpus'[gpu].card = c /\ gpus'[gpu].twin = NoTwin
         /\ gpus'[gpu].DefPerfLev \in {card[c].levels, Factory, Garbage}
         /\ failing = {} => /\ gpus'[gpu].DefPerfLev = card[c].levels
                            /\ gpus'[gpu].has_fanspeed = layout.fan[c]
         /\ \A i \in Device : i # gpu => gpus'[i] = gpus[i]
  <2> SUFFICES ASSUME DeviceRead(failing, c)
               PROVE  /\ adl_active' = TRUE
                      /\ gpus' \in [Device -> Adls]
                      /\ gpus'[gpu].has_adl /\ gpus'[gpu].card = c /\ gpus'[gpu].twin = NoTwin
                      /\ gpus'[gpu].DefPerfLev \in {card[c].levels, Factory, Garbage}
                      /\ failing = {} => /\ gpus'[gpu].DefPerfLev = card[c].levels
                                         /\ gpus'[gpu].has_fanspeed = layout.fan[c]
                      /\ \A i \in Device : i # gpu => gpus'[i] = gpus[i]
      BY <1>4
  <2>1. PICK levels \in Levels, has \in BOOLEAN, speed \in Nat :
           /\ gpus' = [gpus EXCEPT ![gpu] = Read(c, levels, has, speed)] /\ adl_active' = TRUE
           /\ levels \in {card[c].levels, Factory, Garbage}
           /\ failing = {} => levels = card[c].levels /\ has = layout.fan[c]
        BY DEF DeviceRead
  <2>2. gpus \in [Device -> Adls]  BY <1>1 DEF AdlTypes
  <2>3. Read(c, levels, has, speed) \in Adls  BY <1>5 DEF Read, Adls
  <2>4. gpus'[gpu] = Read(c, levels, has, speed)  BY <1>5, <2>1, <2>2
  <2>5. gpus' \in [Device -> Adls] /\ \A i \in Device : i # gpu => gpus'[i] = gpus[i]
        BY <2>1, <2>2, <2>3
  <2>6. /\ gpus'[gpu].has_adl /\ gpus'[gpu].card = c /\ gpus'[gpu].twin = NoTwin
        /\ gpus'[gpu].DefPerfLev = levels /\ gpus'[gpu].has_fanspeed = has
        BY <2>4 DEF Read
  <2> QED BY <2>1, <2>5, <2>6
<1>9. AdlTypes'
  <2>1. gpus' \in [Device -> Adls]  BY <1>1, <1>8 DEF AdlTypes
  <2>2. adl_active' \in BOOLEAN  BY <1>1, <1>8 DEF AdlTypes
  <2> QED BY <1>1, <1>2, <1>3, <1>5, <1>6, <2>1, <2>2 DEF AdlTypes
<1>10. LevelsOrdered' /\ PutBack' /\ Untouched' /\ OnlyManaged'
  <2>1. LevelsOrdered'  BY <1>2 DEF AdlIInv, LevelsOrdered
  <2> QED BY <1>2, <1>7, <2>1 DEF PutBack, Untouched, OnlyManaged
<1>11. ActiveIfAny'
       BY <1>2, <1>3, <1>8 DEF AdlIInv, ActiveIfAny
<1>12. KnowsLevels'
  <2> SUFFICES ASSUME NEW i \in Device, gpus'[i].has_adl, gpus'[i].card \notin troubled'
               PROVE  gpus'[i].DefPerfLev = atStart[gpus'[i].card].levels
      BY <1>2, <1>3 DEF KnowsLevels
  <2>1. CASE gpus'[i] = gpus[i]
        BY <1>6, <2>1 DEF AdlIInv, KnowsLevels
  <2>2. CASE gpus'[i] # gpus[i]
    <3>1. i = gpu /\ gpus'[gpu].card = c  BY <1>8, <2>2
    <3>2. failing = {}  BY <1>6, <3>1
    <3> QED BY <1>7, <1>8, <2>2, <3>1, <3>2
  <2> QED BY <2>1, <2>2
<1>13. SavedOrdered'
  <2> SUFFICES ASSUME NEW i \in Device, gpus'[i].has_adl, gpus'[i].card \notin spoilt
               PROVE  gpus'[i].DefPerfLev = Garbage \/ Ordered(gpus'[i].DefPerfLev)
      BY <1>2, <1>3 DEF SavedOrdered
  <2>1. CASE gpus'[i] = gpus[i]
        BY <2>1 DEF AdlIInv, SavedOrdered
  <2>2. CASE gpus'[i] # gpus[i]
    <3>1. /\ gpus'[i].card = c
          /\ gpus'[i].DefPerfLev \in {card[c].levels, Factory, Garbage}
          BY <1>8, <2>2
    <3>2. Ordered(card[c].levels)
          BY <1>5, <3>1 DEF AdlIInv, LevelsOrdered
    <3> QED BY <3>1, <3>2, AdlAssumption
  <2> QED BY <2>1, <2>2
<1>14. \A i \in Device : gpus'[i].twin = NoTwin
       BY <1>2, <1>8 DEF AdlIInv, NoTwinsYet
<1>15. NoTwinsYet' /\ TwinsHaveFans'
       BY <1>3, <1>14 DEF NoTwinsYet, TwinsHaveFans
<1>16. FoundInOrder'
  <2> SUFFICES ASSUME Smooth'
               PROVE  /\ adapters = layout.opencl /\ adl_active'
                      /\ \A i \in Device : i < gpu + 1 => IsFound(i)'
      BY <1>2, <1>3 DEF FoundInOrder
  <2>1. failing = {} /\ Smooth
        BY <1>3, <1>6 DEF Smooth
  <2>2. /\ adapters = layout.opencl
        /\ \A i \in Device : i < gpu => IsFound(i)
        BY <1>2, <2>1 DEF AdlIInv, FoundInOrder
  <2>3. /\ adl_active' /\ gpus'[gpu].has_adl /\ gpus'[gpu].card = c
        /\ gpus'[gpu].has_fanspeed = layout.fan[c]
        /\ \A i \in Device : i # gpu => gpus'[i] = gpus[i]
        BY <1>8, <2>1
  <2>4. ASSUME NEW i \in Device, i < gpu + 1  PROVE IsFound(i)'
    <3>1. CASE i = gpu
          BY <1>2, <2>2, <2>3, <3>1 DEF IsFound, c
    <3>2. CASE i # gpu
      <4>1. i \in Nat /\ gpu \in Nat  BY <1>1, <1>5, DeviceFacts
      <4>2. i < gpu  BY <2>4, <3>2, <4>1
      <4>3. IsFound(i) /\ gpus'[i] = gpus[i]  BY <2>2, <2>3, <3>2, <4>2
      <4> QED BY <1>2, <4>3 DEF IsFound
    <3> QED BY <3>1, <3>2
  <2> QED BY <2>2, <2>3, <2>4
<1>17. SetSoFar'  BY <1>2 DEF SetSoFar
<1> QED BY <1>9, <1>10, <1>11, <1>12, <1>13, <1>15, <1>16, <1>17 DEF AdlIInv

\* Some member of a set of numbers that has a bound is the largest.
LEMMA LargestExists ==
    ASSUME NEW n \in Nat, NEW S \in SUBSET (0 .. n), S # {}
    PROVE  \E x \in S : \A y \in S : y <= x
<1> DEFINE T == {n - x : x \in S}
<1>1. T \in SUBSET Nat /\ T # {}
  <2>1. PICK s \in S : TRUE  OBVIOUS
  <2>2. n - s \in T  BY <2>1
  <2> QED BY <2>2
<1>2. PICK t \in T : \A u \in T : t <= u
  <2> HIDE DEF T
  <2> QED BY <1>1, LeastNumber
<1>3. PICK x \in S : t = n - x  OBVIOUS
<1>4. ASSUME NEW y \in S  PROVE y <= x
  <2>1. n - x <= n - y  BY <1>2, <1>3
  <2>2. x \in Int /\ y \in Int /\ n \in Int  OBVIOUS
  <2> HIDE DEF T
  <2> QED BY <2>1, <2>2
<1> QED BY <1>4

LEMMA LastPartnerFacts ==
    ASSUME AdlTypes, NEW i \in Device
    PROVE  /\ LastPartner(i) \in {NoTwin} \cup Device
           /\ LastPartner(i) # NoTwin => LastPartner(i) \in Partners(i)
<1>1. Partners(i) \subseteq Device
  <2>1. gpu \in Nat /\ gpu <= nDevs /\ nDevs \in Nat
        BY DeviceFacts, LenProperties DEF AdlTypes
  <2> QED BY <2>1 DEF Partners, Device
<1>2. CASE Partners(i) = {}
      BY <1>2 DEF LastPartner
<1>3. CASE Partners(i) # {}
  <2>1. Partners(i) \in SUBSET (0 .. gpu) /\ gpu \in Nat
    <3>1. gpu \in Nat  BY LenProperties DEF AdlTypes
    <3> QED BY <3>1 DEF Partners
  <2>2. \E j \in Partners(i) : \A k \in Partners(i) : k <= j
        BY <1>3, <2>1, LargestExists
  <2>3. LastPartner(i) \in Partners(i)
        BY <1>3, <2>2 DEF LastPartner
  <2> QED BY <1>1, <2>3
<1> QED BY <1>2, <1>3

LEMMA TwinsIInv ==
    ASSUME AdlIInv, FindTwins
    PROVE  AdlIInv'
<1>1. AdlTypes  BY DEF AdlIInv
<1>2. /\ adlPc = "devices" /\ gpu = Len(adapters) /\ adlPc' = "set"
      /\ UNCHANGED <<layout, settings, card, gpu, adlStep, adapters, adl_active, starts, failures,
                     atStart, troubled, spoilt, clean>>
      BY DEF FindTwins
<1>3. Device' = Device /\ nDevs' = nDevs /\ Adls' = Adls /\ (Plain' <=> Plain)
      BY <1>2, SameLayout
<1>4. card = atStart /\ adlStep = 0  BY <1>2 DEF AdlIInv, Untouched
<1>5. ASSUME NEW i \in Device
      PROVE  /\ gpus'[i] \in Adls /\ gpus'[i].twin = LastPartner(i)
             /\ gpus'[i].has_adl = gpus[i].has_adl /\ gpus'[i].card = gpus[i].card
             /\ gpus'[i].managed = gpus[i].managed
             /\ gpus'[i].DefPerfLev = gpus[i].DefPerfLev
             /\ gpus'[i].has_fanspeed = gpus[i].has_fanspeed
  <2>1. gpus'[i] = [gpus[i] EXCEPT !.twin = LastPartner(i)]  BY DEF FindTwins
  <2>2. gpus[i] \in Adls  BY <1>1, GpuType
  <2>3. LastPartner(i) \in {NoTwin} \cup Device  BY <1>1, LastPartnerFacts
  <2> QED BY <2>1, <2>2, <2>3 DEF Adls
<1>6. AdlTypes'
  <2>1. gpus' = [i \in Device |-> [gpus[i] EXCEPT !.twin = LastPartner(i)]]
        BY DEF FindTwins
  <2>2. gpus' \in [Device -> Adls]  BY <1>5, <2>1
  <2> QED BY <1>1, <1>2, <1>3, <2>2 DEF AdlTypes
<1>7. LevelsOrdered' /\ PutBack' /\ Untouched' /\ OnlyManaged' /\ NoTwinsYet'
  <2>1. LevelsOrdered'  BY <1>2 DEF AdlIInv, LevelsOrdered
  <2> QED BY <1>2, <1>4, <2>1 DEF PutBack, Untouched, OnlyManaged, NoTwinsYet
<1>8. ActiveIfAny' /\ KnowsLevels' /\ SavedOrdered'
       BY <1>2, <1>3, <1>5 DEF AdlIInv, ActiveIfAny, KnowsLevels, SavedOrdered
<1>9. TwinsHaveFans'
  <2> SUFFICES ASSUME NEW i \in Device, ~gpus'[i].has_fanspeed, gpus'[i].twin # NoTwin
               PROVE  gpus'[gpus'[i].twin].has_fanspeed
      BY <1>3 DEF TwinsHaveFans
  <2> DEFINE j == gpus'[i].twin
  <2>1. j \in Partners(i) /\ j \in Device /\ j # NoTwin
        BY <1>1, <1>5, LastPartnerFacts
  <2>2. Linked(i, j) \/ Linked(j, i)  BY <2>1 DEF Partners
  <2>3. ~Linked(j, i)  BY <1>5 DEF Linked, fanspeed_twin
  <2>4. gpus[j].has_fanspeed  BY <2>2, <2>3 DEF Linked, fanspeed_twin
  <2> QED BY <1>5, <2>1, <2>4
<1>10. FoundInOrder'
  <2> SUFFICES ASSUME Smooth
               PROVE  /\ adapters = layout.opencl /\ gpu = nDevs
                      /\ gpu > 0 => adl_active
                      /\ \A i \in Device : i < gpu => IsFound(i)'
      BY <1>2, <1>3 DEF FoundInOrder, Smooth
  <2>1. /\ adapters = layout.opencl
        /\ gpu > 0 => adl_active
        /\ \A i \in Device : i < gpu => IsFound(i)
        BY <1>2 DEF AdlIInv, FoundInOrder
  <2>2. gpu = nDevs  BY <1>2, <2>1 DEF nDevs
  <2>3. \A i \in Device : IsFound(i) => IsFound(i)'
        BY <1>2, <1>5 DEF IsFound
  <2> QED BY <2>1, <2>2, <2>3
<1>11. SetSoFar'
  <2>1. ASSUME NEW i \in Device, NEW k \in 0 .. 3  PROVE ~Had(i, k)'
    <3>1. i \in Nat /\ adlStep' = 0  BY <1>1, <1>2, <1>4, DeviceFacts
    <3> QED BY <3>1 DEF Had
  <2>2. ASSUME NEW i \in Device
        PROVE  /\ ~Had(i, 0)' /\ ~Had(i, 1)' /\ ~Had(i, 2)' /\ ~Had(i, 3)'
        BY <2>1
  <2> QED BY <1>2, <1>3, <1>4, <2>2 DEF SetSoFar, EngineSet, MemorySet, PowerSet, FanSet
<1> QED BY <1>6, <1>7, <1>8, <1>9, <1>10, <1>11 DEF AdlIInv

-----------------------------------------------------------------------------
(* The settings.                                                           *)

\* What each of the four settings may do.
OneSet ==
    /\ adlPc = "set" /\ adlStep < 4 * nDevs /\ adlStep' = adlStep + 1
    /\ UNCHANGED setRest
    /\ failures' \in 0 .. MaxFailures
    /\ troubled \subseteq troubled' /\ troubled' \in SUBSET Cards
    /\ card' \in [Cards -> CardStates]
    /\ gpus' \in [Device -> Adls]
    /\ \A i \in Device : /\ gpus'[i].has_adl = gpus[i].has_adl /\ gpus'[i].card = gpus[i].card
                         /\ gpus'[i].DefPerfLev = gpus[i].DefPerfLev
                         /\ gpus'[i].has_fanspeed = gpus[i].has_fanspeed
                         /\ gpus'[i].twin = gpus[i].twin
                         /\ gpus[i].managed => gpus'[i].managed
    /\ \A c \in Cards : card'[c] # card[c] =>
          c = gpus[device].card /\ gpus[device].has_adl /\ gpus'[device].managed
    /\ \A c \in Cards : Ordered(card[c].levels) => Ordered(card'[c].levels)

\* All but SetSoFar, of which the four settings have each a part.
LEMMA OneSetKeeps ==
    ASSUME AdlIInv, OneSet, SetSoFar'
    PROVE  AdlIInv'
<1>1. AdlTypes  BY DEF AdlIInv
<1>2. /\ adlPc = "set" /\ adlStep' = adlStep + 1
      /\ UNCHANGED <<layout, settings, adlPc, gpu, adapters, adl_active, starts, atStart,
                     spoilt, clean>>
      BY DEF OneSet, setRest
<1>3. Device' = Device /\ nDevs' = nDevs /\ Adls' = Adls /\ (Plain' <=> Plain)
      BY <1>2, SameLayout
<1>4. AdlTypes'
  <2>1. adlStep' \in 0 .. 4 * nDevs'
    <3>1. adlStep \in 0 .. 4 * nDevs /\ nDevs \in Nat  BY <1>1, DeviceFacts DEF AdlTypes
    <3> QED BY <1>2, <1>3, <3>1 DEF OneSet
  <2>2. /\ card' \in [Cards -> CardStates] /\ gpus' \in [Device' -> Adls']
        /\ failures' \in 0 .. MaxFailures /\ troubled' \in SUBSET Cards
        BY <1>3 DEF OneSet
  <2> QED BY <1>1, <1>2, <1>3, <2>1, <2>2 DEF AdlTypes
<1>5. ASSUME NEW i \in Device
      PROVE  /\ gpus'[i].has_adl = gpus[i].has_adl /\ gpus'[i].card = gpus[i].card
             /\ gpus'[i].DefPerfLev = gpus[i].DefPerfLev
             /\ gpus'[i].has_fanspeed = gpus[i].has_fanspeed
             /\ gpus'[i].twin = gpus[i].twin
             /\ gpus[i].managed => gpus'[i].managed
      BY DEF OneSet
<1>6. troubled \subseteq troubled'  BY DEF OneSet
<1>7. LevelsOrdered'
      BY <1>2 DEF AdlIInv, LevelsOrdered, OneSet
<1>8. PutBack' /\ Untouched' /\ NoTwinsYet'
      BY <1>2 DEF PutBack, Untouched, NoTwinsYet
<1>9. ActiveIfAny'  BY <1>2, <1>3, <1>5 DEF AdlIInv, ActiveIfAny
<1>10. KnowsLevels'  BY <1>2, <1>3, <1>5, <1>6 DEF AdlIInv, KnowsLevels
<1>11. SavedOrdered'  BY <1>2, <1>3, <1>5 DEF AdlIInv, SavedOrdered
<1>12. OnlyManaged'
  <2> SUFFICES ASSUME NEW c \in Cards \ troubled', \A i \in Device : ~Manages(i, c)'
               PROVE  card'[c] = atStart[c]
      BY <1>2, <1>3 DEF OnlyManaged
  <2>1. device \in Device
    <3>1. adlStep \in Nat /\ nDevs \in Nat /\ adlStep < 4 * nDevs
          BY <1>1, DeviceFacts DEF AdlTypes, OneSet
    <3> QED BY <3>1 DEF device, Device
  <2>2. \A i \in Device : ~(gpus'[i].has_adl /\ gpus'[i].managed /\ gpus'[i].card = c)
        BY DEF Manages
  <2>3. card'[c] = card[c]
    <3>1. card'[c] # card[c] =>
             c = gpus[device].card /\ gpus[device].has_adl /\ gpus'[device].managed
          BY DEF OneSet
    <3> QED BY <1>5, <2>1, <2>2, <3>1
  <2>4. \A i \in Device : ~Manages(i, c)
        BY <1>5, <2>2 DEF Manages
  <2>5. c \in Cards \ troubled  BY <1>6
  <2>6. card[c] = atStart[c]
        BY <1>2, <2>4, <2>5 DEF AdlIInv, OnlyManaged
  <2> QED BY <2>3, <2>6
<1>13. TwinsHaveFans'
  <2>1. \A i \in Device : gpus[i].twin \in {NoTwin} \cup Device
        BY <1>1, GpuType
  <2> QED BY <1>3, <1>5, <2>1 DEF AdlIInv, TwinsHaveFans
<1>14. FoundInOrder'
  <2>1. \A i \in Device : IsFound(i) => IsFound(i)'
        BY <1>2, <1>5 DEF IsFound
  <2>2. Smooth' => Smooth  BY <1>3, <1>6 DEF Smooth
  <2> QED BY <1>2, <1>3, <2>1, <2>2 DEF AdlIInv, FoundInOrder
<1> QED BY <1>4, <1>7, <1>8, <1>9, <1>10, <1>11, <1>12, <1>13, <1>14 DEF AdlIInv

\* Whose turn it is, and whose turns have been.
LEMMA TurnFacts ==
    ASSUME AdlTypes, NEW k \in 0 .. 3, Turn(k), adlStep' = adlStep + 1
    PROVE  /\ device \in Device /\ adlPc = "set" /\ adlStep < 4 * nDevs
           /\ ~Had(device, k)
           /\ \A i \in Device, j \in 0 .. 3 : Had(i, j)' <=> Had(i, j) \/ (i = device /\ j = k)
<1>1. adlStep \in Nat /\ nDevs \in Nat /\ adlStep < 4 * nDevs /\ adlStep % 4 = k /\ adlPc = "set"
      BY DeviceFacts DEF AdlTypes, Turn
<1>2. device \in Nat /\ adlStep = 4 * device + k /\ device < nDevs
      BY <1>1 DEF device
<1>3. device \in Device  BY <1>1, <1>2 DEF Device
<1>4. ~Had(device, k)  BY <1>2 DEF Had
<1>5. ASSUME NEW i \in Device, NEW j \in 0 .. 3
      PROVE  Had(i, j)' <=> Had(i, j) \/ (i = device /\ j = k)
  <2>1. i \in Nat  BY <1>1 DEF Device
  <2>2. Had(i, j)' <=> adlStep + 1 > 4 * i + j  BY DEF Had
  <2>3. adlStep + 1 > 4 * i + j <=> adlStep > 4 * i + j \/ adlStep = 4 * i + j
        BY <1>1, <2>1
  <2>4. adlStep = 4 * i + j <=> i = device /\ j = k
        BY <1>2, <2>1
  <2> QED BY <2>2, <2>3, <2>4 DEF Had
<1> QED BY <1>1, <1>3, <1>4, <1>5

\* What a setting is about: the device whose turn it is, in a smooth run.
LEMMA SmoothTurn ==
    ASSUME AdlIInv, NEW k \in 0 .. 3, Turn(k), Smooth
    PROVE  /\ HasAdl(device) /\ IsFound(device)
           /\ \A i \in Device : i # device =>
                 layout.opencl[i + 1] # layout.opencl[device + 1]
<1>1. AdlTypes  BY DEF AdlIInv
<1>2. adlStep \in Nat /\ nDevs \in Nat /\ adlStep < 4 * nDevs /\ adlPc = "set"
      BY <1>1, DeviceFacts DEF AdlTypes, Turn
<1>3. device \in Nat /\ device < nDevs  BY <1>2 DEF device
<1>4. device \in Device  BY <1>2, <1>3 DEF Device
<1>5. /\ gpu = nDevs
      /\ gpu > 0 => adl_active
      /\ \A i \in Device : i < gpu => IsFound(i)
      BY <1>2 DEF AdlIInv, FoundInOrder
<1>6. adl_active  BY <1>2, <1>3, <1>5
<1>7. IsFound(device)  BY <1>3, <1>4, <1>5
<1>8. HasAdl(device)  BY <1>6, <1>7 DEF IsFound, HasAdl
<1>9. ASSUME NEW i \in Device, layout.opencl[i + 1] = layout.opencl[device + 1]
      PROVE  i = device
  <2>1. i + 1 \in DOMAIN layout.opencl /\ device + 1 \in DOMAIN layout.opencl
        BY <1>1, <1>4, DeviceFacts
  <2>2. i + 1 = device + 1  BY <1>9, <2>1 DEF Smooth, Plain
  <2> QED BY <1>1, <1>3, <2>2, DeviceFacts
<1> QED BY <1>7, <1>8, <1>9

\* One card's data are replaced.
CardReplaced(q) ==
    /\ q \in CardStates
    /\ card' = [card EXCEPT ![gpus[device].card] = q]
    /\ Ordered(card[gpus[device].card].levels) => Ordered(q.levels)

\* What a setting needs to be one of OneSet.
LEMMA OneSetIf ==
    ASSUME AdlTypes, NEW k \in 0 .. 3, Turn(k), adlStep' = adlStep + 1, UNCHANGED setRest,
           failures' \in 0 .. MaxFailures, troubled \subseteq troubled', troubled' \in SUBSET Cards,
           \/ UNCHANGED <<card, gpus>>
           \/ /\ gpus[device].has_adl
              /\ \/ UNCHANGED card
                 \/ /\ \E q \in CardStates : CardReplaced(q)
                    /\ gpus' = [gpus EXCEPT ![device].managed = TRUE]
              /\ gpus' \in {gpus, [gpus EXCEPT ![device].managed = TRUE]}
    PROVE  OneSet
<1>1. device \in Device /\ adlPc = "set" /\ adlStep < 4 * nDevs
      BY TurnFacts
<1>2. card \in [Cards -> CardStates] /\ gpus \in [Device -> Adls]
      BY DEF AdlTypes
<1>3. \A i \in Device : gpus[i] \in Adls /\ gpus[i].card \in Cards
      BY GpuType
<1> DEFINE managed == [gpus EXCEPT ![device].managed = TRUE]
<1> HIDE DEF device
<1>4. managed \in [Device -> Adls] /\ managed[device].managed
  <2> DEFINE m == [gpus[device] EXCEPT !.managed = TRUE]
  <2>1. gpus[device] \in Adls  BY <1>1, <1>3
  <2>2. m \in Adls /\ m.managed  BY <2>1 DEF Adls
  <2>3. managed = [gpus EXCEPT ![device] = m]  OBVIOUS
  <2> HIDE DEF m, managed
  <2> QED BY <1>1, <1>2, <2>2, <2>3
<1>5. ASSUME NEW i \in Device
      PROVE  /\ managed[i].has_adl = gpus[i].has_adl /\ managed[i].card = gpus[i].card
             /\ managed[i].DefPerfLev = gpus[i].DefPerfLev
             /\ managed[i].has_fanspeed = gpus[i].has_fanspeed
             /\ managed[i].twin = gpus[i].twin
             /\ gpus[i].managed => managed[i].managed
  <2>1. CASE i = device
    <3>1. managed[i] = [gpus[i] EXCEPT !.managed = TRUE]  BY <1>2, <2>1
    <3> QED BY <1>3, <3>1 DEF Adls
  <2>2. CASE i # device
    <3>1. managed[i] = gpus[i]  BY <1>2, <2>2
    <3> QED BY <3>1
  <2> QED BY <2>1, <2>2
<1>6. gpus' \in {gpus, managed}  OBVIOUS
<1> HIDE DEF managed
<1>7. /\ gpus' \in [Device -> Adls]
      /\ \A i \in Device : /\ gpus'[i].has_adl = gpus[i].has_adl /\ gpus'[i].card = gpus[i].card
                           /\ gpus'[i].DefPerfLev = gpus[i].DefPerfLev
                           /\ gpus'[i].has_fanspeed = gpus[i].has_fanspeed
                           /\ gpus'[i].twin = gpus[i].twin
                           /\ gpus[i].managed => gpus'[i].managed
      BY <1>2, <1>4, <1>5, <1>6
<1>8. CASE UNCHANGED card
      BY <1>1, <1>2, <1>7, <1>8 DEF OneSet
<1>9. CASE /\ gpus[device].has_adl /\ \E q \in CardStates : CardReplaced(q)
           /\ gpus' = managed
  <2>1. PICK q \in CardStates : CardReplaced(q)  BY <1>9
  <2>2. /\ card' = [card EXCEPT ![gpus[device].card] = q]
        /\ Ordered(card[gpus[device].card].levels) => Ordered(q.levels)
        BY <2>1 DEF CardReplaced
  <2>3. card' \in [Cards -> CardStates]  BY <1>2, <2>2
  <2>4. \A c \in Cards : card'[c] # card[c] =>
          c = gpus[device].card /\ gpus[device].has_adl /\ gpus'[device].managed
        BY <1>2, <1>4, <1>9, <2>2
  <2>5. card'[gpus[device].card] = q  BY <1>1, <1>2, <1>3, <2>2
  <2>6. \A c \in Cards : Ordered(card[c].levels) => Ordered(card'[c].levels)
        BY <2>2, <2>4, <2>5
  <2> QED BY <1>1, <1>7, <2>3, <2>4, <2>6 DEF OneSet
<1> QED BY <1>8, <1>9 DEF managed

\* Setting a clock: nothing happens, or the card of the device has it.
LEMMA ClockSet ==
    ASSUME AdlTypes, NEW k \in 0 .. 3, Turn(k), adlStep' = adlStep + 1, UNCHANGED setRest,
           NEW clock \in {"engine", "memory"}, NEW value \in Nat, SetClock(clock, value)
    PROVE  /\ OneSet
           /\ troubled' = {} /\ HasAdl(device) =>
                LET c == gpus[device].card IN
                IF value = 0 THEN UNCHANGED card
                ELSE card' = [card EXCEPT ![c].levels = Clocked(card[c].levels, clock, value)]
<1> DEFINE c == gpus[device].card
<1>1. device \in Device  BY TurnFacts
<1>2. c \in Cards  BY <1>1, GpuType
<1>3. CASE value = 0 \/ ~HasAdl(device)
  <2>1. UNCHANGED <<card, gpus, failures, troubled>>  BY <1>3 DEF SetClock
  <2>2. failures' \in 0 .. MaxFailures /\ troubled \subseteq troubled' /\ troubled' \in SUBSET Cards
        BY <2>1 DEF AdlTypes
  <2>3. OneSet  BY <2>1, <2>2, OneSetIf
  <2> QED BY <1>3, <2>1, <2>3
<1>4. CASE value # 0 /\ HasAdl(device)
  <2>1. PICK failing \in Failing({"get", "set"}) :
           /\ card' = IF failing # {} THEN card
                      ELSE [card EXCEPT ![c].levels = Clocked(@, clock, value)]
           /\ gpus' = IF "get" \in failing THEN gpus ELSE [gpus EXCEPT ![device].managed = TRUE]
           /\ Trouble(failing, {c})
        BY <1>4 DEF SetClock
  <2>2. /\ failures' \in 0 .. MaxFailures
        /\ troubled \subseteq troubled' /\ troubled' \in SUBSET Cards
        /\ failing # {} => c \in troubled'
    <3>1. IsFiniteSet({"get", "set"})  BY FewFinite
    <3>2. {c} \in SUBSET Cards  BY <1>2
    <3> HIDE DEF c
    <3> QED BY <2>1, <3>1, <3>2, TroubleFacts
  <2>3. gpus[device].has_adl  BY <1>4 DEF HasAdl
  <2>4. gpus' \in {gpus, [gpus EXCEPT ![device].managed = TRUE]}  BY <2>1
  <2>5. CASE failing # {}
    <3>1. UNCHANGED card  BY <2>1, <2>5
    <3>2. OneSet  BY <2>2, <2>3, <2>4, <3>1, OneSetIf
    <3>3. troubled' # {}  BY <2>2, <2>5
    <3> QED BY <3>2, <3>3
  <2>6. CASE failing = {}
    <3> DEFINE q == [card[c] EXCEPT !.levels = Clocked(card[c].levels, clock, value)]
    <3>1. card' = [card EXCEPT ![c].levels = Clocked(card[c].levels, clock, value)]
      <4>1. card \in [Cards -> CardStates]  BY DEF AdlTypes
      <4> HIDE DEF c
      <4> QED BY <1>2, <2>1, <2>6, <4>1
    <3>2. card[c] \in CardStates /\ card[c].levels \in Levels  BY <1>2, CardType
    <3>3. /\ Clocked(card[c].levels, clock, value) \in Levels
          /\ Ordered(card[c].levels) => Ordered(Clocked(card[c].levels, clock, value))
          BY <3>2, ClockedFacts DEF ClockedRight
    <3>4. q \in CardStates /\ q.levels = Clocked(card[c].levels, clock, value)
          BY <3>2, <3>3 DEF CardStates
    <3>5. card' = [card EXCEPT ![c] = q]  BY <3>1
    <3> HIDE DEF q
    <3>6. CardReplaced(q)
      <4>1. Ordered(card[c].levels) => Ordered(q.levels)  BY <3>3, <3>4
      <4> QED BY <3>4, <3>5, <4>1 DEF CardReplaced
    <3>7. gpus' = [gpus EXCEPT ![device].managed = TRUE]  BY <2>1, <2>6
    <3>8. OneSet
      <4>1. \E r \in CardStates : CardReplaced(r)  BY <3>4, <3>6
      <4> QED BY <2>2, <2>3, <2>4, <3>7, <4>1, OneSetIf
    <3> QED BY <1>4, <3>1, <3>8
  <2> QED BY <2>5, <2>6
<1> QED BY <1>3, <1>4

\* Everything is shown as set for device i.
DeviceSet(i) ==
    LET c == layout.opencl[i + 1] IN
    EngineSet(i, c) /\ MemorySet(i, c) /\ PowerSet(i, c) /\ FanSet(i, c)

\* A setting leaves the other cards alone.
LEMMA OthersStaySet ==
    ASSUME AdlIInv, NEW k \in 0 .. 3, Turn(k), OneSet,
           \A i \in Device : Smooth' /\ i = device => DeviceSet(i)'
    PROVE  AdlIInv'
<1>1. AdlTypes  BY DEF AdlIInv
<1>2. /\ adlPc = "set" /\ adlStep' = adlStep + 1
      /\ UNCHANGED <<layout, settings, adlPc, atStart>>
      BY DEF OneSet, setRest
<1>3. Device' = Device /\ (Plain' <=> Plain)  BY <1>2, SameLayout
<1>4. /\ device \in Device
      /\ \A i \in Device, j \in 0 .. 3 : Had(i, j)' <=> Had(i, j) \/ (i = device /\ j = k)
      BY <1>1, <1>2, TurnFacts
<1>5. SetSoFar'
  <2> SUFFICES ASSUME Smooth', NEW i \in Device  PROVE DeviceSet(i)'
      BY <1>3 DEF SetSoFar, DeviceSet
  <2>1. Smooth  BY <1>3 DEF Smooth, OneSet
  <2>2. CASE i = device
        BY <2>2
  <2>3. CASE i # device
    <3> DEFINE c == layout.opencl[i + 1]
    <3>1. c \in Cards /\ c # gpus[device].card
      <4>1. layout.opencl[i + 1] # layout.opencl[device + 1] /\ IsFound(device)
            BY <2>1, <2>3, SmoothTurn
      <4> QED BY <1>1, <4>1, DeviceFacts DEF IsFound
    <3>2. card'[c] = card[c]  BY <3>1 DEF OneSet
    <3>3. /\ Had(i, 0)' <=> Had(i, 0)
          /\ Had(i, 1)' <=> Had(i, 1)
          /\ Had(i, 2)' <=> Had(i, 2)
          /\ Had(i, 3)' <=> Had(i, 3)
          BY <1>4, <2>3
    <3>4. DeviceSet(i)  BY <1>2, <2>1 DEF AdlIInv, SetSoFar, DeviceSet
    <3>5. DeviceSet(i) <=> EngineSet(i, c) /\ MemorySet(i, c) /\ PowerSet(i, c) /\ FanSet(i, c)
          BY DEF DeviceSet
    <3>6. c' = c  BY <1>2
    <3> HIDE DEF c
    <3>7. EngineSet(i, c)'  BY <1>2, <3>2, <3>3, <3>4, <3>5, <3>6 DEF EngineSet
    <3>8. MemorySet(i, c)'  BY <1>2, <3>2, <3>3, <3>4, <3>5, <3>6 DEF MemorySet
    <3>9. PowerSet(i, c)'   BY <1>2, <3>2, <3>3, <3>4, <3>5, <3>6 DEF PowerSet
    <3>10. FanSet(i, c)'    BY <1>2, <3>2, <3>3, <3>4, <3>5, <3>6 DEF FanSet
    <3> QED BY <3>7, <3>8, <3>9, <3>10 DEF DeviceSet, c
  <2> QED BY <2>2, <2>3
<1> QED BY <1>5, OneSetKeeps

\* What a setting finds at its turn.
LEMMA DeviceBefore ==
    ASSUME AdlIInv, NEW k \in 0 .. 3, Turn(k), adlStep' = adlStep + 1, OneSet, Smooth',
           NEW i \in Device, i = device
    PROVE  /\ HasAdl(device) /\ DeviceSet(i) /\ ~Had(i, k)
           /\ gpus[device].card = layout.opencl[i + 1] /\ layout.opencl[i + 1] \in Cards
           /\ gpus[device].has_fanspeed = layout.fan[layout.opencl[i + 1]]
           /\ \A j \in 0 .. 3 : Had(i, j)' <=> Had(i, j) \/ j = k
           /\ troubled' = {}
           /\ UNCHANGED <<layout, settings, atStart>>
<1>1. AdlTypes  BY DEF AdlIInv
<1>2. UNCHANGED <<layout, settings, atStart>> /\ adlPc = "set"
      BY DEF OneSet, setRest
<1>3. Plain' <=> Plain  BY <1>2, SameLayout
<1>4. Smooth /\ troubled' = {}  BY <1>3 DEF Smooth, OneSet
<1>5. HasAdl(device) /\ IsFound(device)  BY <1>4, SmoothTurn
<1>6. /\ ~Had(device, k)
      /\ \A n \in Device, j \in 0 .. 3 : Had(n, j)' <=> Had(n, j) \/ (n = device /\ j = k)
      BY <1>1, TurnFacts
<1>7. DeviceSet(i)  BY <1>2, <1>4 DEF AdlIInv, SetSoFar, DeviceSet
<1>8. layout.opencl[i + 1] \in Cards  BY <1>1, DeviceFacts
<1>9. /\ ~Had(i, k)
      /\ \A j \in 0 .. 3 : Had(i, j)' <=> Had(i, j) \/ j = k
      BY <1>6
<1> QED BY <1>2, <1>4, <1>5, <1>7, <1>8, <1>9 DEF IsFound

LEMMA EngineIInv ==
    ASSUME AdlIInv, set_engineclock
    PROVE  AdlIInv'
<1>1. AdlTypes  BY DEF AdlIInv
<1>2. Turn(0) /\ SetClock("engine", settings[device].core) /\ adlStep' = adlStep + 1
      /\ UNCHANGED setRest
      BY DEF set_engineclock
<1>3. device \in Device  BY <1>1, <1>2, TurnFacts
<1>4. settings[device].core \in Nat  BY <1>1, <1>3, DeviceFacts
<1>5. /\ OneSet
      /\ troubled' = {} /\ HasAdl(device) =>
           LET c == gpus[device].card IN
           IF settings[device].core = 0 THEN UNCHANGED card
           ELSE card' = [card EXCEPT ![c].levels =
                            Clocked(card[c].levels, "engine", settings[device].core)]
  <2> HIDE DEF device
  <2> QED BY <1>1, <1>2, <1>4, ClockSet
<1>6. ASSUME NEW i \in Device, Smooth', i = device  PROVE DeviceSet(i)'
  <2> DEFINE c == layout.opencl[i + 1]  value == settings[i].core
  <2>1. /\ HasAdl(device) /\ DeviceSet(i) /\ ~Had(i, 0)
        /\ gpus[device].card = c /\ c \in Cards
        /\ \A j \in 0 .. 3 : Had(i, j)' <=> Had(i, j) \/ j = 0
        /\ troubled' = {}
        /\ UNCHANGED <<layout, settings, atStart>>
        BY <1>2, <1>5, <1>6, DeviceBefore
  <2>2. IF value = 0 THEN UNCHANGED card
        ELSE card' = [card EXCEPT ![c].levels = Clocked(card[c].levels, "engine", value)]
        BY <1>5, <1>6, <2>1
  <2>3. card \in [Cards -> CardStates] /\ card[c] \in CardStates /\ card[c].levels \in Levels
        BY <1>1, <2>1, CardType DEF AdlTypes
  <2>4. value \in Nat  BY <1>4, <1>6
  <2>5. EngineSet(i, c) /\ MemorySet(i, c) /\ PowerSet(i, c) /\ FanSet(i, c)
        BY <2>1 DEF DeviceSet
  <2>6. /\ Had(i, 0)' /\ ~Had(i, 0)
        /\ Had(i, 1)' <=> Had(i, 1)
        /\ Had(i, 2)' <=> Had(i, 2)
        /\ Had(i, 3)' <=> Had(i, 3)
        BY <2>1
  <2>7. c' = c /\ value' = value  BY <2>1
  <2> HIDE DEF c, value
  <2>8. /\ card'[c].power = card[c].power /\ card'[c].fan = card[c].fan
        /\ card'[c].levels[Top].memory = card[c].levels[Top].memory
        /\ card'[c].levels[Top].engine = IF value # 0 THEN value ELSE card[c].levels[Top].engine
    <3>1. CASE value = 0
          BY <2>2, <3>1
    <3>2. CASE value # 0
      <4> DEFINE q == Clocked(card[c].levels, "engine", value)
      <4>1. card'[c] = [card[c] EXCEPT !.levels = q]  BY <2>1, <2>2, <2>3, <3>2
      <4>2. q[Top].engine = value /\ q[Top].memory = card[c].levels[Top].memory
        <5>1. ClockedRight(card[c].levels, "engine", value, q)  BY <2>3, <2>4, ClockedFacts
        <5> HIDE DEF q
        <5> QED BY <5>1 DEF ClockedRight
      <4> HIDE DEF q
      <4>3. card'[c].levels = q /\ card'[c].power = card[c].power /\ card'[c].fan = card[c].fan
            BY <2>3, <4>1 DEF CardStates
      <4> QED BY <3>2, <4>2, <4>3
    <3> QED BY <3>1, <3>2
  <2>9. EngineSet(i, c)'  BY <2>1, <2>5, <2>6, <2>7, <2>8 DEF EngineSet, value
  <2>10. MemorySet(i, c)'  BY <2>1, <2>5, <2>6, <2>7, <2>8 DEF MemorySet
  <2>11. PowerSet(i, c)'  BY <2>1, <2>5, <2>6, <2>7, <2>8 DEF PowerSet
  <2>12. FanSet(i, c)'  BY <2>1, <2>5, <2>6, <2>7, <2>8 DEF FanSet
  <2> QED BY <2>9, <2>10, <2>11, <2>12 DEF DeviceSet, c
<1> QED BY <1>2, <1>5, <1>6, OthersStaySet

LEMMA MemoryIInv ==
    ASSUME AdlIInv, set_memoryclock
    PROVE  AdlIInv'
<1>1. AdlTypes  BY DEF AdlIInv
<1>2. Turn(1) /\ SetClock("memory", settings[device].memory) /\ adlStep' = adlStep + 1
      /\ UNCHANGED setRest
      BY DEF set_memoryclock
<1>3. device \in Device  BY <1>1, <1>2, TurnFacts
<1>4. settings[device].memory \in Nat  BY <1>1, <1>3, DeviceFacts
<1>5. /\ OneSet
      /\ troubled' = {} /\ HasAdl(device) =>
           LET c == gpus[device].card IN
           IF settings[device].memory = 0 THEN UNCHANGED card
           ELSE card' = [card EXCEPT ![c].levels =
                            Clocked(card[c].levels, "memory", settings[device].memory)]
  <2> HIDE DEF device
  <2> QED BY <1>1, <1>2, <1>4, ClockSet
<1>6. ASSUME NEW i \in Device, Smooth', i = device  PROVE DeviceSet(i)'
  <2> DEFINE c == layout.opencl[i + 1]  value == settings[i].memory
  <2>1. /\ HasAdl(device) /\ DeviceSet(i) /\ ~Had(i, 1)
        /\ gpus[device].card = c /\ c \in Cards
        /\ \A j \in 0 .. 3 : Had(i, j)' <=> Had(i, j) \/ j = 1
        /\ troubled' = {}
        /\ UNCHANGED <<layout, settings, atStart>>
        BY <1>2, <1>5, <1>6, DeviceBefore
  <2>2. IF value = 0 THEN UNCHANGED card
        ELSE card' = [card EXCEPT ![c].levels = Clocked(card[c].levels, "memory", value)]
        BY <1>5, <1>6, <2>1
  <2>3. card \in [Cards -> CardStates] /\ card[c] \in CardStates /\ card[c].levels \in Levels
        BY <1>1, <2>1, CardType DEF AdlTypes
  <2>4. value \in Nat  BY <1>4, <1>6
  <2>5. EngineSet(i, c) /\ MemorySet(i, c) /\ PowerSet(i, c) /\ FanSet(i, c)
        BY <2>1 DEF DeviceSet
  <2>6. /\ Had(i, 1)' /\ ~Had(i, 1)
        /\ Had(i, 0)' <=> Had(i, 0)
        /\ Had(i, 2)' <=> Had(i, 2)
        /\ Had(i, 3)' <=> Had(i, 3)
        BY <2>1
  <2>7. c' = c /\ value' = value  BY <2>1
  <2> HIDE DEF c, value
  <2>8. /\ card'[c].power = card[c].power /\ card'[c].fan = card[c].fan
        /\ card'[c].levels[Top].engine = card[c].levels[Top].engine
        /\ card'[c].levels[Top].memory = IF value # 0 THEN value ELSE card[c].levels[Top].memory
    <3>1. CASE value = 0
          BY <2>2, <3>1
    <3>2. CASE value # 0
      <4> DEFINE q == Clocked(card[c].levels, "memory", value)
      <4>1. card'[c] = [card[c] EXCEPT !.levels = q]  BY <2>1, <2>2, <2>3, <3>2
      <4>2. q[Top].memory = value /\ q[Top].engine = card[c].levels[Top].engine
        <5>1. ClockedRight(card[c].levels, "memory", value, q)  BY <2>3, <2>4, ClockedFacts
        <5> HIDE DEF q
        <5> QED BY <5>1 DEF ClockedRight
      <4> HIDE DEF q
      <4>3. card'[c].levels = q /\ card'[c].power = card[c].power /\ card'[c].fan = card[c].fan
            BY <2>3, <4>1 DEF CardStates
      <4> QED BY <3>2, <4>2, <4>3
    <3> QED BY <3>1, <3>2
  <2>9. EngineSet(i, c)'  BY <2>1, <2>5, <2>6, <2>7, <2>8 DEF EngineSet
  <2>10. MemorySet(i, c)'  BY <2>1, <2>5, <2>6, <2>7, <2>8 DEF MemorySet, value
  <2>11. PowerSet(i, c)'  BY <2>1, <2>5, <2>6, <2>7, <2>8 DEF PowerSet
  <2>12. FanSet(i, c)'  BY <2>1, <2>5, <2>6, <2>7, <2>8 DEF FanSet
  <2> QED BY <2>9, <2>10, <2>11, <2>12 DEF DeviceSet, c
<1> QED BY <1>2, <1>5, <1>6, OthersStaySet

LEMMA PowerIInv ==
    ASSUME AdlIInv, set_powertune
    PROVE  AdlIInv'
<1>1. AdlTypes  BY DEF AdlIInv
<1>2. Turn(2) /\ adlStep' = adlStep + 1 /\ UNCHANGED setRest
      BY DEF set_powertune
<1>3. device \in Device  BY <1>1, <1>2, TurnFacts
<1> DEFINE d == gpus[device].card  power == settings[device].power
<1>4. d \in Cards  BY <1>1, <1>3, GpuType
<1>5. card \in [Cards -> CardStates] /\ card[d] \in CardStates
      BY <1>1, <1>4, CardType DEF AdlTypes
<1>6. /\ OneSet
      /\ troubled' = {} /\ HasAdl(device) =>
            card' = IF power \notin PowerRange THEN card ELSE [card EXCEPT ![d].power = power]
  <2>1. CASE power \notin PowerRange \/ ~HasAdl(device)
    <3>1. UNCHANGED <<card, gpus, failures, troubled>>  BY <2>1 DEF set_powertune
    <3>2. failures' \in 0 .. MaxFailures /\ troubled \subseteq troubled' /\ troubled' \in SUBSET Cards
          BY <1>1, <3>1 DEF AdlTypes
    <3>3. OneSet  BY <1>1, <1>2, <3>1, <3>2, OneSetIf
    <3> QED BY <2>1, <3>1, <3>3
  <2>2. CASE power \in PowerRange /\ HasAdl(device)
    <3>1. PICK failing \in Failing({"set"}) :
             /\ card' = IF failing # {} THEN card
                        ELSE [card EXCEPT ![d].power = settings[device].power]
             /\ gpus' = [gpus EXCEPT ![device].managed = TRUE]
             /\ Trouble(failing, {d})
          BY <2>2 DEF set_powertune
    <3>2. /\ failures' \in 0 .. MaxFailures
          /\ troubled \subseteq troubled' /\ troubled' \in SUBSET Cards
          /\ failing # {} => d \in troubled'
      <4>1. IsFiniteSet({"set"})  BY FewFinite
      <4>2. {d} \in SUBSET Cards  BY <1>4
      <4> HIDE DEF d
      <4> QED BY <1>1, <3>1, <4>1, <4>2, TroubleFacts
    <3>3. gpus[device].has_adl  BY <2>2 DEF HasAdl
    <3>4. CASE failing # {}
      <4>1. UNCHANGED card  BY <3>1, <3>4
      <4>2. OneSet  BY <1>1, <1>2, <3>1, <3>2, <3>3, <4>1, OneSetIf
      <4>3. troubled' # {}  BY <3>2, <3>4
      <4> QED BY <4>2, <4>3
    <3>5. CASE failing = {}
      <4> DEFINE q == [card[d] EXCEPT !.power = power]
      <4>1. power \in Int  BY <2>2 DEF PowerRange
      <4>2. q \in CardStates /\ q.levels = card[d].levels
        <5> HIDE DEF power, d
        <5> QED BY <1>5, <4>1 DEF CardStates
      <4>3. card' = [card EXCEPT ![d].power = power] /\ card' = [card EXCEPT ![d] = q]
            BY <3>1, <3>5
      <4> HIDE DEF q
      <4>4. CardReplaced(q)  BY <4>2, <4>3 DEF CardReplaced
      <4>5. OneSet
        <5>1. \E r \in CardStates : CardReplaced(r)  BY <4>2, <4>4
        <5> QED BY <1>1, <1>2, <3>1, <3>2, <3>3, <5>1, OneSetIf
      <4> QED BY <2>2, <4>3, <4>5
    <3> QED BY <3>4, <3>5
  <2> QED BY <2>1, <2>2
<1>7. ASSUME NEW i \in Device, Smooth', i = device  PROVE DeviceSet(i)'
  <2> DEFINE c == layout.opencl[i + 1]  value == settings[i].power
  <2>1. /\ HasAdl(device) /\ DeviceSet(i) /\ ~Had(i, 2)
        /\ d = c /\ c \in Cards
        /\ \A j \in 0 .. 3 : Had(i, j)' <=> Had(i, j) \/ j = 2
        /\ troubled' = {}
        /\ UNCHANGED <<layout, settings, atStart>>
        BY <1>2, <1>6, <1>7, DeviceBefore
  <2>2. card' = IF value \notin PowerRange THEN card ELSE [card EXCEPT ![c].power = value]
        BY <1>6, <1>7, <2>1
  <2>3. card \in [Cards -> CardStates] /\ card[c] \in CardStates
        BY <1>5, <2>1
  <2>4. EngineSet(i, c) /\ MemorySet(i, c) /\ PowerSet(i, c) /\ FanSet(i, c)
        BY <2>1 DEF DeviceSet
  <2>5. /\ Had(i, 2)' /\ ~Had(i, 2)
        /\ Had(i, 0)' <=> Had(i, 0)
        /\ Had(i, 1)' <=> Had(i, 1)
        /\ Had(i, 3)' <=> Had(i, 3)
        BY <2>1
  <2>6. c' = c /\ value' = value  BY <2>1
  <2> HIDE DEF c, value, d, power
  <2>7. /\ card'[c].levels = card[c].levels /\ card'[c].fan = card[c].fan
        /\ card'[c].power = IF value \in PowerRange THEN value ELSE card[c].power
    <3>1. CASE value \notin PowerRange
          BY <2>2, <3>1
    <3>2. CASE value \in PowerRange
      <4>1. card'[c] = [card[c] EXCEPT !.power = value]  BY <2>1, <2>2, <2>3, <3>2
      <4> QED BY <2>3, <3>2, <4>1 DEF CardStates
    <3> QED BY <3>1, <3>2
  <2>8. EngineSet(i, c)'  BY <2>1, <2>4, <2>5, <2>6, <2>7 DEF EngineSet
  <2>9. MemorySet(i, c)'  BY <2>1, <2>4, <2>5, <2>6, <2>7 DEF MemorySet
  <2>10. PowerSet(i, c)'  BY <2>1, <2>4, <2>5, <2>6, <2>7 DEF PowerSet, value
  <2>11. FanSet(i, c)'  BY <2>1, <2>4, <2>5, <2>6, <2>7 DEF FanSet
  <2> QED BY <2>8, <2>9, <2>10, <2>11 DEF DeviceSet, c
<1> QED BY <1>2, <1>6, <1>7, OthersStaySet

LEMMA FanIInv ==
    ASSUME AdlIInv, set_fanspeed
    PROVE  AdlIInv'
<1>1. AdlTypes  BY DEF AdlIInv
<1>2. Turn(3) /\ adlStep' = adlStep + 1 /\ UNCHANGED setRest
      BY DEF set_fanspeed
<1>3. device \in Device  BY <1>1, <1>2, TurnFacts
<1> DEFINE d == gpus[device].card  fan == settings[device].fan
           off == fan = 0 \/ ~HasAdl(device) \/ ~gpus[device].has_fanspeed
<1>4. d \in Cards  BY <1>1, <1>3, GpuType
<1>5. card \in [Cards -> CardStates] /\ card[d] \in CardStates
      BY <1>1, <1>4, CardType DEF AdlTypes
<1>6. fan \in Nat  BY <1>1, <1>3, DeviceFacts
<1>7. /\ OneSet
      /\ off => UNCHANGED card
      /\ ~off /\ troubled' = {} =>
            \E user \in BOOLEAN : card' = [card EXCEPT ![d].user = user, ![d].fan = fan]
  <2>1. CASE off
    <3>1. UNCHANGED <<card, gpus, failures, troubled>>  BY <2>1 DEF set_fanspeed
    <3>2. failures' \in 0 .. MaxFailures /\ troubled \subseteq troubled' /\ troubled' \in SUBSET Cards
          BY <1>1, <3>1 DEF AdlTypes
    <3>3. OneSet  BY <1>1, <1>2, <3>1, <3>2, OneSetIf
    <3> QED BY <2>1, <3>1, <3>3
  <2>2. CASE ~off
    <3>1. PICK failing \in Failing({"get", "user", "set"}) :
             /\ card' = [card EXCEPT
                   ![d].user = @ \/ failing \cap {"user", "get"} = {} \/ "set" \notin failing,
                   ![d].fan = IF "set" \in failing THEN @ ELSE settings[device].fan]
             /\ gpus' = [gpus EXCEPT ![device].managed = TRUE]
             /\ Trouble(failing, {d})
          BY <2>2 DEF set_fanspeed
    <3>2. /\ failures' \in 0 .. MaxFailures
          /\ troubled \subseteq troubled' /\ troubled' \in SUBSET Cards
          /\ failing # {} => d \in troubled'
      <4>1. IsFiniteSet({"get", "user", "set"})  BY FewFinite
      <4>2. {d} \in SUBSET Cards  BY <1>4
      <4> HIDE DEF d
      <4> QED BY <1>1, <3>1, <4>1, <4>2, TroubleFacts
    <3>3. gpus[device].has_adl  BY <2>2 DEF HasAdl
    <3> DEFINE user == card[d].user \/ failing \cap {"user", "get"} = {} \/ "set" \notin failing
               speed == IF "set" \in failing THEN card[d].fan ELSE fan
               q == [card[d] EXCEPT !.user = user, !.fan = speed]
    <3>4. user \in BOOLEAN  OBVIOUS
    <3>5. speed \in Nat
      <4>1. speed \in {card[d].fan, fan}  OBVIOUS
      <4>2. card[d].fan \in Nat  BY <1>5 DEF CardStates
      <4> HIDE DEF speed, fan, d
      <4> QED BY <1>6, <4>1, <4>2
    <3>6. card' = [card EXCEPT ![d].user = user, ![d].fan = speed]
      <4> HIDE DEF d
      <4> QED BY <1>4, <1>5, <3>1
    <3>7. failing = {} => speed = fan  OBVIOUS
    <3> HIDE DEF user, speed
    <3>8. q \in CardStates /\ q.levels = card[d].levels
      <4> HIDE DEF d
      <4> QED BY <1>5, <3>4, <3>5 DEF CardStates
    <3>9. card' = [card EXCEPT ![d] = q]
      <4> HIDE DEF d
      <4> QED BY <1>4, <1>5, <3>6
    <3>10. CardReplaced(q)
      <4> HIDE DEF q
      <4> QED BY <3>8, <3>9 DEF CardReplaced
    <3>11. OneSet
      <4>1. \E r \in CardStates : CardReplaced(r)  BY <3>8, <3>10
      <4> QED BY <1>1, <1>2, <3>1, <3>2, <3>3, <4>1, OneSetIf
    <3>12. ASSUME troubled' = {}
           PROVE  \E u \in BOOLEAN : card' = [card EXCEPT ![d].user = u, ![d].fan = fan]
      <4>1. failing = {}  BY <3>2, <3>12
      <4>2. speed = fan  BY <3>7, <4>1
      <4> HIDE DEF d, fan
      <4> QED BY <3>4, <3>6, <4>2
    <3> QED BY <2>2, <3>11, <3>12
  <2> QED BY <2>1, <2>2
<1>8. ASSUME NEW i \in Device, Smooth', i = device  PROVE DeviceSet(i)'
  <2> DEFINE c == layout.opencl[i + 1]  value == settings[i].fan
  <2>1. /\ HasAdl(device) /\ DeviceSet(i) /\ ~Had(i, 3)
        /\ d = c /\ c \in Cards
        /\ gpus[device].has_fanspeed = layout.fan[c]
        /\ \A j \in 0 .. 3 : Had(i, j)' <=> Had(i, j) \/ j = 3
        /\ troubled' = {}
        /\ UNCHANGED <<layout, settings, atStart>>
        BY <1>2, <1>7, <1>8, DeviceBefore
  <2>2. /\ value = 0 \/ ~layout.fan[c] => UNCHANGED card
        /\ ~(value = 0 \/ ~layout.fan[c]) =>
              \E user \in BOOLEAN : card' = [card EXCEPT ![c].user = user, ![c].fan = value]
        BY <1>7, <1>8, <2>1
  <2>3. card \in [Cards -> CardStates] /\ card[c] \in CardStates
        BY <1>5, <2>1
  <2>4. EngineSet(i, c) /\ MemorySet(i, c) /\ PowerSet(i, c) /\ FanSet(i, c)
        BY <2>1 DEF DeviceSet
  <2>5. /\ Had(i, 3)' /\ ~Had(i, 3)
        /\ Had(i, 0)' <=> Had(i, 0)
        /\ Had(i, 1)' <=> Had(i, 1)
        /\ Had(i, 2)' <=> Had(i, 2)
        BY <2>1
  <2>6. c' = c /\ value' = value  BY <2>1
  <2> HIDE DEF c, value, d, fan, off
  <2>7. /\ card'[c].levels = card[c].levels /\ card'[c].power = card[c].power
        /\ layout.fan[c] => card'[c].fan = IF value # 0 THEN value ELSE card[c].fan
    <3>1. CASE value = 0 \/ ~layout.fan[c]
          BY <2>2, <3>1
    <3>2. CASE ~(value = 0 \/ ~layout.fan[c])
      <4>1. PICK user \in BOOLEAN : card' = [card EXCEPT ![c].user = user, ![c].fan = value]
            BY <2>2, <3>2
      <4>2. card'[c] = [card[c] EXCEPT !.user = user, !.fan = value]  BY <2>1, <2>3, <4>1
      <4> QED BY <2>3, <3>2, <4>2 DEF CardStates
    <3> QED BY <3>1, <3>2
  <2>8. EngineSet(i, c)'  BY <2>1, <2>4, <2>5, <2>6, <2>7 DEF EngineSet
  <2>9. MemorySet(i, c)'  BY <2>1, <2>4, <2>5, <2>6, <2>7 DEF MemorySet
  <2>10. PowerSet(i, c)'  BY <2>1, <2>4, <2>5, <2>6, <2>7 DEF PowerSet
  <2>11. FanSet(i, c)'  BY <2>1, <2>4, <2>5, <2>6, <2>7 DEF FanSet, value
  <2> QED BY <2>8, <2>9, <2>10, <2>11 DEF DeviceSet, c
<1> QED BY <1>2, <1>7, <1>8, OthersStaySet

-----------------------------------------------------------------------------
(* The end of the process.                                                 *)

\* What clear_adl makes of the card of device i.
PutBackBy(i, failing, c) ==
    [card[c] EXCEPT
        !.levels = IF <<"levels", i>> \in failing THEN @ ELSE gpus[i].DefPerfLev,
        !.fan = IF <<"default_fan", i>> \notin failing THEN AutoFan
                ELSE IF <<"fan", i>> \notin failing THEN gpus[i].DefFanSpeed ELSE @,
        !.user = @ /\ <<"default_fan", i>> \in failing]

\* A card after the end: as it was, or with what its device has kept.
Ended(c, i, q) ==
    /\ q \in CardStates
    /\ q.levels \in {card[c].levels, gpus[i].DefPerfLev}
    /\ c \notin troubled' => q.levels = gpus[i].DefPerfLev /\ q.fan = AutoFan /\ ~q.user

LEMMA PutBackByFacts ==
    ASSUME AdlTypes, NEW i \in Device, NEW c \in Cards, NEW failing,
           c \notin troubled' =>
              <<"levels", i>> \notin failing /\ <<"default_fan", i>> \notin failing
    PROVE  Ended(c, i, PutBackBy(i, failing, c))
<1> DEFINE a == <<"levels", i>> \in failing
           b == <<"default_fan", i>> \in failing
           f == <<"fan", i>> \in failing
           q == PutBackBy(i, failing, c)
           levels == IF a THEN card[c].levels ELSE gpus[i].DefPerfLev
           fan == IF ~b THEN AutoFan ELSE IF ~f THEN gpus[i].DefFanSpeed ELSE card[c].fan
           user == card[c].user /\ b
<1>1. q = [card[c] EXCEPT !.levels = levels, !.fan = fan, !.user = user]
  <2>1. card[c] \in CardStates  BY CardType
  <2>2. DOMAIN card[c] = {"levels", "fan", "user", "power"}  BY <2>1 DEF CardStates
  <2> QED BY <2>2 DEF PutBackBy
<1>2. a \in BOOLEAN /\ b \in BOOLEAN /\ f \in BOOLEAN /\ user \in BOOLEAN  OBVIOUS
<1>3. c \notin troubled' => ~a /\ ~b  OBVIOUS
<1>4. levels \in {card[c].levels, gpus[i].DefPerfLev}  OBVIOUS
<1>5. fan \in {AutoFan, gpus[i].DefFanSpeed, card[c].fan}  OBVIOUS
<1>6. ~a => levels = gpus[i].DefPerfLev  OBVIOUS
<1>7. ~b => fan = AutoFan /\ ~user  OBVIOUS
<1> HIDE DEF q, a, b, f, levels, fan, user
<1>8. card[c] \in CardStates /\ card[c].levels \in Levels /\ card[c].fan \in Nat
      BY CardType
<1>9. gpus[i].DefPerfLev \in Levels /\ gpus[i].DefFanSpeed \in Nat
      BY GpuType
<1>10. levels \in Levels /\ fan \in Nat
       BY <1>4, <1>5, <1>8, <1>9 DEF AutoFan
<1>11. q \in CardStates /\ q.levels = levels /\ q.fan = fan /\ (q.user <=> user)
       BY <1>1, <1>2, <1>8, <1>10 DEF CardStates
<1> QED BY <1>3, <1>4, <1>6, <1>7, <1>11 DEF Ended, q

\* What clear_adl does to the cards, with its failures.
LEMMA ClearFacts ==
    ASSUME AdlIInv, clear_adl
    PROVE  /\ card' \in [Cards -> CardStates]
           /\ failures' \in 0 .. MaxFailures
           /\ troubled \subseteq troubled' /\ troubled' \in SUBSET Cards
           /\ \A c \in Cards : \/ card'[c] = card[c] /\ \A i \in Device : ~Manages(i, c)
                               \/ \E i \in Device : Manages(i, c) /\ Ended(c, i, card'[c])
<1>1. AdlTypes  BY DEF AdlIInv
<1> DEFINE calls == {"levels", "fan", "default_fan"} \X Device
           set == IF adl_active THEN Failing(calls) ELSE {{}}
<1>2. PICK failing \in set :
          /\ card' = [c \in Cards |->
                IF ~adl_active \/ ~\E i \in Device : Manages(i, c) THEN card[c]
                ELSE PutBackBy(CHOOSE i \in Device : Manages(i, c), failing, c)]
          /\ Trouble(failing, {gpus[f[2]].card : f \in failing})
      BY DEF clear_adl, PutBackBy
<1>3. IsFiniteSet(calls)
  <2>1. nDevs \in Nat  BY <1>1, DeviceFacts
  <2>2. IsFiniteSet(Device)  BY <2>1, FS_Interval DEF Device
  <2>3. IsFiniteSet({"levels", "fan", "default_fan"})  BY FewFinite
  <2> QED BY <2>2, <2>3, FS_Product
<1>4. failing \in Failing(calls)
  <2>1. CASE adl_active  BY <2>1
  <2>2. CASE ~adl_active
    <3>1. failing = {}  BY <2>2
    <3>2. Cardinality({}) = 0  BY FS_EmptySet
    <3>3. failures + 0 <= MaxFailures
      <4>1. failures \in 0 .. MaxFailures  BY <1>1 DEF AdlTypes
      <4> QED BY <4>1, AdlAssumption
    <3>4. {} \in SUBSET calls  OBVIOUS
    <3> HIDE DEF calls
    <3> QED BY <3>1, <3>2, <3>3, <3>4 DEF Failing
  <2> QED BY <2>1, <2>2
<1>5. failing \in SUBSET calls  BY <1>4 DEF Failing
<1> DEFINE cards == {gpus[f[2]].card : f \in failing}
<1>6. cards \in SUBSET Cards
  <2> SUFFICES ASSUME NEW f \in failing PROVE gpus[f[2]].card \in Cards
      OBVIOUS
  <2>1. f \in calls  BY <1>5
  <2>2. f[2] \in Device  BY <2>1
  <2> QED BY <1>1, <2>2, GpuType
<1>7. /\ failures' \in 0 .. MaxFailures
      /\ troubled \subseteq troubled' /\ troubled' \in SUBSET Cards
      /\ failing # {} => cards \subseteq troubled'
  <2> HIDE DEF calls, cards
  <2>1. Trouble(failing, cards)  BY <1>2 DEF cards
  <2> QED BY <1>1, <1>3, <1>4, <1>6, <2>1, TroubleFacts
<1>8. ASSUME NEW c \in Cards
      PROVE  /\ card'[c] \in CardStates
             /\ \/ card'[c] = card[c] /\ \A i \in Device : ~Manages(i, c)
                \/ \E i \in Device : Manages(i, c) /\ Ended(c, i, card'[c])
  <2>1. CASE ~\E i \in Device : Manages(i, c)
    <3>1. card'[c] = card[c]  BY <1>2, <2>1
    <3> QED BY <1>1, <2>1, <3>1, CardType
  <2>2. CASE \E i \in Device : Manages(i, c)
    <3> DEFINE i == CHOOSE i \in Device : Manages(i, c)
    <3>1. i \in Device /\ Manages(i, c)  BY <2>2
    <3>2. adlPc = "set"  BY DEF clear_adl
    <3>3. adl_active
      <4>1. gpus[i].has_adl  BY <3>1 DEF Manages
      <4> HIDE DEF i
      <4> QED BY <3>1, <3>2, <4>1 DEF AdlIInv, ActiveIfAny
    <3>4. card'[c] = PutBackBy(i, failing, c)  BY <1>2, <2>2, <3>3
    <3> HIDE DEF i
    <3>5. ASSUME c \notin troubled', NEW x  PROVE <<x, i>> \notin failing
      <4> SUFFICES ASSUME <<x, i>> \in failing PROVE FALSE
          OBVIOUS
      <4>1. <<x, i>>[2] = i  OBVIOUS
      <4>2. gpus[i].card \in cards  BY <4>1
      <4>3. gpus[i].card = c  BY <3>1 DEF Manages
      <4>4. failing # {}  OBVIOUS
      <4> HIDE DEF cards
      <4> QED BY <1>7, <3>5, <4>2, <4>3, <4>4
    <3>6. Ended(c, i, PutBackBy(i, failing, c))
          BY <1>1, <3>1, <3>5, PutBackByFacts
    <3>7. card'[c] \in CardStates  BY <3>4, <3>6 DEF Ended
    <3> QED BY <3>1, <3>4, <3>6, <3>7
  <2> QED BY <2>1, <2>2
<1>9. card' \in [Cards -> CardStates]
  <2>1. card' = [c \in Cards |-> card'[c]]  BY <1>2
  <2> QED BY <1>8, <2>1
<1> QED BY <1>7, <1>8, <1>9

LEMMA ClearIInv ==
    ASSUME AdlIInv, clear_adl
    PROVE  AdlIInv'
<1>1. AdlTypes  BY DEF AdlIInv
<1>2. /\ adlPc = "set" /\ adlPc' = "down" /\ adl_active' = FALSE /\ clean' = TRUE
      /\ spoilt' = spoilt \cup {c \in Cards : card'[c].levels = Garbage}
      /\ UNCHANGED <<layout, settings, gpu, adlStep, adapters, gpus, starts, atStart>>
      BY DEF clear_adl
<1>3. Device' = Device /\ nDevs' = nDevs /\ Adls' = Adls
      BY <1>2, SameLayout
<1>4. /\ card' \in [Cards -> CardStates]
      /\ failures' \in 0 .. MaxFailures
      /\ troubled \subseteq troubled' /\ troubled' \in SUBSET Cards
      /\ \A c \in Cards : \/ card'[c] = card[c] /\ \A i \in Device : ~Manages(i, c)
                          \/ \E i \in Device : Manages(i, c) /\ Ended(c, i, card'[c])
      BY ClearFacts
<1>5. spoilt \subseteq spoilt' /\ spoilt' \in SUBSET Cards
      BY <1>1, <1>2 DEF AdlTypes
<1>6. AdlTypes'  BY <1>1, <1>2, <1>3, <1>4, <1>5 DEF AdlTypes
<1>7. LevelsOrdered'
  <2> SUFFICES ASSUME NEW c \in Cards \ spoilt' PROVE Ordered(card'[c].levels)
      BY DEF LevelsOrdered
  <2>1. c \notin spoilt /\ card'[c].levels # Garbage  BY <1>2, <1>5
  <2>2. Ordered(card[c].levels)  BY <2>1 DEF AdlIInv, LevelsOrdered
  <2>3. ASSUME NEW i \in Device, Manages(i, c), Ended(c, i, card'[c])
        PROVE  Ordered(card'[c].levels)
    <3>1. gpus[i].has_adl /\ gpus[i].card = c  BY <2>3 DEF Manages
    <3>2. gpus[i].DefPerfLev = Garbage \/ Ordered(gpus[i].DefPerfLev)
          BY <2>1, <3>1 DEF AdlIInv, SavedOrdered
    <3>3. card'[c].levels \in {card[c].levels, gpus[i].DefPerfLev}  BY <2>3 DEF Ended
    <3> QED BY <2>1, <2>2, <3>2, <3>3
  <2> QED BY <1>4, <2>2, <2>3
<1>8. PutBack'
  <2> SUFFICES ASSUME NEW c \in Cards \ troubled'
               PROVE  /\ card'[c].levels = atStart[c].levels
                      /\ IF \E i \in Device : Manages(i, c) THEN card'[c].fan = AutoFan /\ ~card'[c].user
                         ELSE card'[c] = atStart[c]
      BY <1>2, <1>3 DEF PutBack, Manages
  <2>1. c \notin troubled  BY <1>4
  <2>2. CASE \A i \in Device : ~Manages(i, c)
    <3>1. card'[c] = card[c]  BY <1>4, <2>2
    <3>2. card[c] = atStart[c]  BY <1>2, <2>1, <2>2 DEF AdlIInv, OnlyManaged
    <3> QED BY <2>2, <3>1, <3>2
  <2>3. CASE ~\A i \in Device : ~Manages(i, c)
    <3>1. PICK i \in Device : Manages(i, c) /\ Ended(c, i, card'[c])  BY <1>4, <2>3
    <3>2. card'[c].levels = gpus[i].DefPerfLev /\ card'[c].fan = AutoFan /\ ~card'[c].user
          BY <3>1 DEF Ended
    <3>3. gpus[i].has_adl /\ gpus[i].card = c  BY <3>1 DEF Manages
    <3>4. gpus[i].DefPerfLev = atStart[c].levels
          BY <2>1, <3>3 DEF AdlIInv, KnowsLevels
    <3> QED BY <3>1, <3>2, <3>4
  <2> QED BY <2>2, <2>3
<1>9. Untouched' /\ ActiveIfAny' /\ OnlyManaged' /\ NoTwinsYet' /\ FoundInOrder' /\ SetSoFar'
      BY <1>2 DEF Untouched, ActiveIfAny, OnlyManaged, NoTwinsYet, FoundInOrder, SetSoFar
<1>10. KnowsLevels'  BY <1>2, <1>3, <1>4 DEF AdlIInv, KnowsLevels
<1>11. SavedOrdered'  BY <1>2, <1>3, <1>5 DEF AdlIInv, SavedOrdered
<1>12. TwinsHaveFans'  BY <1>2, <1>3 DEF AdlIInv, TwinsHaveFans
<1> QED BY <1>6, <1>7, <1>8, <1>9, <1>10, <1>11, <1>12 DEF AdlIInv

LEMMA ExitIInv ==
    ASSUME AdlIInv, ExitUncleared
    PROVE  AdlIInv'
<1>1. /\ adlPc' = "down" /\ adl_active' = FALSE /\ clean' = FALSE
      /\ UNCHANGED <<layout, settings, card, gpu, adlStep, adapters, gpus, starts, failures,
                     atStart, troubled, spoilt>>
      BY DEF ExitUncleared
<1>2. Device' = Device /\ nDevs' = nDevs /\ Adls' = Adls
      BY <1>1, SameLayout
<1>3. AdlTypes'  BY <1>1, <1>2 DEF AdlIInv, AdlTypes
<1>4. LevelsOrdered'  BY <1>1 DEF AdlIInv, LevelsOrdered
<1>5. PutBack' /\ Untouched' /\ ActiveIfAny' /\ OnlyManaged' /\ NoTwinsYet' /\ FoundInOrder'
      /\ SetSoFar'
      BY <1>1 DEF PutBack, Untouched, ActiveIfAny, OnlyManaged, NoTwinsYet, FoundInOrder, SetSoFar
<1>6. KnowsLevels' /\ SavedOrdered' /\ TwinsHaveFans'
      BY <1>1, <1>2 DEF AdlIInv, KnowsLevels, SavedOrdered, TwinsHaveFans
<1> QED BY <1>3, <1>4, <1>5, <1>6 DEF AdlIInv

LEMMA StutterIInv ==
    ASSUME AdlIInv, UNCHANGED adlVars
    PROVE  AdlIInv'
<1>1. UNCHANGED <<layout, settings, card, adlPc, gpu, adlStep, adapters, gpus, adl_active,
                  starts, failures, atStart, troubled, spoilt, clean>>
      BY DEF adlVars
<1>2. Device' = Device /\ nDevs' = nDevs /\ Adls' = Adls /\ (Plain' <=> Plain)
      BY <1>1, SameLayout
<1>3. AdlTypes'  BY <1>1, <1>2 DEF AdlIInv, AdlTypes
<1>4. LevelsOrdered' /\ Untouched' /\ ActiveIfAny' /\ NoTwinsYet'
      BY <1>1, <1>2 DEF AdlIInv, LevelsOrdered, Untouched, ActiveIfAny, NoTwinsYet
<1>5. PutBack' /\ OnlyManaged'
      BY <1>1, <1>2 DEF AdlIInv, PutBack, OnlyManaged, Manages
<1>6. KnowsLevels' /\ SavedOrdered' /\ TwinsHaveFans'
      BY <1>1, <1>2 DEF AdlIInv, KnowsLevels, SavedOrdered, TwinsHaveFans
<1>7. FoundInOrder'  BY <1>1, <1>2 DEF AdlIInv, FoundInOrder, Smooth, IsFound
<1>8. SetSoFar'
      BY <1>1, <1>2 DEF AdlIInv, SetSoFar, Smooth, EngineSet, MemorySet, PowerSet, FanSet, Had
<1> QED BY <1>3, <1>4, <1>5, <1>6, <1>7, <1>8 DEF AdlIInv

LEMMA NextAdlIInv == AdlIInv /\ [AdlNext]_adlVars => AdlIInv'
<1> SUFFICES ASSUME AdlIInv, [AdlNext]_adlVars PROVE AdlIInv'
    OBVIOUS
<1>1. CASE prepare_adl  BY <1>1, PrepareIInv
<1>2. CASE FindAdapters  BY <1>2, AdaptersIInv
<1>3. CASE InitDevice  BY <1>3, DeviceIInv
<1>4. CASE FindTwins  BY <1>4, TwinsIInv
<1>5. CASE set_engineclock  BY <1>5, EngineIInv
<1>6. CASE set_memoryclock  BY <1>6, MemoryIInv
<1>7. CASE set_powertune  BY <1>7, PowerIInv
<1>8. CASE set_fanspeed  BY <1>8, FanIInv
<1>9. CASE clear_adl  BY <1>9, ClearIInv
<1>10. CASE ExitUncleared  BY <1>10, ExitIInv
<1>11. CASE UNCHANGED adlVars  BY <1>11, StutterIInv
<1> QED BY <1>1, <1>2, <1>3, <1>4, <1>5, <1>6, <1>7, <1>8, <1>9, <1>10, <1>11 DEF AdlNext

LEMMA AlwaysAdlIInv == AdlSpec => []AdlIInv
BY InitAdlIInv, NextAdlIInv, PTL DEF AdlSpec

-----------------------------------------------------------------------------
(* The theorems.                                                           *)

LEMMA TypesHold == AdlIInv => AdlTypeOK
<1> SUFFICES ASSUME AdlIInv PROVE AdlTypeOK
    OBVIOUS
<1>1. AdlTypes  BY DEF AdlIInv
<1>2. gpu \in 0 .. nDevs
  <2>1. Len(adapters) \in Nat /\ Len(adapters) <= nDevs /\ nDevs \in Nat
        BY <1>1, DeviceFacts, LenProperties DEF AdlTypes
  <2>2. gpu \in 0 .. Len(adapters)  BY <1>1 DEF AdlTypes
  <2> QED BY <2>1, <2>2
<1>3. \A c \in Cards : card[c].levels \in Levels /\ card[c].fan \in Nat
      BY <1>1, CardType
<1>4. \A i \in Device : gpus[i].card \in Cards /\ gpus[i].twin \in {NoTwin} \cup Device
      BY <1>1, GpuType
<1>5. troubled \cup spoilt \subseteq Cards  BY <1>1 DEF AdlTypes
<1>6. /\ adlPc \in {"down", "adapters", "devices", "set"} /\ adlStep \in 0 .. 4 * nDevs
      /\ failures \in 0 .. MaxFailures
      BY <1>1 DEF AdlTypes
<1> QED BY <1>2, <1>3, <1>4, <1>5, <1>6 DEF AdlTypeOK

LEMMA ShownHolds == AdlIInv => ShownAsSet
<1> SUFFICES ASSUME AdlIInv, adlPc = "set", adlStep = 4 * nDevs, Plain, troubled = {},
                    NEW i \in Device
             PROVE  LET c == layout.opencl[i + 1] IN
                    /\ gpu_temp(i) = c /\ gpu_activity(i) = c
                    /\ gpu_engineclock(i) = IF settings[i].core # 0 THEN settings[i].core
                                            ELSE atStart[c].levels[Top].engine
                    /\ gpu_memclock(i) = IF settings[i].memory # 0 THEN settings[i].memory
                                         ELSE atStart[c].levels[Top].memory
                    /\ gpu_powertune(i) = IF settings[i].power \in PowerRange THEN settings[i].power
                                          ELSE atStart[c].power
                    /\ layout.fan[c] => gpu_fanspeed(i) =
                          IF settings[i].fan # 0 THEN settings[i].fan ELSE atStart[c].fan
                    /\ ~layout.fan[c] /\ gpus[i].twin # NoTwin =>
                          gpu_fanspeed(i) = gpu_fanspeed(gpus[i].twin)
    BY DEF ShownAsSet
<1>1. AdlTypes  BY DEF AdlIInv
<1> DEFINE c == layout.opencl[i + 1]
<1>2. nDevs \in Nat /\ i \in Nat /\ i < nDevs  BY <1>1, DeviceFacts
<1>3. Had(i, 0) /\ Had(i, 1) /\ Had(i, 2) /\ Had(i, 3)  BY <1>2 DEF Had
<1>4. /\ adl_active
      /\ \A j \in Device : IsFound(j)
  <2>1. /\ gpu = nDevs
        /\ gpu > 0 => adl_active
        /\ \A j \in Device : j < gpu => IsFound(j)
        BY DEF AdlIInv, FoundInOrder, Smooth
  <2>2. \A j \in Device : j < nDevs  BY <1>1, DeviceFacts
  <2> QED BY <1>2, <2>1, <2>2
<1>5. \A j \in Device : HasAdl(j)
      BY <1>4 DEF IsFound, HasAdl
<1>6. gpus[i].card = c /\ gpus[i].has_fanspeed = layout.fan[c]
      BY <1>4 DEF IsFound
<1>7. EngineSet(i, c) /\ MemorySet(i, c) /\ PowerSet(i, c) /\ FanSet(i, c)
      BY DEF AdlIInv, SetSoFar, Smooth
<1> HIDE DEF c
<1>8. gpu_temp(i) = c /\ gpu_activity(i) = c
      BY <1>5, <1>6 DEF gpu_temp, gpu_activity
<1>9. gpu_engineclock(i) = IF settings[i].core # 0 THEN settings[i].core
                           ELSE atStart[c].levels[Top].engine
      BY <1>3, <1>5, <1>6, <1>7 DEF gpu_engineclock, EngineSet
<1>10. gpu_memclock(i) = IF settings[i].memory # 0 THEN settings[i].memory
                         ELSE atStart[c].levels[Top].memory
      BY <1>3, <1>5, <1>6, <1>7 DEF gpu_memclock, MemorySet
<1>11. gpu_powertune(i) = IF settings[i].power \in PowerRange THEN settings[i].power
                          ELSE atStart[c].power
      BY <1>3, <1>5, <1>6, <1>7 DEF gpu_powertune, PowerSet
<1>12. ASSUME layout.fan[c]
       PROVE  gpu_fanspeed(i) = IF settings[i].fan # 0 THEN settings[i].fan ELSE atStart[c].fan
  <2>1. fanOf(i) = c  BY <1>6, <1>12 DEF fanOf
  <2>2. gpu_fanspeed(i) = card[c].fan  BY <1>5, <1>12, <2>1 DEF gpu_fanspeed
  <2> QED BY <1>3, <1>7, <1>12, <2>2 DEF FanSet
<1>13. ASSUME ~layout.fan[c], gpus[i].twin # NoTwin
       PROVE  gpu_fanspeed(i) = gpu_fanspeed(gpus[i].twin)
  <2> DEFINE j == gpus[i].twin
  <2>1. j \in Device  BY <1>1, <1>13, GpuType
  <2>2. gpus[j].has_fanspeed  BY <1>6, <1>13 DEF AdlIInv, TwinsHaveFans
  <2>3. fanOf(j) = gpus[j].card  BY <2>2 DEF fanOf
  <2>4. fanOf(i) = gpus[j].card  BY <1>6, <1>13 DEF fanOf
  <2> HIDE DEF j
  <2>5. HasAdl(i) /\ HasAdl(j)  BY <1>5, <2>1
  <2>6. gpu_fanspeed(i) = gpu_fanspeed(j)  BY <2>3, <2>4, <2>5 DEF gpu_fanspeed
  <2> QED BY <2>6 DEF j
<1> QED BY <1>8, <1>9, <1>10, <1>11, <1>12, <1>13 DEF c

\* Type correctness: devices, settings and failures keep their ranges, whatever the driver
\* answers (adl.cpp: init_adl, setup_adl, clear_adl).
THEOREM AdlTypeCorrect == AdlSpec => []AdlTypeOK
BY AlwaysAdlIInv, TypesHold, PTL

\* For any number of cards, levels, failing calls and restarts: levels stay ordered, the
\* statistics show the clocks that are configured, and a process that comes to its end puts
\* back what its cards had (adl.cpp: set_engineclock, set_memoryclock, set_powertune,
\* set_fanspeed, gpu_stats, clear_adl).
THEOREM ClocksCorrect == AdlSpec => []ClocksRestored
<1>1. AdlIInv => ClocksRestored
  <2> SUFFICES ASSUME AdlIInv PROVE ClocksRestored
      OBVIOUS
  <2>1. LevelsOrdered /\ PutBack  BY DEF AdlIInv
  <2>2. ShownAsSet  BY ShownHolds
  <2> QED BY <2>1, <2>2 DEF ClocksRestored
<1> QED BY <1>1, AlwaysAdlIInv, PTL
=============================================================================
