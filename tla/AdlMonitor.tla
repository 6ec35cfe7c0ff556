----------------------------- MODULE AdlMonitor -----------------------------
(***************************************************************************)
(* The clocks and fans of AMD cards, adl.cpp: found when the client        *)
(* starts, set from its configuration, read for its statistics and put back*)
(* at its end.  Everything runs on the main thread; a call of the driver   *)
(* may fail, and the process may be killed at any time and started again.  *)
(*                                                                         *)
(* What init_adl would set by itself is left out: the settings in gpus are *)
(* cleared before they are looked at, and the options for automatic tuning *)
(* are off.  The driver always names the number of performance levels.     *)
(***************************************************************************)
EXTENDS Integers, Sequences, FiniteSets

CONSTANTS
    Cards,
    Layouts,        \* [adapters |-> the card of each logical adapter, id, bus, name, fan
                    \* of each card, opencl |-> the card of each device of OpenCL]; an id
                    \* of 0 is not AMD
    AdlSettings,    \* [device -> [core, memory, power, fan]], 0 for none
    Factory,        \* the performance levels of a card, [engine, memory]
    Garbage,        \* what happens to be in memory that malloc returns
    MaxStarts, MaxFailures  \* bounds

Top == Len(Factory)
Levels == [1 .. Top -> [engine : Nat, memory : Nat]]

\* No level is faster than the top one.
Ordered(levels) ==
    \A l \in 1 .. Top : /\ levels[l].engine <= levels[Top].engine
                        /\ levels[l].memory <= levels[Top].memory

ASSUME AdlAssumption ==
    /\ Cards # {} /\ MaxFailures \in Nat
    /\ \A l \in Layouts :
          /\ l.adapters \in Seq(Cards) /\ l.opencl \in Seq(Cards)
          /\ l.id \in [Cards -> Nat] /\ l.fan \in [Cards -> BOOLEAN]
          /\ \A s \in AdlSettings : \A i \in 0 .. Len(l.opencl) - 1 :
                s[i].core \in Nat /\ s[i].memory \in Nat /\ s[i].fan \in Nat
    /\ Top \in Nat \ {0} /\ Factory \in Levels /\ Garbage \in Levels /\ Ordered(Factory)

VARIABLES
    layout, settings,
    card,           \* [Cards -> the driver's [levels, fan, user, power]]
    adlPc, gpu, adlStep,
    adapters,       \* the cards found, in order
    gpus, adl_active,
    starts, failures,
    \* ghost
    atStart,        \* the cards when this process started
    troubled,       \* cards for which a call of this process failed
    spoilt,         \* cards that were ever given levels that had not been read
    clean           \* the last process has come to its end

adlVars == <<layout, settings, card, adlPc, gpu, adlStep, adapters, gpus, adl_active,
             starts, failures, atStart, troubled, spoilt, clean>>

nDevs == Len(layout.opencl)
Device == 0 .. nDevs - 1
NoTwin == -1
AutoFan == 0       \* the fan is the driver's business
PowerRange == -20 .. 20     \* another power stands for none

Cleared ==
    [i \in Device |-> [has_adl |-> FALSE, card |-> CHOOSE c \in Cards : TRUE, managed |-> FALSE,
                       DefPerfLev |-> Garbage, has_fanspeed |-> FALSE, twin |-> NoTwin,
                       DefFanSpeed |-> AutoFan]]

\* Some of the calls fail.
Failing(calls) == {failing \in SUBSET calls : failures + Cardinality(failing) <= MaxFailures}

Trouble(failing, cards) ==
    /\ failures' = failures + Cardinality(failing)
    /\ troubled' = IF failing = {} THEN troubled ELSE troubled \cup cards

AdlInit ==
    /\ layout \in Layouts /\ settings \in AdlSettings
    /\ card = [c \in Cards |-> [levels |-> Factory, fan |-> 30, user |-> TRUE, power |-> 0]]
    /\ adlPc = "down" /\ gpu = 0 /\ adlStep = 0 /\ adapters = <<>>
    /\ gpus = Cleared /\ adl_active = FALSE
    /\ starts = 0 /\ failures = 0
    /\ atStart = card /\ troubled = {} /\ spoilt = {} /\ clean = FALSE

-----------------------------------------------------------------------------
(* init_adl *)

\* The library may not be there, or miss a function; what follows then sets nothing.
prepare_adl ==
    /\ adlPc = "down" /\ starts < MaxStarts
    /\ \E failing \in Failing({"library"}) :
          /\ adlPc' = IF failing = {} THEN "adapters" ELSE "set"
          /\ failures' = failures + Cardinality(failing)
          /\ troubled' = IF failing = {} THEN {} ELSE Cards
    /\ gpus' = Cleared /\ adl_active' = FALSE /\ starts' = starts + 1
    /\ gpu' = 0 /\ adlStep' = 0 /\ adapters' = <<>> /\ atStart' = card /\ clean' = FALSE
    /\ UNCHANGED <<layout, settings, card, spoilt>>

\* Adapters with the same id one behind the other are one card.  There is no way of
\* correlating the devices of OpenCL: they are taken to be in the same order.
FoundCards(failing) ==
    LET found[k \in 0 .. Len(layout.adapters)] ==
          IF k = 0 THEN [last |-> -1, cards |-> <<>>]
          ELSE LET p == found[k - 1]
                   c == layout.adapters[k]
               IN  IF k \in failing \/ layout.id[c] = p.last THEN p
                   ELSE [last |-> layout.id[c], cards |-> Append(p.cards, c)]
    IN  found[Len(layout.adapters)].cards

\* The calls before those for each adapter, which have its number.
Number == -1
Info == 0

FindAdapters ==
    /\ adlPc = "adapters"
    /\ \E failing \in Failing({Number, Info} \cup DOMAIN layout.adapters) :
          LET all == FoundCards(failing)
              none == Number \in failing \/ Info \in failing
          IN  /\ adapters' = IF none THEN <<>>
                             ELSE SubSeq(all, 1, IF Len(all) > nDevs THEN nDevs ELSE Len(all))
              /\ adlPc' = IF none THEN "set" ELSE "devices"
              /\ Trouble(failing, Cards)
    /\ UNCHANGED <<layout, settings, card, gpu, adlStep, gpus, adl_active, starts, atStart, spoilt, clean>>

\* The levels are read three times into the same memory, the first time those of the
\* factory.
InitDevice ==
    /\ adlPc = "devices" /\ gpu < Len(adapters)
    /\ LET c == adapters[gpu + 1] IN
       \E failing \in Failing({"id", "default", "current", "again", "fan_info", "fan"}) :
          /\ IF "id" \in failing THEN UNCHANGED <<gpus, adl_active>>
             ELSE /\ gpus' = [gpus EXCEPT ![gpu] =
                        [has_adl |-> TRUE, card |-> c, managed |-> FALSE, twin |-> NoTwin,
                         DefPerfLev |-> IF "current" \notin failing \/ "again" \notin failing THEN card[c].levels
                                        ELSE IF "default" \notin failing THEN Factory ELSE Garbage,
                         has_fanspeed |-> layout.fan[c] /\ "fan_info" \notin failing,
                         DefFanSpeed |-> IF layout.fan[c] /\ "fan" \notin failing THEN card[c].fan ELSE 0]]
                  /\ adl_active' = TRUE
          /\ Trouble(failing, {c})
    /\ gpu' = gpu + 1
    /\ UNCHANGED <<layout, settings, card, adlPc, adlStep, adapters, starts, atStart, spoilt, clean>>

fanspeed_twin(i, j) ==
    /\ gpus[j].has_fanspeed /\ gpus[i].has_adl
    /\ layout.bus[gpus[i].card] - layout.bus[gpus[j].card] \in {-1, 1}
    /\ layout.name[gpus[i].card] = layout.name[gpus[j].card]

Linked(i, j) == ~gpus[i].has_fanspeed /\ fanspeed_twin(i, j)
Partners(i) == {j \in 0 .. gpu - 1 : i < gpu /\ i # j /\ (Linked(i, j) \/ Linked(j, i))}

\* Each side keeps the last one that was found.
LastPartner(i) ==
    IF Partners(i) = {} THEN NoTwin
    ELSE CHOOSE j \in Partners(i) : \A k \in Partners(i) : k <= j

FindTwins ==
    /\ adlPc = "devices" /\ gpu = Len(adapters)
    /\ gpus' = [i \in Device |-> [gpus[i] EXCEPT !.twin = LastPartner(i)]]
    /\ adlPc' = "set"
    /\ UNCHANGED <<layout, settings, card, gpu, adlStep, adapters, adl_active, starts, failures,
                   atStart, troubled, spoilt, clean>>

-----------------------------------------------------------------------------
(* setup_adl: four settings of one device after the other *)

device == adlStep \div 4
Turn(k) == adlPc = "set" /\ adlStep < 4 * nDevs /\ adlStep % 4 = k
HasAdl(i) == gpus[i].has_adl /\ adl_active

ClockedTop(levels, clock, value) == [levels EXCEPT ![Top][clock] = value]    \* mutated form

\* Lower levels can't have a higher setting.
Clocked(levels, clock, value) ==
    [l \in 1 .. Top |-> [levels[l] EXCEPT ![clock] =
        IF l = Top \/ levels[l][clock] > value THEN value ELSE @]]

SetClock(clock, value) ==
    IF value = 0 \/ ~HasAdl(device) THEN UNCHANGED <<card, gpus, failures, troubled>>
    ELSE LET c == gpus[device].card IN
         \E failing \in Failing({"get", "set"}) :
            /\ card' = IF failing # {} THEN card
                       ELSE [card EXCEPT ![c].levels = Clocked(@, clock, value)]
            /\ gpus' = IF "get" \in failing THEN gpus ELSE [gpus EXCEPT ![device].managed = TRUE]
            /\ Trouble(failing, {c})

setRest == <<layout, settings, adlPc, gpu, adapters, adl_active, starts, atStart, spoilt, clean>>

set_engineclock ==
    /\ Turn(0) /\ SetClock("engine", settings[device].core)
    /\ adlStep' = adlStep + 1 /\ UNCHANGED setRest

set_memoryclock ==
    /\ Turn(1) /\ SetClock("memory", settings[device].memory)
    /\ adlStep' = adlStep + 1 /\ UNCHANGED setRest

set_powertune ==
    /\ Turn(2)
    /\ IF settings[device].power \notin PowerRange \/ ~HasAdl(device)
       THEN UNCHANGED <<card, gpus, failures, troubled>>
       ELSE LET c == gpus[device].card IN
            \E failing \in Failing({"set"}) :
               /\ card' = IF failing # {} THEN card ELSE [card EXCEPT ![c].power = settings[device].power]
               /\ gpus' = [gpus EXCEPT ![device].managed = TRUE]
               /\ Trouble(failing, {c})
    /\ adlStep' = adlStep + 1 /\ UNCHANGED setRest

\* A fan that is not set by the user already becomes so first.  A card that does not
\* say that its fan can be written to is left alone.
set_fanspeed ==
    /\ Turn(3)
    /\ IF settings[device].fan = 0 \/ ~HasAdl(device) \/ ~gpus[device].has_fanspeed
       THEN UNCHANGED <<card, gpus, failures, troubled>>
       ELSE LET c == gpus[device].card IN
            \E failing \in Failing({"get", "user", "set"}) :
               /\ card' = [card EXCEPT
                     ![c].user = @ \/ failing \cap {"user", "get"} = {} \/ "set" \notin failing,
                     ![c].fan = IF "set" \in failing THEN @ ELSE settings[device].fan]
               /\ gpus' = [gpus EXCEPT ![device].managed = TRUE]
               /\ Trouble(failing, {c})
    /\ adlStep' = adlStep + 1 /\ UNCHANGED setRest

-----------------------------------------------------------------------------
(* The end of the process. *)

Manages(i, c) == gpus[i].has_adl /\ gpus[i].managed /\ gpus[i].card = c

\* Only what was changed at any time is put back; the fan goes back to what it was and
\* then to the driver, power control stays.
clear_adl ==
    /\ adlPc = "set" /\ adlStep = 4 * nDevs
    /\ \E failing \in IF adl_active THEN Failing({"levels", "fan", "default_fan"} \X Device) ELSE {{}} :
          /\ card' = [c \in Cards |->
                IF ~adl_active \/ ~\E i \in Device : Manages(i, c) THEN card[c]
                ELSE LET i == CHOOSE i \in Device : Manages(i, c) IN
                     [card[c] EXCEPT
                        !.levels = IF <<"levels", i>> \in failing THEN @ ELSE gpus[i].DefPerfLev,
                        !.fan = IF <<"default_fan", i>> \notin failing THEN AutoFan
                                ELSE IF <<"fan", i>> \notin failing THEN gpus[i].DefFanSpeed ELSE @,
                        !.user = @ /\ <<"default_fan", i>> \in failing]]
          /\ Trouble(failing, {gpus[f[2]].card : f \in failing})
    /\ spoilt' = spoilt \cup {c \in Cards : card'[c].levels = Garbage}
    /\ adlPc' = "down" /\ adl_active' = FALSE /\ clean' = TRUE
    /\ UNCHANGED <<layout, settings, gpu, adlStep, adapters, gpus, starts, atStart>>

\* The process ends without its destructors: on a crash, or when a crashed thread ends it.
ExitUncleared ==
    /\ adlPc # "down" /\ adlPc' = "down" /\ adl_active' = FALSE /\ clean' = FALSE
    /\ UNCHANGED <<layout, settings, card, gpu, adlStep, adapters, gpus, starts, failures,
                   atStart, troubled, spoilt>>

AdlNext ==
    \/ prepare_adl \/ FindAdapters \/ InitDevice \/ FindTwins
    \/ set_engineclock \/ set_memoryclock \/ set_powertune \/ set_fanspeed
    \/ clear_adl \/ ExitUncleared

AdlSpec == AdlInit /\ [][AdlNext]_adlVars

-----------------------------------------------------------------------------
(* What the statistics read, of a driver that answers. *)

gpu_temp(i) == IF HasAdl(i) THEN gpus[i].card ELSE -1       \* of which card
gpu_engineclock(i) == IF HasAdl(i) THEN card[gpus[i].card].levels[Top].engine ELSE -1
gpu_memclock(i) == IF HasAdl(i) THEN card[gpus[i].card].levels[Top].memory ELSE -1
gpu_activity(i) == IF HasAdl(i) THEN gpus[i].card ELSE -1
gpu_powertune(i) == IF HasAdl(i) THEN card[gpus[i].card].power ELSE -1

\* Of two chips on a card one has the fan of both.
fanOf(i) ==
    IF ~gpus[i].has_fanspeed /\ gpus[i].twin # NoTwin THEN gpus[gpus[i].twin].card ELSE gpus[i].card
gpu_fanspeed(i) ==
    IF HasAdl(i) /\ layout.fan[fanOf(i)] THEN card[fanOf(i)].fan ELSE -1

-----------------------------------------------------------------------------
AdlTypeOK ==
    /\ adlPc \in {"down", "adapters", "devices", "set"}
    /\ gpu \in 0 .. nDevs /\ adlStep \in 0 .. 4 * nDevs
    /\ \A c \in Cards : card[c].levels \in Levels /\ card[c].fan \in Nat
    /\ \A i \in Device : gpus[i].card \in Cards /\ gpus[i].twin \in {NoTwin} \cup Device
    /\ failures \in 0 .. MaxFailures /\ troubled \cup spoilt \subseteq Cards

\* The driver names the cards of OpenCL and no others, in the same order, which is what
\* the code assumes; each of them once or several times.
Plain ==
    /\ \E place \in [DOMAIN layout.adapters -> DOMAIN layout.opencl] :
          /\ \A k \in DOMAIN place : layout.adapters[k] = layout.opencl[place[k]]
          /\ \A k, l \in DOMAIN place : k <= l => place[k] <= place[l]
          /\ \A i \in DOMAIN layout.opencl : \E k \in DOMAIN place : place[k] = i
    /\ \A i, j \in DOMAIN layout.opencl :
          layout.id[layout.opencl[i]] = layout.id[layout.opencl[j]] => i = j

\* No level below the top one is ever faster, unless the card was given levels that
\* had never been read.
LevelsOrdered == \A c \in Cards \ spoilt : Ordered(card[c].levels)

\* Once everything is set, the statistics of a device show what is configured for it, and
\* else what its card had; its temperature is its own, its fan may be its twin's.
ShownAsSet ==
    adlPc = "set" /\ adlStep = 4 * nDevs /\ Plain =>
        \A i \in Device : LET c == layout.opencl[i + 1] IN
            troubled = {} =>
              /\ gpu_temp(i) = c /\ gpu_activity(i) = c
              /\ gpu_engineclock(i) = IF settings[i].core # 0 THEN settings[i].core
                                      ELSE atStart[c].levels[Top].engine
              /\ gpu_memclock(i) = IF settings[i].memory # 0 THEN settings[i].memory
                                   ELSE atStart[c].levels[Top].memory
              /\ gpu_powertune(i) = IF settings[i].power \in PowerRange THEN settings[i].power
                                    ELSE atStart[c].power
              /\ layout.fan[c] => gpu_fanspeed(i) = IF settings[i].fan # 0 THEN settings[i].fan
                                                    ELSE atStart[c].fan
              /\ ~layout.fan[c] /\ gpus[i].twin # NoTwin => gpu_fanspeed(i) = gpu_fanspeed(gpus[i].twin)

\* At the end of a process that was not killed every card has the clocks back that it had
\* at the beginning (which are those of a process that was killed before, if there was
\* one), and cards that were never set are untouched.
PutBack ==
    adlPc = "down" /\ clean =>
        \A c \in Cards \ troubled :
            /\ card[c].levels = atStart[c].levels
            /\ IF \E i \in Device : Manages(i, c) THEN card[c].fan = AutoFan /\ ~card[c].user
               ELSE card[c] = atStart[c]

\* The statistics show the clocks that are set for a device, and in the end its card has
\* those back that it had.
ClocksRestored == LevelsOrdered /\ ShownAsSet /\ PutBack
=============================================================================
