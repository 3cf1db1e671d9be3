----------------------------- MODULE MeshLight -----------------------------
(***************************************************************************)
(* What the lighting models of the mesh (model_spec) set, what of it they  *)
(* save, and what a start makes of it.  A value is in up to four places:   *)
(* LightStatus, the copy for the flash (MEM_DB_MESH), the flash, and the   *)
(* lamp's own settings (APP_Light.c).  A handler runs to its end before    *)
(* another, but the flash is written seconds later, and the supply can     *)
(* fail at any time.  Hue and saturation are a choice of colour, the       *)
(* replies and the default transition time are left out, and a request     *)
(* with a repeated transaction number is one that did not come.            *)
(***************************************************************************)
EXTENDS LightSettings

CONSTANTS
  STEP,                  \* LIGHTNESS_TO_LEVEL: 16-bit lightness for a level of one: 655
  LIMIT_MIN, LIMIT_MAX,  \* LIGHT_CTL_TEMPERATURE_MIN_LIMIT, .._MAX_LIMIT
  TEMP_DEFAULT,          \* TEMP_MAX of light_status.h
  Requests, Deltas,      \* lightness and changes of it that clients ask for
  Temps, Colours,        \* temperatures and colours
  Ranges, TempRanges,    \* <<least, greatest>>, for lightness and for temperature
  MaxAsked               \* bound: requests from clients

ASSUME StatusAssumption ==
  /\ STEP \in Nat \ {0} /\ 1 < WORD
  /\ LIMIT_MIN \in Nat /\ LIMIT_MAX \in Nat /\ LIMIT_MIN <= TEMP_MIN /\ TEMP_MAX <= LIMIT_MAX
  /\ TEMP_DEFAULT \in TEMP_MIN .. TEMP_MAX
ASSUME RequestAssumption ==
  /\ Requests \subseteq 0 .. WORD - 1 /\ Deltas \subseteq 1 - WORD .. WORD - 1
  /\ Temps \subseteq Nat /\ Colours \subseteq 0 .. LEVEL_MAX
  /\ Ranges \subseteq (0 .. WORD - 1) \X (0 .. WORD - 1) /\ TempRanges \subseteq Nat \X Nat
  /\ MaxAsked \in Nat

VARIABLES
  status,   \* LightStatus; of current and target, which are equal between requests, the target
  db,       \* MEM_DB_MESH
  stored,   \* its last record in flash (MemLog)
  pending,  \* 1 while APP_MEM_Slow_Save waits
  light,    \* the settings of APP_Light.c
  wish,     \* history: the lightness clients were told is restored; 0 for none
  asked     \* requests so far

vars == <<status, db, stored, pending, light, wish, asked>>

HALF == WORD \div 2

Status ==
  {s \in [onpowerup : {"OFF", "DEFAULT", "RESTORE"}, mode : {"RGB", "CW"},
          def : 0 .. WORD - 1, target : 0 .. WORD - 1, last : 0 .. WORD - 1,
          min : 1 .. WORD - 1, max : 1 .. WORD - 1,
          tdef : 0 .. LIMIT_MAX, temp : {0} \cup TEMP_MIN .. TEMP_MAX,
          tmin : TEMP_MIN .. TEMP_MAX, tmax : TEMP_MIN .. TEMP_MAX] :
     s.min <= s.max /\ s.tmin <= s.tmax}

TypeOK ==
  /\ status \in Status /\ db \in Status /\ stored \in Status
  /\ pending \in 0 .. 1 /\ light \in Settings /\ wish \in 0 .. WORD - 1 /\ asked \in 0 .. MaxAsked

\* Zero is off, and stays so.
Clip(s, v) == IF v > 0 THEN Constrain(v, s.min, s.max) ELSE 0

ToLevel(v) == v \div STEP

-----------------------------------------------------------------------------
(* Starts                                                                  *)

\* Mutant: a default of zero is not taken for "the last lightness".
CurrentNoLast(s) ==
  CASE s.onpowerup = "OFF" -> 0
    [] s.onpowerup = "DEFAULT" -> s.def
    [] s.onpowerup = "RESTORE" -> IF s.target = 0 THEN s.min ELSE s.target

\* The lightness of a start, from the values once they are clipped.
Current(s) ==
  CASE s.onpowerup = "OFF" -> 0
    [] s.onpowerup = "DEFAULT" -> IF s.def = 0 THEN s.last ELSE s.def
    [] s.onpowerup = "RESTORE" -> IF s.target = 0 THEN s.min ELSE s.target

Clipped(d) ==
  [d EXCEPT !.last = Clip(d, d.last), !.def = Clip(d, d.def), !.target = Clip(d, d.target),
            !.tdef = Constrain(d.tdef, d.tmin, d.tmax), !.temp = Constrain(d.temp, d.tmin, d.tmax)]

\* off: OTAWithOff.  The temperature of RAM is zero unless it is restored.
Light_Status_Default_Init(d, off) ==
  LET s == Clipped(d)
      restored == s.onpowerup = "RESTORE"
  IN [s EXCEPT !.target = IF off = 1 THEN 0 ELSE Current(s),
               !.last = IF restored THEN Current(s) ELSE s.last,
               !.temp = IF restored THEN s.temp ELSE 0]

\* APP_Light_Init; OTAWithOff is cleared by then.
APP_Light_Init(s, c) ==
  [mode |-> s.mode, onoff |-> "ON", lightness |-> s.target % BYTE,
   temperature |-> IF s.mode = "CW" THEN s.temp ELSE 0,
   colour |-> IF s.mode = "CW" THEN 0 ELSE c]

Default ==
  [onpowerup |-> "RESTORE", mode |-> "RGB",
   def |-> WORD - 1, target |-> WORD - 1, last |-> WORD - 1, min |-> 1, max |-> WORD - 1,
   tdef |-> TEMP_DEFAULT, temp |-> TEMP_DEFAULT, tmin |-> TEMP_MIN, tmax |-> TEMP_DEFAULT]

\* Just provisioned: APP_Platfrom_Set_Mesh_Default_Light_Status has saved the
\* defaults, and the lamp is as the factory and the switch have left it.
Init ==
  /\ db = Default /\ stored = Default
  /\ status = Light_Status_Default_Init(Default, 0)
  /\ pending = 0 /\ wish = status.target /\ asked = 0
  /\ light \in [mode : {"CW"}, onoff : {"ON", "OFF"}, lightness : {FULL},
                temperature : {TEMP_MIN}, colour : {0}]

\* A start from the record d of the flash.
Start(d, off) ==
  /\ db' = d /\ stored' = d /\ pending' = 0
  /\ status' = Light_Status_Default_Init(d, off)
  /\ \E c \in Colours : light' = APP_Light_Init(status', c)
  /\ wish' = IF status'.onpowerup = "RESTORE" THEN status'.target ELSE 0
  /\ UNCHANGED asked

PowerLoss == Start(stored, 0)

\* ota_apply_reset_cb saves whether the lamp is off, and restarts; the start clears that
\* and saves.
ApplyReset == Start(db, IF light.onoff = "OFF" THEN 1 ELSE 0)

-----------------------------------------------------------------------------
(* Saving                                                                  *)

\* Mutant: what the lamp runs in is saved as well.
SaveMode(s) ==
  /\ db' = [s EXCEPT !.mode = light.mode] /\ pending' = 1
  /\ wish' = IF s.onpowerup = "RESTORE" THEN s.target ELSE 0

\* Mutant: the target is not copied.
SaveNoTarget(s) ==
  /\ db' = [s EXCEPT !.mode = db.mode, !.target = db.target] /\ pending' = 1
  /\ wish' = IF s.onpowerup = "RESTORE" THEN s.target ELSE 0

Light_Status_Save(s) ==
  /\ db' = [s EXCEPT !.mode = db.mode] /\ pending' = 1
  /\ wish' = IF s.onpowerup = "RESTORE" THEN s.target ELSE 0

\* The delay of APP_MEM_Slow_Save is over, and the record is written.
SlowSave ==
  /\ pending = 1
  /\ stored' = db /\ pending' = 0 /\ UNCHANGED <<status, db, light, wish, asked>>

\* Another module calls APP_MEM_Fast_Save; the delay goes on.
FastSave == stored' = db /\ UNCHANGED <<status, db, pending, light, wish, asked>>

-----------------------------------------------------------------------------
(* The end of Light_Status_Set_Target, for every type but ONOFF            *)

\* Mutant: a lightness of zero is kept too.
KeptAny(s) == IF s.onpowerup = "RESTORE" THEN [s EXCEPT !.last = s.target] ELSE s

Kept(s) ==
  IF s.onpowerup = "RESTORE" /\ s.target >= 1 THEN [s EXCEPT !.last = s.target] ELSE s

Request == asked < MaxAsked /\ asked' = asked + 1 /\ UNCHANGED stored

Light_Status_Set_Target(s) ==
  /\ Request
  /\ status' = Kept(s)
  /\ IF s.onpowerup = "RESTORE" /\ s.target >= 1
     THEN Light_Status_Save(Kept(s)) ELSE UNCHANGED <<db, pending>> /\ wish' = 0

-----------------------------------------------------------------------------
(* Requests that change the light                                          *)

OnOff ==
  \E v \in {"ON", "OFF"} :
    /\ Request
    /\ status' = [status EXCEPT !.target = IF v = "ON" THEN status.last ELSE 0]
    /\ light' = APP_Light_SetOnOff(light, v)
    /\ wish' = 0 /\ UNCHANGED <<db, pending>>

SetLightness(v) ==
  LET s == [status EXCEPT !.target = Clip(status, v)]
  IN Light_Status_Set_Target(s) /\ light' = APP_Light_SetLevel(light, ToLevel(s.target))

SetColour(c) == Light_Status_Set_Target(status) /\ light' = APP_Light_SetColour(light, c)

\* Light Lightness Set, linear or not.
LightnessSet == \E v \in Requests : SetLightness(v)

\* One element for the lightness, one for the temperature, whose type of level
\* Light_Status_Set_Target has no case for, and two for the colour.
LevelSet ==
  \/ \E v \in Requests : SetLightness(v)
  \/ Light_Status_Set_Target(status) /\ light' = APP_Light_SetTemperature(light, status.temp)
  \/ \E c \in Colours : SetColour(c)

\* The lamp gets the level of the sum, taken as a signed number with the origin
\* of lightness in its middle, and cut to 16 bits.
LevelDelta ==
  \E d \in Deltas :
    LET sum == ((status.target + HALF) % WORD) + d
        level == IF sum < 0 THEN -ToLevel(-sum) ELSE ToLevel(sum)
    IN /\ Light_Status_Set_Target([status EXCEPT !.target = Clip(status, (status.target + d) % WORD)])
       /\ light' = APP_Light_SetLevel(light, level % WORD)

HueSet == \E c \in Colours : SetColour(c)
SaturationSet == \E c \in Colours : SetColour(c)

HslSet ==
  \E v \in Requests, c \in Colours :
    LET s == [status EXCEPT !.target = Clip(status, v)]
    IN /\ Light_Status_Set_Target(s)
       /\ light' = APP_Light_SetColour(APP_Light_SetLevel(light, ToLevel(s.target)), c)

\* The level is the lightness as it is.
CtlSet ==
  \E v \in Requests, t \in Temps \cap TEMP_MIN .. TEMP_MAX :
    LET s == [status EXCEPT !.target = Clip(status, v),
                            !.temp = Constrain(t, status.tmin, status.tmax)]
    IN /\ Light_Status_Set_Target(s)
       /\ light' = APP_Light_SetTemperature(APP_Light_SetLevel(light, s.target), s.temp)

CtlTemperatureSet ==
  \E t \in Temps \cap LIMIT_MIN .. LIMIT_MAX :
    LET s == [status EXCEPT !.temp = Constrain(t, status.tmin, status.tmax)]
    IN Light_Status_Set_Target(s) /\ light' = APP_Light_SetTemperature(light, s.temp)

-----------------------------------------------------------------------------
(* Requests that change what is kept                                       *)

SetAndSave(s) == Request /\ status' = s /\ light' = light /\ Light_Status_Save(s)

LightnessDefaultSet ==
  \E v \in Requests :
    Clip(status, v) # status.def /\ SetAndSave([status EXCEPT !.def = Clip(status, v)])

LightnessRangeSet ==
  \E r \in Ranges :
    r[1] >= 1 /\ r[1] <= r[2] /\ SetAndSave([status EXCEPT !.min = r[1], !.max = r[2]])

\* The default delta UV, left out, may differ when these two do not.
CtlDefaultSet ==
  \E v \in Requests, t \in Temps \cap LIMIT_MIN .. LIMIT_MAX :
    SetAndSave([status EXCEPT !.def = v, !.tdef = t])

CtlTemperatureRangeSet ==
  \E r \in TempRanges :
    /\ TEMP_MIN <= r[1] /\ r[1] <= r[2] /\ r[2] <= TEMP_MAX
    /\ r # <<status.tmin, status.tmax>>
    /\ SetAndSave([status EXCEPT !.tmin = r[1], !.tmax = r[2]])

\* Neither this default nor the one above is clipped before a start.
HslDefaultSet == \E v \in Requests : SetAndSave([status EXCEPT !.def = v])

PonoffSet ==
  \E p \in {"OFF", "DEFAULT", "RESTORE"} : SetAndSave([status EXCEPT !.onpowerup = p])

\* Values left out here, saved with all others.
LevelMove == SetAndSave(status)
DttSet == SetAndSave(status)
HslRangeSet == SetAndSave(status)

-----------------------------------------------------------------------------

Change ==
  \/ OnOff \/ LightnessSet \/ LevelSet \/ LevelDelta \/ HueSet \/ SaturationSet
  \/ HslSet \/ CtlSet \/ CtlTemperatureSet
Setup ==
  \/ LightnessDefaultSet \/ LightnessRangeSet \/ CtlDefaultSet \/ CtlTemperatureRangeSet
  \/ HslDefaultSet \/ PonoffSet \/ LevelMove \/ DttSet \/ HslRangeSet
Next == Change \/ Setup \/ SlowSave \/ FastSave \/ PowerLoss \/ ApplyReset

Spec == Init /\ [][Next]_vars

-----------------------------------------------------------------------------
(* Properties                                                              *)

\* The lightness LightStatus returns to with "On" (Light_Status_Set_Target, ONOFF) is never
\* zero, whatever was set, saved, lost and restored before: On does not report Off.
LitWhenOn == status.last >= 1 /\ db.last >= 1 /\ stored.last >= 1

\* Whatever was set, ranged and saved before the supply fails, a lamp that starts with
\* DEFAULT reports On, with a lightness in the range in force: also with a default of zero,
\* or one saved before the range was (Light_Status_Default_Init).  What the lamp itself
\* then shows is another matter, see PowersUpAsTold.
DefaultReportsOn ==
  LET s == Light_Status_Default_Init(stored, 0)
  IN stored.onpowerup = "DEFAULT" => s.target \in s.min .. s.max

\* Once the delayed save has been made, the lightness set last, unless the lamp was switched
\* since, and the temperature are what a start returns to; a range that came later clips them.
SetSurvives ==
  LET s == Light_Status_Default_Init(stored, 0)
  IN wish # 0 /\ pending = 0 =>
       /\ s.target = Constrain(wish, stored.min, stored.max)
       /\ s.temp = Constrain(status.temp, stored.tmin, stored.tmax)

\* In CW mode the temperature is one the lamp can mix: light_start_transition subtracts
\* YK_TEMPERATURE_MIN from it, unsigned.  A start can leave LightStatus at zero.
MixInRange == light.mode = "CW" => light.temperature \in TEMP_MIN .. TEMP_MAX

Lit(l) == \E ch \in Channels : Goal(l)[ch] > 0

\* What generic_ponoff_common.h:61-67 says of OnPowerUp, of the lamp itself: with OFF a
\* start leaves it dark, with DEFAULT lit, and with RESTORE as it was if that is also
\* what was reported.  The code does otherwise: Off is not saved
\* (Light_Status_Set_Target), and a lightness of zero starts at the least of the range.
PowersUpAsTold ==
  [][PowerLoss =>
       /\ stored.onpowerup = "OFF" => ~Lit(light')
       /\ stored.onpowerup = "DEFAULT" => Lit(light')
       /\ stored.onpowerup = "RESTORE" =>
            /\ status.target = 0 /\ ~Lit(light) => ~Lit(light')
            /\ status.target > 0 /\ Lit(light) => Lit(light')]_vars
=============================================================================
