---------------------------- MODULE LightSettings ----------------------------
(***************************************************************************)
(* The settings of the lamp in APP_Light.c: how each setter changes them,  *)
(* and the PWM levels they ask for.  The three colour channels are treated *)
(* alike and never together, so that one, "rgb", stands for them.          *)
(***************************************************************************)
EXTENDS Integers

CONSTANTS
  FULL,                \* full brightness: 100
  LEVEL_MAX,           \* YK_CW_DIM_LEVEL_MAX and HW_RGB_LEVEL_MAX
  LEVEL_MIN,           \* YK_CW_DIM_LEVEL_MIN
  TEMP_MIN, TEMP_MAX,  \* YK_TEMPERATURE_MIN, YK_TEMPERATURE_MAX
  BYTE, WORD           \* how many values a U8 and a U16 have

ASSUME LevelAssumption ==
  /\ FULL \in Nat \ {0} /\ BYTE \in Nat /\ FULL < BYTE
  /\ WORD \in Nat /\ LEVEL_MAX \in 0 .. WORD - 1 /\ LEVEL_MIN \in 0 .. LEVEL_MAX
ASSUME TempAssumption == TEMP_MIN \in Nat /\ TEMP_MAX \in Nat /\ TEMP_MIN < TEMP_MAX

\* Light_Status_Constrain_Value, and the same cascade in APP_Light_SetTemperature.
Constrain(v, lo, hi) == IF v < lo THEN lo ELSE IF v > hi THEN hi ELSE v

\* The attributes of LIGHT.  colour: the level of a colour channel at full brightness.
Settings == [mode : {"RGB", "CW"}, onoff : {"ON", "OFF"}, lightness : 0 .. BYTE - 1,
             temperature : Nat, colour : 0 .. LEVEL_MAX]

APP_Light_SetLevel(s, v) ==
  IF v = 0 THEN [s EXCEPT !.onoff = "OFF", !.lightness = 0]
           ELSE [s EXCEPT !.onoff = "ON", !.lightness = v % BYTE]

APP_Light_SetOnOff(s, v) == [s EXCEPT !.onoff = v]

\* Mutant: the temperature is not clamped.
SetTemperatureRaw(s, t) == [s EXCEPT !.mode = "CW", !.temperature = t]

APP_Light_SetTemperature(s, t) ==
  [s EXCEPT !.mode = "CW", !.temperature = Constrain(t, TEMP_MIN, TEMP_MAX)]

\* APP_Light_SetRGB and APP_Light_SetHSL; c stands for what the colour tables and
\* HSL_2_RGB make of their arguments.
APP_Light_SetColour(s, c) == [s EXCEPT !.mode = "RGB", !.colour = c]

-----------------------------------------------------------------------------
(* The levels light_start_transition sets as the goal of a transition      *)

Channels == {"rgb", "c", "w"}
Levels == [Channels -> 0 .. WORD - 1]

\* Both white channels together, and what of it goes to the cold one.
WhiteTotal(s) == ((LEVEL_MAX - LEVEL_MIN) * s.lightness) \div FULL + LEVEL_MIN
Cold(s) == ((WhiteTotal(s) * (s.temperature - TEMP_MIN)) \div (TEMP_MAX - TEMP_MIN)) % WORD
Colour(s) == ((s.colour * s.lightness) \div FULL) % WORD

\* Mutant: the share of the cold channel is not taken from the warm one.
GoalWhole(s) ==
  [ch \in Channels |->
     CASE s.onoff = "ON" /\ s.mode = "CW" /\ ch = "c" -> Cold(s)
       [] s.onoff = "ON" /\ s.mode = "CW" /\ ch = "w" -> WhiteTotal(s) % WORD
       [] s.onoff = "ON" /\ s.mode = "RGB" /\ ch = "rgb" -> Colour(s)
       [] OTHER -> 0]

Goal(s) ==
  [ch \in Channels |->
     CASE s.onoff = "ON" /\ s.mode = "CW" /\ ch = "c" -> Cold(s)
       [] s.onoff = "ON" /\ s.mode = "CW" /\ ch = "w" -> (WhiteTotal(s) - Cold(s)) % WORD
       [] s.onoff = "ON" /\ s.mode = "RGB" /\ ch = "rgb" -> Colour(s)
       [] OTHER -> 0]
=============================================================================
