----------------------------- MODULE LampOutput -----------------------------
(***************************************************************************)
(* Transitions of the lamp (APP_Light.c).  A setter changes the settings   *)
(* and calls light_start_transition, which writes the fields of the        *)
(* transition one after the other; app_light_timer_cb moves the channels   *)
(* from the interrupt of TIMER1 and can come between any two of these      *)
(* writes, for nothing masks it.  Times are counted in its periods.        *)
(* While the lamp blinks (APP_Google.c) the interrupt of TIMER0, which     *)
(* TIMER1 can interrupt in turn, calls a setter of its own, possibly in    *)
(* the midst of the writes of the main loop's.                             *)
(***************************************************************************)
EXTENDS LightSettings

CONSTANTS
  Fades,     \* transition times used by clients, in periods
  InitFade,  \* the one of APP_Light_Init
  Requests, Temps, Colours  \* levels, temperatures and colours clients ask for

ASSUME FadeAssumption == Fades \subseteq Nat /\ InitFade \in Nat
ASSUME ClientAssumption ==
  Requests \subseteq Nat /\ Temps \subseteq Nat /\ Colours \subseteq 0 .. LEVEL_MAX

VARIABLES
  light,                  \* the settings
  start, current, target, \* PWM levels: a channel moves from start to target
  transtime, elapsed, transitioning,
  at,                     \* the next step of light_start_transition; 0: it is not running
  fade,                   \* its argument
  power,                  \* the switch it found when it took its branch
  held,                   \* what TIMER0 has interrupted of another call: its at, fade, power
  isr,                    \* 1: the call is the one of TIMER0
  blinking, dark,         \* StartBlink, BlinkoOnOffFlag
  spoilt,                 \* history: 1 once an interrupt came in the midst of the writes,
                          \* or a level above FULL was set, until a transition has
                          \* ended that was neither
  torn                    \* history: 1 if a blink came after the branch was taken, until
                          \* the next setter

lightVars == <<light, start, current, target>>
timeVars == <<transtime, elapsed, transitioning>>
callVars == <<at, fade, power, held, isr>>
blinkVars == <<blinking, dark>>
vars == <<lightVars, timeVars, callVars, blinkVars, spoilt, torn>>

StartOrder == <<"rgb", "w", "c">>
TargetOrder == <<"rgb", "c", "w">>
Copying == 1 .. 3
Branching == 4
Aiming == 5 .. 7
LastWrite == 10

Times == Fades \cup {0, InitFade}

TypeOK ==
  /\ light \in Settings /\ (light.mode = "CW" => light.temperature \in TEMP_MIN .. TEMP_MAX)
  /\ start \in Levels /\ current \in Levels /\ target \in Levels
  /\ transtime \in Times /\ fade \in Times
  /\ elapsed \in Nat
  /\ transitioning \in 0 .. 1 /\ spoilt \in 0 .. 1 /\ torn \in 0 .. 1
  /\ at \in 0 .. LastWrite /\ power \in {"ON", "OFF"}
  /\ held \in [at : 0 .. LastWrite, fade : Times, power : {"ON", "OFF"}]
  /\ isr \in 0 .. 1 /\ blinking \in 0 .. 1 /\ dark \in 0 .. 1

\* No call of light_start_transition.
None == [at |-> 0, fade |-> 0, power |-> "OFF"]

Dark == [ch \in Channels |-> 0]

\* What a start makes of the saved values; onoff is ON, for the flag that would
\* make it OFF is cleared before (PowerCycle, StartStacks).
Saved ==
  [mode : {"CW"}, onoff : {"ON"}, lightness : {v % BYTE : v \in Requests},
   temperature : Temps \cap TEMP_MIN .. TEMP_MAX, colour : {0}]
  \cup [mode : {"RGB"}, onoff : {"ON"}, lightness : {v % BYTE : v \in Requests},
         temperature : {0}, colour : Colours]
Over(s) == IF s.lightness > FULL THEN 1 ELSE 0

\* APP_Light_Init; the timer runs once it is done.
Init ==
  /\ light \in Saved
  /\ start = Dark /\ current = Dark /\ target = Dark
  /\ transtime = 0 /\ elapsed = 0 /\ transitioning = 0
  /\ at = 1 /\ fade = InitFade /\ power = "OFF" /\ held = None /\ isr = 0
  /\ blinking = 0 /\ dark = 0 /\ spoilt = Over(light) /\ torn = 0

-----------------------------------------------------------------------------
(* light_start_transition                                                  *)

\* The call itself; at = 0: the main loop is in no other one.
Call(s, times) ==
  /\ light' = s /\ fade' \in times /\ at' = 1 /\ power' = "OFF"
  /\ UNCHANGED <<start, current, target, timeVars>>

Set(s, times) ==
  /\ at = 0 /\ Call(s, times) /\ torn' = 0
  /\ spoilt' = IF s.lightness > FULL THEN 1 ELSE spoilt
  /\ UNCHANGED <<held, isr>>

SetLevel == UNCHANGED blinkVars /\ \E v \in Requests : Set(APP_Light_SetLevel(light, v), Fades)
SetOnOff == UNCHANGED blinkVars /\ \E v \in {"ON", "OFF"} : Set(APP_Light_SetOnOff(light, v), Fades)
SetTemperature == UNCHANGED blinkVars /\ \E t \in Temps : Set(APP_Light_SetTemperature(light, t), Fades)
SetColour == UNCHANGED blinkVars /\ \E c \in Colours : Set(APP_Light_SetColour(light, c), Fades)

\* Mutant: a transition starts where the one before was going.
CopyStartTarget ==
  /\ at \in Copying
  /\ start' = [start EXCEPT ![StartOrder[at]] = target[StartOrder[at]]] /\ at' = at + 1
  /\ UNCHANGED <<light, current, target, timeVars, fade, power, held, isr, blinkVars, spoilt, torn>>

CopyStart ==
  /\ at \in Copying
  /\ start' = [start EXCEPT ![StartOrder[at]] = current[StartOrder[at]]] /\ at' = at + 1
  /\ UNCHANGED <<light, current, target, timeVars, fade, power, held, isr, blinkVars, spoilt, torn>>

TakeBranch ==
  /\ at = Branching /\ power' = light.onoff /\ at' = at + 1
  /\ UNCHANGED <<lightVars, timeVars, fade, held, isr, blinkVars, spoilt, torn>>

\* The settings as the branch sees them, and the targets it can set: the warm
\* channel gets what target_c leaves, be it read back or still in a register.
Seen == [light EXCEPT !.onoff = power]
Aims(ch) ==
  IF ch = "w" /\ power = "ON" /\ light.mode = "CW"
  THEN {Goal(Seen)["w"], (WhiteTotal(light) - target["c"]) % WORD}
  ELSE {Goal(Seen)[ch]}

SetTarget ==
  /\ at \in Aiming
  /\ \E level \in Aims(TargetOrder[at - 4]) :
       target' = [target EXCEPT ![TargetOrder[at - 4]] = level]
  /\ at' = at + 1
  /\ UNCHANGED <<light, start, current, timeVars, fade, power, held, isr, blinkVars, spoilt, torn>>

SetTime ==
  /\ at = 8 /\ transtime' = fade /\ at' = 9
  /\ UNCHANGED <<lightVars, elapsed, transitioning, fade, power, held, isr, blinkVars, spoilt, torn>>

ClearElapsed ==
  /\ at = 9 /\ elapsed' = 0 /\ at' = 10
  /\ UNCHANGED <<lightVars, transtime, transitioning, fade, power, held, isr, blinkVars, spoilt, torn>>

\* The last write, and the return to what was interrupted, if anything was.
Begin ==
  /\ at = LastWrite /\ transitioning' = 1
  /\ at' = held.at /\ fade' = held.fade /\ power' = held.power
  /\ held' = None /\ isr' = 0
  /\ UNCHANGED <<lightVars, transtime, elapsed, blinkVars, spoilt, torn>>

light_start_transition == CopyStart \/ TakeBranch \/ SetTarget \/ SetTime \/ ClearElapsed \/ Begin

-----------------------------------------------------------------------------
(* Blinking                                                                *)

\* Proc_Blink, in the main loop: to stop is to switch on.
Proc_Blink ==
  \/ /\ at = 0 /\ blinking' = 1 /\ dark' = 0
     /\ UNCHANGED <<lightVars, timeVars, callVars, spoilt, torn>>
  \/ /\ blinking' = 0 /\ dark' = 0 /\ Set(APP_Light_SetOnOff(light, "ON"), {0})

\* APP_Google_TimeProc when APP_Google_BLINK_TIME is over, which is at any time: what
\* the main loop was in is held until the call made here is done.
APP_Google_TimeProc ==
  /\ blinking = 1 /\ isr = 0
  /\ Call(APP_Light_SetOnOff(light, IF dark = 1 THEN "ON" ELSE "OFF"), {0})
  /\ held' = [at |-> at, fade |-> fade, power |-> power] /\ isr' = 1
  /\ dark' = 1 - dark /\ UNCHANGED blinking
  /\ spoilt' = IF at > 1 THEN 1 ELSE spoilt
  /\ torn' = IF at > Branching THEN 1 ELSE 0

-----------------------------------------------------------------------------
(* The interrupt of TIMER1                                                 *)

\* Where a channel is after e of t periods on its way from a to b.
Between(a, b, e, t) ==
  IF b >= a THEN a + ((b - a) * e) \div t ELSE a - ((a - b) * e) \div t

Spoilt(ends) ==
  IF at > 1 THEN 1
  ELSE IF ends /\ at = 0 /\ torn = 0 /\ light.lightness <= FULL THEN 0 ELSE spoilt

Move ==
  /\ transitioning = 1 /\ elapsed + 1 < transtime
  /\ elapsed' = elapsed + 1
  /\ current' = [ch \in Channels |-> Between(start[ch], target[ch], elapsed', transtime)]
  /\ spoilt' = Spoilt(FALSE)
  /\ UNCHANGED <<light, start, target, transtime, transitioning, callVars, blinkVars, torn>>

\* Mutant: the last period does not take the channels to their target.
FinishShort ==
  /\ transitioning = 1 /\ elapsed + 1 >= transtime
  /\ elapsed' = 0 /\ transitioning' = 0
  /\ spoilt' = Spoilt(TRUE)
  /\ UNCHANGED <<light, start, current, target, transtime, callVars, blinkVars, torn>>

\* Mutant: the transition is not marked as done.
FinishAgain ==
  /\ transitioning = 1 /\ elapsed + 1 >= transtime
  /\ elapsed' = 0 /\ current' = target
  /\ spoilt' = Spoilt(TRUE)
  /\ UNCHANGED <<light, start, target, transtime, transitioning, callVars, blinkVars, torn>>

Finish ==
  /\ transitioning = 1 /\ elapsed + 1 >= transtime
  /\ elapsed' = 0 /\ transitioning' = 0 /\ current' = target
  /\ spoilt' = Spoilt(TRUE)
  /\ UNCHANGED <<light, start, target, transtime, callVars, blinkVars, torn>>

app_light_timer_cb == Move \/ Finish

\* Power is lost; the next start begins with Init.
PowerLoss ==
  /\ light' \in Saved
  /\ start' = Dark /\ current' = Dark /\ target' = Dark
  /\ transtime' = 0 /\ elapsed' = 0 /\ transitioning' = 0
  /\ at' = 1 /\ fade' = InitFade /\ power' = "OFF" /\ held' = None /\ isr' = 0
  /\ blinking' = 0 /\ dark' = 0 /\ spoilt' = Over(light') /\ torn' = 0

-----------------------------------------------------------------------------
Setter == SetLevel \/ SetOnOff \/ SetTemperature \/ SetColour

Blinks == Proc_Blink \/ APP_Google_TimeProc

Next == Setter \/ Blinks \/ light_start_transition \/ app_light_timer_cb \/ PowerLoss

\* A call runs to its end and the timer keeps firing.
Spec == Init /\ [][Next]_vars
FairSpec == Spec /\ WF_vars(light_start_transition) /\ WF_vars(app_light_timer_cb)

-----------------------------------------------------------------------------
(* Properties                                                              *)

\* A lamp at rest shows its settings, wherever TIMER1 came: it may have ended a
\* transition between the writes of the next, with half of its targets.  So it does
\* after a blink, unless that came between the branch of a setter and its last
\* write; then the next setter, or the next blink, puts it right.
AtRestAsSet == at = 0 /\ transitioning = 0 /\ torn = 0 => current = Goal(light)

White(l) == l["c"] + l["w"]

\* While no interrupt comes between the writes, the two white channels together
\* never exceed full duty on the way from one mix to another, although each is
\* rounded by itself and one rises while the other falls.
WhiteInBudget == spoilt = 0 => White(current) <= LEVEL_MAX

\* Neither does a channel turn back: every step of an undisturbed transition is
\* a step towards its target, also after a change of mind half way.
NeverBack ==
  [][app_light_timer_cb /\ spoilt = 0 /\ spoilt' = 0 =>
       \A ch \in Channels : \/ current[ch] <= current'[ch] /\ current'[ch] <= target[ch]
                            \/ current[ch] >= current'[ch] /\ current'[ch] >= target[ch]]_vars

\* Left alone, the lamp comes to rest.
ComesToRest == <>[][~(Setter \/ Blinks \/ PowerLoss)]_vars => <>[](at = 0 /\ transitioning = 0)
=============================================================================
