------------------------- MODULE LampOutput_proofs -------------------------
(***************************************************************************)
(* Proofs about LampOutput for all levels, fades and requests: a lamp at   *)
(* rest shows its settings, an undisturbed transition keeps the budget of  *)
(* the white channels and never turns back.                                *)
(***************************************************************************)
EXTENDS LampOutput, TLAPS

(***************************************************************************)
(* Arithmetic                                                              *)
(***************************************************************************)
LEMMA Division ==
  ASSUME NEW a \in Nat, NEW c \in Nat \ {0}
  PROVE  /\ a \div c \in Nat /\ a % c \in 0 .. c - 1
         /\ a = c * (a \div c) + (a % c)
OBVIOUS

LEMMA Times2 ==
  ASSUME NEW a \in Nat, NEW b \in Nat, NEW c \in Nat, b <= c
  PROVE  a * b <= a * c /\ a * b \in Nat
<1>1. PICK d \in Nat : c = b + d
  <2>1. c - b \in Nat /\ c = b + (c - b)  OBVIOUS
  <2> QED  BY <2>1
<1>2. a * c = a * b + a * d /\ a * d \in Nat /\ a * b \in Nat  BY <1>1
<1> QED  BY <1>2

\* A quotient is at most q if the numerator stays below (q + 1) times the divisor.
LEMMA QuotientBound ==
  ASSUME NEW a \in Nat, NEW c \in Nat \ {0}, NEW q \in Nat, a <= c * q
  PROVE  a \div c <= q
<1>1. a \div c \in Nat /\ c * (a \div c) <= a  BY Division
<1>2. SUFFICES ASSUME a \div c >= q + 1 PROVE FALSE
  BY <1>1
<1>3. c * (a \div c) >= c * (q + 1)  BY <1>1, <1>2, Times2
<1>4. c * (q + 1) = c * q + c  OBVIOUS
<1> QED  BY <1>1, <1>3, <1>4

LEMMA QuotientMono ==
  ASSUME NEW a \in Nat, NEW b \in Nat, NEW c \in Nat \ {0}, a <= b
  PROVE  a \div c <= b \div c
<1>1. a \div c \in Nat /\ b \div c \in Nat /\ c * (a \div c) <= a  BY Division
<1>2. b < c * (b \div c) + c  BY Division
<1>3. SUFFICES ASSUME a \div c >= b \div c + 1 PROVE FALSE
  BY <1>1
<1>4. c * (a \div c) >= c * (b \div c + 1)  BY <1>1, <1>3, Times2
<1>5. c * (b \div c + 1) = c * (b \div c) + c  BY <1>1
<1> QED  BY <1>1, <1>2, <1>4, <1>5

\* The part of a difference covered after e of t periods.
LEMMA Part ==
  ASSUME NEW d \in Nat, NEW t \in Nat \ {0}, NEW e \in 0 .. t
  PROVE  (d * e) \div t \in 0 .. d
<1>1. d * e \in Nat /\ d * e <= d * t  BY Times2
<1>2. d * t = t * d  OBVIOUS
<1>3. (d * e) \div t \in Nat  BY <1>1, Division
<1> QED  BY <1>1, <1>2, <1>3, QuotientBound

\* A channel stays between its ends.
LEMMA Span ==
  ASSUME NEW a \in Nat, NEW b \in Nat, NEW t \in Nat \ {0}, NEW e \in 0 .. t
  PROVE  /\ Between(a, b, e, t) \in Nat
         /\ a <= b => a <= Between(a, b, e, t) /\ Between(a, b, e, t) <= b
         /\ b <= a => b <= Between(a, b, e, t) /\ Between(a, b, e, t) <= a
<1>1. CASE b >= a
  <2>1. b - a \in Nat  BY <1>1
  <2>2. ((b - a) * e) \div t \in 0 .. b - a  BY <2>1, Part
  <2>3. Between(a, b, e, t) = a + ((b - a) * e) \div t  BY <1>1 DEF Between
  <2> QED  BY <1>1, <2>2, <2>3
<1>2. CASE b < a
  <2>1. a - b \in Nat  BY <1>2
  <2>2. ((a - b) * e) \div t \in 0 .. a - b  BY <2>1, Part
  <2>3. Between(a, b, e, t) = a - ((a - b) * e) \div t  BY <1>2 DEF Between
  <2> QED  BY <1>2, <2>2, <2>3
<1> QED  BY <1>1, <1>2

\* A channel moves on, never back.
LEMMA Onward ==
  ASSUME NEW a \in Nat, NEW b \in Nat, NEW t \in Nat \ {0}, NEW e \in 0 .. t, NEW f \in 0 .. t, e <= f
  PROVE  /\ a <= b => Between(a, b, e, t) <= Between(a, b, f, t)
         /\ b < a => Between(a, b, f, t) <= Between(a, b, e, t)
<1>1. CASE a <= b
  <2>1. b - a \in Nat  BY <1>1
  <2>2. /\ (b - a) * e \in Nat /\ (b - a) * f \in Nat
        /\ (b - a) * e <= (b - a) * f  BY <2>1, Times2
  <2>3. ((b - a) * e) \div t <= ((b - a) * f) \div t  BY <2>2, QuotientMono
  <2>4. ((b - a) * e) \div t \in Nat /\ ((b - a) * f) \div t \in Nat  BY <2>2, Division
  <2> QED  BY <1>1, <2>3, <2>4 DEF Between
<1>2. CASE b < a
  <2>1. a - b \in Nat  BY <1>2
  <2>2. /\ (a - b) * e \in Nat /\ (a - b) * f \in Nat
        /\ (a - b) * e <= (a - b) * f  BY <2>1, Times2
  <2>3. ((a - b) * e) \div t <= ((a - b) * f) \div t  BY <2>2, QuotientMono
  <2>4. ((a - b) * e) \div t \in Nat /\ ((a - b) * f) \div t \in Nat  BY <2>2, Division
  <2> QED  BY <1>2, <2>3, <2>4 DEF Between
<1> QED  BY <1>1, <1>2

LEMMA QuotientShift ==
  ASSUME NEW x \in Nat, NEW y \in Nat, NEW t \in Nat \ {0}, NEW m \in Nat, x <= y + t * m
  PROVE  x \div t <= y \div t + m
<1>1. y + t * m \in Nat  BY Times2
<1>2. y \div t \in Nat /\ x \div t \in Nat  BY Division
<1>3. y < t * (y \div t) + t  BY Division
<1>4. t * (x \div t) <= x  BY Division
<1>5. SUFFICES ASSUME x \div t >= y \div t + m + 1 PROVE FALSE
  BY <1>2
<1>6. t * (x \div t) >= t * (y \div t + m + 1)  BY <1>2, <1>5, Times2
<1>7. t * (y \div t + m + 1) = t * (y \div t) + t * m + t  BY <1>2
<1>8. t * (y \div t) \in Nat /\ t * m \in Nat /\ t * (x \div t) \in Nat  BY <1>2
<1> QED  BY <1>3, <1>4, <1>6, <1>7, <1>8

\* One channel rises by u, the other falls by d: rounding down both parts does
\* not take their sum over the larger of the sums at the two ends.
LEMMA RiseAndFall ==
  ASSUME NEW u \in Nat, NEW d \in Nat, NEW t \in Nat \ {0}, NEW e \in 0 .. t,
         NEW m \in Nat, u <= d + m
  PROVE  (u * e) \div t <= (d * e) \div t + m
<1>1. u * e \in Nat /\ d * e \in Nat /\ m * e \in Nat /\ m * e <= m * t  BY Times2
<1>2. u * e <= (d + m) * e
  <2>1. e * u <= e * (d + m)  BY Times2
  <2> QED  BY <2>1
<1>3. (d + m) * e = d * e + m * e /\ m * t = t * m  OBVIOUS
<1>4. u * e <= d * e + t * m  BY <1>1, <1>2, <1>3
<1> QED  BY <1>1, <1>4, QuotientShift

\* The sum of two channels on their way.
LEMMA SumOnTheWay ==
  ASSUME NEW a \in Nat, NEW b \in Nat, NEW c \in Nat, NEW d \in Nat, NEW k \in Nat,
         NEW t \in Nat \ {0}, NEW e \in 0 .. t, a + c <= k, b + d <= k
  PROVE  Between(a, b, e, t) + Between(c, d, e, t) <= k
<1>1. CASE a <= b /\ c <= d
  <2>1. Between(a, b, e, t) \in Nat /\ Between(a, b, e, t) <= b  BY <1>1, Span
  <2>2. Between(c, d, e, t) \in Nat /\ Between(c, d, e, t) <= d  BY <1>1, Span
  <2> QED  BY <2>1, <2>2
<1>2. CASE b <= a /\ d <= c
  <2>1. Between(a, b, e, t) \in Nat /\ Between(a, b, e, t) <= a  BY <1>2, Span
  <2>2. Between(c, d, e, t) \in Nat /\ Between(c, d, e, t) <= c  BY <1>2, Span
  <2> QED  BY <2>1, <2>2
<1>3. ASSUME NEW x \in Nat, NEW y \in Nat, NEW v \in Nat, NEW w \in Nat,
             x + v <= k, y + w <= k, x < y, w < v
      PROVE  Between(x, y, e, t) + Between(v, w, e, t) <= k
  <2> DEFINE u == y - x
             f == v - w
             m == k - (x + v)
  <2>1. u \in Nat /\ f \in Nat /\ m \in Nat /\ u <= f + m  BY <1>3
  <2>2. (u * e) \div t <= (f * e) \div t + m  BY <2>1, RiseAndFall
  <2>3. (u * e) \div t \in 0 .. u /\ (f * e) \div t \in 0 .. f  BY <2>1, Part
  <2>4. Between(x, y, e, t) = x + (u * e) \div t /\ Between(v, w, e, t) = v - (f * e) \div t
    BY <1>3 DEF Between
  <2>5. m = k - (x + v)  OBVIOUS
  <2> HIDE DEF u, f, m
  <2> QED  BY <2>1, <2>2, <2>3, <2>4, <2>5
<1>4. CASE a < b /\ d < c
  BY <1>3, <1>4
<1>5. CASE b < a /\ c < d
  <2>1. Between(c, d, e, t) + Between(a, b, e, t) <= k  BY <1>3, <1>5
  <2>2. Between(c, d, e, t) \in Nat /\ Between(a, b, e, t) \in Nat  BY Span
  <2> QED  BY <2>1, <2>2
<1> QED  BY <1>1, <1>2, <1>4, <1>5

(***************************************************************************)
(* The inductive invariant                                                 *)
(***************************************************************************)
\* The channels whose targets light_start_transition has written.
Aimed(k) == IF k \in 1 .. 5 THEN {} ELSE IF k = 6 THEN {"rgb"}
            ELSE IF k = 7 THEN {"rgb", "c"} ELSE Channels

\* They are those of the settings, and without a transition the goal is reached.
Heading ==
  /\ torn = 0 => /\ at > 4 => power = light.onoff
                 /\ \A ch \in Aimed(at) : target[ch] = Goal(light)[ch]
  /\ at = 0 /\ transitioning = 0 => current = target

\* What a blink may have interrupted: an undisturbed transition before its first copy,
\* one that is not torn before its branch.
Calls ==
  /\ at = 0 => isr = 0
  /\ isr = 0 => held.at = 0
  /\ torn = 1 => spoilt = 1
  /\ torn = 0 => held.at \in 0 .. 4
  /\ spoilt = 0 => held.at \in 0 .. 1

\* The channels whose starts it has written.
Copied(k) == IF k = 1 THEN {} ELSE IF k = 2 THEN {"rgb"}
             ELSE IF k = 3 THEN {"rgb", "w"} ELSE Channels

\* Where the channels are on an undisturbed way.
OnTheWay ==
  spoilt = 0 =>
    /\ light.lightness <= FULL
    /\ White(current) <= LEVEL_MAX
    /\ at \notin {6, 7} => White(target) <= LEVEL_MAX
    /\ at \in {0, 1} /\ transitioning = 1 =>
         /\ White(start) <= LEVEL_MAX
         /\ IF elapsed = 0 THEN current = start
            ELSE /\ elapsed < transtime
                 /\ \A ch \in Channels :
                      current[ch] = Between(start[ch], target[ch], elapsed, transtime)
    /\ at > 1 => \A ch \in Copied(at) : start[ch] = current[ch]
    /\ at = 10 => elapsed = 0

IInv == TypeOK /\ Heading /\ Calls /\ OnTheWay

(***************************************************************************)
(* The goal of a transition                                                *)
(***************************************************************************)
LEMMA Modulo ==
  ASSUME NEW a \in Int, NEW c \in Nat \ {0}
  PROVE  a % c \in 0 .. c - 1 /\ a \div c \in Int
OBVIOUS

LEMMA GoalTyped ==
  ASSUME NEW s \in Settings
  PROVE  Goal(s) \in Levels /\ WhiteTotal(s) \in Int
<1>1. WORD \in Nat \ {0} /\ FULL \in Nat \ {0} /\ LEVEL_MAX \in Nat /\ LEVEL_MIN \in Nat
  BY LevelAssumption
<1>2. s.lightness \in Nat /\ s.colour \in Nat /\ s.temperature \in Nat
  BY <1>1, LevelAssumption DEF Settings
<1>3. TEMP_MIN \in Nat /\ TEMP_MAX - TEMP_MIN \in Nat \ {0}
  BY TempAssumption
<1>4. WhiteTotal(s) \in Int
  <2>1. (LEVEL_MAX - LEVEL_MIN) * s.lightness \in Int  BY <1>1, <1>2
  <2>2. ((LEVEL_MAX - LEVEL_MIN) * s.lightness) \div FULL \in Int  BY <1>1, <2>1, Modulo
  <2> QED  BY <1>1, <2>2 DEF WhiteTotal
<1>5. Cold(s) \in 0 .. WORD - 1
  <2>1. WhiteTotal(s) * (s.temperature - TEMP_MIN) \in Int  BY <1>2, <1>3, <1>4
  <2>2. (WhiteTotal(s) * (s.temperature - TEMP_MIN)) \div (TEMP_MAX - TEMP_MIN) \in Int
    BY <1>3, <2>1, Modulo
  <2> QED  BY <1>1, <2>2, Modulo DEF Cold
<1>6. (WhiteTotal(s) - Cold(s)) % WORD \in 0 .. WORD - 1
  <2>1. WhiteTotal(s) - Cold(s) \in Int  BY <1>1, <1>4, <1>5
  <2> QED  BY <1>1, <2>1, Modulo
<1>7. Colour(s) \in 0 .. WORD - 1
  <2>1. s.colour * s.lightness \in Int  BY <1>2
  <2>2. (s.colour * s.lightness) \div FULL \in Int  BY <1>1, <2>1, Modulo
  <2> QED  BY <1>1, <2>2, Modulo DEF Colour
<1>8. 0 \in 0 .. WORD - 1  BY <1>1
<1> QED  BY <1>4, <1>5, <1>6, <1>7, <1>8 DEF Goal, Levels

\* What the cold channel gets the warm one does not: a goal keeps the budget.
LEMMA GoalBudget ==
  ASSUME NEW s \in Settings, s.lightness <= FULL,
         s.mode = "CW" => s.temperature \in TEMP_MIN .. TEMP_MAX
  PROVE  White(Goal(s)) <= LEVEL_MAX
<1>1. CASE s.onoff = "ON" /\ s.mode = "CW"
  <2> DEFINE r == LEVEL_MAX - LEVEL_MIN
             q == (r * s.lightness) \div FULL
             total == q + LEVEL_MIN
             d == s.temperature - TEMP_MIN
             span == TEMP_MAX - TEMP_MIN
             cold == (total * d) \div span
  <2>1. r \in Nat /\ FULL \in Nat \ {0} /\ s.lightness \in Nat /\ LEVEL_MIN \in Nat
        /\ WORD \in Nat \ {0} /\ LEVEL_MAX \in 0 .. WORD - 1
    BY LevelAssumption DEF Settings
  <2>2. q \in Nat /\ q <= r
    <3>1. r * s.lightness \in Nat /\ r * s.lightness <= r * FULL  BY <2>1, Times2
    <3>2. r * FULL = FULL * r  BY <2>1
    <3> HIDE DEF r
    <3> QED  BY <2>1, <3>1, <3>2, Division, QuotientBound
  <2>3. total \in Nat /\ total <= LEVEL_MAX  BY <2>1, <2>2
  <2>4. span \in Nat \ {0} /\ d \in 0 .. span  BY <1>1, TempAssumption
  <2>5. cold \in 0 .. total
    <3> HIDE DEF total, d, span
    <3> QED  BY <2>3, <2>4, Part
  <2>6. WhiteTotal(s) = total  BY DEF WhiteTotal
  <2>7. Cold(s) = cold % WORD  BY <2>6 DEF Cold
  <2> HIDE DEF total, cold
  <2>8. Cold(s) = cold  BY <2>1, <2>3, <2>5, <2>7
  <2>9. (WhiteTotal(s) - Cold(s)) % WORD = total - cold  BY <2>1, <2>3, <2>5, <2>6, <2>8
  <2>10. Goal(s)["c"] = cold /\ Goal(s)["w"] = total - cold
    BY <1>1, <2>8, <2>9 DEF Goal, Channels
  <2> QED  BY <2>3, <2>5, <2>10, <2>1 DEF White
<1>2. CASE ~(s.onoff = "ON" /\ s.mode = "CW")
  <2>1. Goal(s)["c"] = 0 /\ Goal(s)["w"] = 0  BY <1>2 DEF Goal, Channels
  <2> QED  BY <2>1, LevelAssumption DEF White
<1> QED  BY <1>1, <1>2

\* The setters keep the settings well formed.
LEMMA SettersTyped ==
  ASSUME NEW s \in Settings, s.mode = "CW" => s.temperature \in TEMP_MIN .. TEMP_MAX
  PROVE  /\ \A v \in Nat : /\ APP_Light_SetLevel(s, v) \in Settings
                           /\ APP_Light_SetLevel(s, v).mode = s.mode
                           /\ APP_Light_SetLevel(s, v).temperature = s.temperature
         /\ \A v \in {"ON", "OFF"} : /\ APP_Light_SetOnOff(s, v) \in Settings
                                     /\ APP_Light_SetOnOff(s, v).mode = s.mode
                                     /\ APP_Light_SetOnOff(s, v).temperature = s.temperature
         /\ \A t \in Nat : /\ APP_Light_SetTemperature(s, t) \in Settings
                           /\ APP_Light_SetTemperature(s, t).temperature \in TEMP_MIN .. TEMP_MAX
         /\ \A c \in 0 .. LEVEL_MAX : /\ APP_Light_SetColour(s, c) \in Settings
                                      /\ APP_Light_SetColour(s, c).mode = "RGB"
<1>1. ASSUME NEW v \in Nat
      PROVE  /\ APP_Light_SetLevel(s, v) \in Settings
             /\ APP_Light_SetLevel(s, v).mode = s.mode
             /\ APP_Light_SetLevel(s, v).temperature = s.temperature
  <2>1. BYTE \in Nat \ {0}  BY LevelAssumption
  <2>2. v % BYTE \in 0 .. BYTE - 1 /\ 0 \in 0 .. BYTE - 1  BY <2>1, Modulo
  <2> QED  BY <2>2 DEF APP_Light_SetLevel, Settings
<1>2. ASSUME NEW t \in Nat
      PROVE  /\ APP_Light_SetTemperature(s, t) \in Settings
             /\ APP_Light_SetTemperature(s, t).temperature \in TEMP_MIN .. TEMP_MAX
  <2>1. Constrain(t, TEMP_MIN, TEMP_MAX) \in TEMP_MIN .. TEMP_MAX
    BY TempAssumption DEF Constrain
  <2>2. TEMP_MIN .. TEMP_MAX \subseteq Nat  BY TempAssumption
  <2> QED  BY <2>1, <2>2 DEF APP_Light_SetTemperature, Settings
<1>3. \A v \in {"ON", "OFF"} : /\ APP_Light_SetOnOff(s, v) \in Settings
                               /\ APP_Light_SetOnOff(s, v).mode = s.mode
                               /\ APP_Light_SetOnOff(s, v).temperature = s.temperature
  BY DEF APP_Light_SetOnOff, Settings
<1>4. \A c \in 0 .. LEVEL_MAX : /\ APP_Light_SetColour(s, c) \in Settings
                                /\ APP_Light_SetColour(s, c).mode = "RGB"
  BY DEF APP_Light_SetColour, Settings
<1> QED  BY <1>1, <1>2, <1>3, <1>4

LEMMA SavedTyped ==
  ASSUME NEW s \in Saved
  PROVE  s \in Settings /\ (s.mode = "CW" => s.temperature \in TEMP_MIN .. TEMP_MAX)
<1>1. BYTE \in Nat \ {0} /\ LEVEL_MAX \in Nat  BY LevelAssumption
<1>2. {v % BYTE : v \in Requests} \subseteq 0 .. BYTE - 1
  BY <1>1, ClientAssumption, Modulo
<1>3. Temps \cap TEMP_MIN .. TEMP_MAX \subseteq Nat /\ 0 \in 0 .. LEVEL_MAX
  BY <1>1, TempAssumption
<1> DEFINE R == {v % BYTE : v \in Requests}
           T == Temps \cap TEMP_MIN .. TEMP_MAX
<1>4. CASE s \in [mode : {"CW"}, onoff : {"ON"}, lightness : R, temperature : T, colour : {0}]
  <2>1. R \subseteq 0 .. BYTE - 1 /\ T \subseteq Nat /\ T \subseteq TEMP_MIN .. TEMP_MAX
    BY <1>2, <1>3
  <2> HIDE DEF R, T
  <2> QED  BY <1>3, <1>4, <2>1 DEF Settings
<1>5. CASE s \in [mode : {"RGB"}, onoff : {"ON"}, lightness : R, temperature : {0}, colour : Colours]
  <2>1. R \subseteq 0 .. BYTE - 1  BY <1>2
  <2>2. Colours \subseteq 0 .. LEVEL_MAX  BY ClientAssumption
  <2> DEFINE L == 0 .. BYTE - 1
             C == 0 .. LEVEL_MAX
  <2>3. R \subseteq L /\ Colours \subseteq C  BY <2>1, <2>2
  <2>4. Settings = [mode : {"RGB", "CW"}, onoff : {"ON", "OFF"}, lightness : L,
                    temperature : Nat, colour : C]
    BY DEF Settings
  <2> HIDE DEF R, L, C
  <2> QED  BY <1>5, <2>3, <2>4
<1> QED  BY <1>4, <1>5 DEF Saved

LEMMA DarkTyped == Dark \in Levels /\ White(Dark) = 0
<1>1. 0 \in 0 .. WORD - 1  BY LevelAssumption
<1> QED  BY <1>1 DEF Dark, Levels, White, Channels

(***************************************************************************)
(* Every step keeps the invariant                                          *)
(***************************************************************************)
LEMMA InitHolds == Init => IInv
<1> SUFFICES ASSUME Init PROVE IInv
  OBVIOUS
<1>1. light \in Settings /\ (light.mode = "CW" => light.temperature \in TEMP_MIN .. TEMP_MAX)
  BY SavedTyped DEF Init
<1>2. TypeOK
  BY <1>1, DarkTyped, FadeAssumption DEF Init, TypeOK, Times, Over, None, LastWrite
<1>3. Heading /\ Calls  BY DEF Init, Heading, Aimed, Calls, None
<1>4. light.lightness \in Int /\ FULL \in Int  BY <1>1, LevelAssumption DEF Settings
<1>5. spoilt = 0 => light.lightness <= FULL
  BY <1>4 DEF Init, Over
<1>6. OnTheWay
  BY <1>5, DarkTyped, LevelAssumption DEF Init, OnTheWay
<1> QED  BY <1>2, <1>3, <1>6 DEF IInv

LEMMA PowerLossHolds == PowerLoss => IInv'
<1> SUFFICES ASSUME PowerLoss PROVE IInv'
  OBVIOUS
<1>1. light' \in Settings /\ (light'.mode = "CW" => light'.temperature \in TEMP_MIN .. TEMP_MAX)
  BY SavedTyped DEF PowerLoss
<1>2. TypeOK'
  BY <1>1, DarkTyped, FadeAssumption DEF PowerLoss, TypeOK, Times, Over, None, LastWrite
<1>3. Heading' /\ Calls'  BY DEF PowerLoss, Heading, Aimed, Calls, None
<1>4. light'.lightness \in Int /\ FULL \in Int  BY <1>1, LevelAssumption DEF Settings
<1>5. spoilt' = 0 => light'.lightness <= FULL
  BY <1>4 DEF PowerLoss, Over
<1>6. White(current') = 0 /\ White(target') = 0  BY DarkTyped DEF PowerLoss
<1>7. OnTheWay'
  BY <1>5, <1>6, LevelAssumption DEF PowerLoss, OnTheWay, White
<1> QED  BY <1>2, <1>3, <1>7 DEF IInv

\* A setter: any settings that are well formed.
LEMMA SetHolds ==
  ASSUME IInv, NEW s \in Settings, s.mode = "CW" => s.temperature \in TEMP_MIN .. TEMP_MAX,
         NEW T \in SUBSET Times, Set(s, T), blinking' \in 0 .. 1, dark' \in 0 .. 1
  PROVE  IInv'
<1> USE DEF IInv, Call, timeVars
<1>1. TypeOK'  BY DEF TypeOK, Set, LastWrite
<1>2. Heading'  BY DEF Set, Heading, Aimed
<1>6. Calls'  BY DEF Set, Calls, TypeOK
<1>3. s.lightness \in Int /\ FULL \in Int  BY LevelAssumption DEF Settings
<1>4. spoilt' = 0 => light'.lightness <= FULL /\ spoilt = 0
  BY <1>3 DEF Set
<1>5. OnTheWay'
  BY <1>4 DEF Set, OnTheWay, White
<1> QED  BY <1>1, <1>2, <1>5, <1>6

LEMMA CopyStartHolds == IInv /\ CopyStart => IInv'
<1> SUFFICES ASSUME IInv, CopyStart PROVE IInv'
  OBVIOUS
<1> USE DEF IInv, timeVars, blinkVars
<1>1. at \in 1 .. 3 /\ at' = at + 1  BY DEF CopyStart, Copying
<1>2. StartOrder[at] \in Channels  BY <1>1 DEF StartOrder, Channels
<1>3. TypeOK'  BY <1>1, <1>2 DEF TypeOK, CopyStart, Levels, LastWrite
<1>4. Heading' /\ Calls'  BY <1>1 DEF CopyStart, Heading, Aimed, Calls
<1>5. \A ch \in Channels : start'[ch] = IF ch = StartOrder[at] THEN current[ch] ELSE start[ch]
  BY DEF TypeOK, Levels, CopyStart
<1>6. Copied(at') = Copied(at) \cup {StartOrder[at]} /\ Copied(at) \subseteq Channels
  BY <1>1 DEF Copied, StartOrder, Channels
<1>7. spoilt' = 0 => \A ch \in Copied(at') : start'[ch] = current'[ch]
  <2>1. ASSUME spoilt = 0 PROVE \A ch \in Copied(at) : start[ch] = current[ch]
    BY <1>1, <2>1 DEF OnTheWay, Copied
  <2> QED  BY <1>2, <1>5, <1>6, <2>1 DEF CopyStart
<1>8. OnTheWay'
  BY <1>1, <1>7 DEF CopyStart, OnTheWay, White
<1> QED  BY <1>3, <1>4, <1>8

LEMMA TakeBranchHolds == IInv /\ TakeBranch => IInv'
<1> SUFFICES ASSUME IInv, TakeBranch PROVE IInv'
  OBVIOUS
<1> USE DEF IInv, lightVars, timeVars, blinkVars
<1>1. at = 4 /\ at' = 5  BY DEF TakeBranch, Branching
<1>2. TypeOK'  BY <1>1 DEF TypeOK, TakeBranch, LastWrite, Settings
<1>3. Heading' /\ Calls'  BY <1>1 DEF TakeBranch, Heading, Aimed, Calls
<1>4. Copied(at') = Copied(at)  BY <1>1 DEF Copied
<1>5. OnTheWay'  BY <1>1, <1>4 DEF TakeBranch, OnTheWay, White
<1> QED  BY <1>2, <1>3, <1>5

\* What a target can be set to: a level, and that of the settings if the call is not torn.
LEMMA AimsTyped ==
  ASSUME IInv, at \in 5 .. 7, NEW v \in Aims(TargetOrder[at - 4])
  PROVE  /\ TargetOrder[at - 4] \in Channels /\ v \in 0 .. WORD - 1
         /\ torn = 0 => v = Goal(light)[TargetOrder[at - 4]]
<1> DEFINE ch == TargetOrder[at - 4]
<1>1. ch \in Channels /\ (ch = "w" => at = 7)  BY DEF TargetOrder, Channels
<1>2. Seen \in Settings /\ light \in Settings  BY DEF IInv, TypeOK, Seen, Settings
<1>3. Goal(Seen)[ch] \in 0 .. WORD - 1  BY <1>1, <1>2, GoalTyped DEF Levels
<1>4. (WhiteTotal(light) - target["c"]) % WORD \in 0 .. WORD - 1
  <2>1. target["c"] \in Int /\ WORD \in Nat \ {0}
    BY LevelAssumption DEF IInv, TypeOK, Levels, Channels
  <2>2. WhiteTotal(light) - target["c"] \in Int  BY <1>2, <2>1, GoalTyped
  <2> QED  BY <2>1, <2>2, Modulo
<1>5. v \in {Goal(Seen)[ch], (WhiteTotal(light) - target["c"]) % WORD}  BY DEF Aims
<1>6. ASSUME torn = 0 PROVE v = Goal(light)[ch]
  <2>1. power = light.onoff  BY <1>6 DEF IInv, Heading
  <2>2. Seen = light  BY <1>2, <2>1 DEF Seen, Settings
  <2>3. CASE ch = "w" /\ power = "ON" /\ light.mode = "CW"
    <3>1. target["c"] = Goal(light)["c"]  BY <1>1, <1>6, <2>3 DEF IInv, Heading, Aimed
    <3>2. "c" \in Channels /\ "w" \in Channels  BY DEF Channels
    <3>3. Goal(light)["c"] = Cold(light)  BY <2>1, <2>3, <3>2 DEF Goal
    <3>4. Goal(light)["w"] = (WhiteTotal(light) - Cold(light)) % WORD  BY <2>1, <2>3, <3>2 DEF Goal
    <3> QED  BY <1>5, <2>2, <2>3, <3>1, <3>3, <3>4
  <2>4. CASE ~(ch = "w" /\ power = "ON" /\ light.mode = "CW")
    BY <2>2, <2>4 DEF Aims
  <2> QED  BY <2>3, <2>4
<1> QED  BY <1>1, <1>3, <1>4, <1>5, <1>6

LEMMA SetTargetHolds == IInv /\ SetTarget => IInv'
<1> SUFFICES ASSUME IInv, SetTarget PROVE IInv'
  OBVIOUS
<1> USE DEF IInv, timeVars, blinkVars
<1>1. at \in 5 .. 7 /\ at' = at + 1  BY DEF SetTarget, Aiming
<1> DEFINE ch0 == TargetOrder[at - 4]
<1>2. PICK v \in Aims(ch0) : target' = [target EXCEPT ![ch0] = v]
  BY DEF SetTarget
<1>3. /\ ch0 \in Channels /\ v \in 0 .. WORD - 1
      /\ torn = 0 => v = Goal(light)[ch0]
  BY <1>1, AimsTyped
<1>4. target' \in Levels  BY <1>2, <1>3 DEF TypeOK, Levels
<1>5. TypeOK'  BY <1>1, <1>4 DEF TypeOK, SetTarget, LastWrite
<1>6. \A ch \in Channels : target'[ch] = IF ch = ch0 THEN v ELSE target[ch]
  BY <1>2 DEF TypeOK, Levels
<1>7. Aimed(at') = Aimed(at) \cup {ch0} /\ Aimed(at) \subseteq Channels
  BY <1>1 DEF Aimed, TargetOrder, Channels
<1>8. torn = 0 => \A ch \in Aimed(at') : target'[ch] = Goal(light)[ch]
  BY <1>3, <1>6, <1>7 DEF Heading
<1>9. Heading' /\ Calls'
  BY <1>1, <1>8 DEF Heading, Calls, SetTarget
<1>10. spoilt' = 0 /\ at' = 8 => White(target') <= LEVEL_MAX
  <2> SUFFICES ASSUME spoilt = 0, at' = 8 PROVE White(target') <= LEVEL_MAX
    BY DEF SetTarget
  <2>1. torn = 0  BY DEF Calls, TypeOK
  <2>2. target'["c"] = Goal(light)["c"] /\ target'["w"] = Goal(light)["w"]
    BY <1>8, <2>1 DEF Aimed, Channels
  <2>3. White(Goal(light)) <= LEVEL_MAX  BY GoalBudget DEF TypeOK, OnTheWay
  <2> QED  BY <2>2, <2>3 DEF White
<1>11. Copied(at') = Copied(at)  BY <1>1 DEF Copied
<1>12. OnTheWay'
  BY <1>1, <1>10, <1>11 DEF SetTarget, OnTheWay, White
<1> QED  BY <1>5, <1>9, <1>12

LEMMA LastWritesHold == IInv /\ (SetTime \/ ClearElapsed) => IInv'
<1> SUFFICES ASSUME IInv, SetTime \/ ClearElapsed PROVE IInv'
  OBVIOUS
<1> USE DEF IInv, lightVars, blinkVars
<1>1. TypeOK'  BY DEF TypeOK, SetTime, ClearElapsed, LastWrite
<1>2. at \in 8 .. 9 /\ at' = at + 1 /\ UNCHANGED <<lightVars, spoilt, torn, held, isr, power>>
  BY DEF SetTime, ClearElapsed
<1>3. Aimed(at) = Channels /\ Aimed(at') = Channels /\ Copied(at) = Channels /\ Copied(at') = Channels
  BY <1>2 DEF Aimed, Copied
<1>4. Heading' /\ Calls'  BY <1>2, <1>3 DEF Heading, Calls
<1>5. at' = 10 => elapsed' = 0
  BY DEF SetTime, ClearElapsed
<1>6. OnTheWay'
  BY <1>2, <1>3, <1>5 DEF OnTheWay, White
<1> QED  BY <1>1, <1>4, <1>6

\* The last write: an undisturbed call is back in the main loop, or where a setter has not
\* begun to copy.
LEMMA BeginHolds == IInv /\ Begin => IInv'
<1> SUFFICES ASSUME IInv, Begin PROVE IInv'
  OBVIOUS
<1> USE DEF IInv, lightVars, blinkVars
<1>1. TypeOK'  BY FadeAssumption DEF TypeOK, Begin, LastWrite, None, Times
<1>2. /\ at = 10 /\ at' = held.at /\ transitioning' = 1 /\ elapsed' = elapsed
      /\ UNCHANGED <<lightVars, spoilt, torn>> /\ isr' = 0 /\ held'.at = 0
  BY DEF Begin, LastWrite, None
<1>3. Aimed(at) = Channels /\ Copied(at) = Channels /\ \A k \in 0 .. 4 : Aimed(k) \subseteq Channels
  BY <1>2 DEF Aimed, Copied
<1>4. Heading' /\ Calls'  BY <1>2, <1>3 DEF Heading, Calls
<1>5. ASSUME spoilt' = 0
      PROVE  White(start') <= LEVEL_MAX /\ elapsed' = 0 /\ current' = start' /\ at' \in 0 .. 1
  <2>1. \A ch \in Channels : start[ch] = current[ch]
    BY <1>2, <1>3, <1>5 DEF OnTheWay
  <2>2. start = current  BY <2>1 DEF TypeOK, Levels
  <2> QED  BY <1>2, <1>5, <2>2 DEF OnTheWay, White, Calls
<1>6. OnTheWay'
  BY <1>2, <1>5 DEF OnTheWay, White
<1> QED  BY <1>1, <1>4, <1>6

\* Blinking begins or ends, or the interrupt of TIMER0 switches the light.
LEMMA BlinksHold == IInv /\ Blinks => IInv'
<1> SUFFICES ASSUME IInv, Blinks PROVE IInv'
  OBVIOUS
<1>1. /\ light \in Settings /\ (light.mode = "CW" => light.temperature \in TEMP_MIN .. TEMP_MAX)
      /\ {0} \in SUBSET Times
  BY DEF IInv, TypeOK, Times
<1>2. CASE blinking' = 1 /\ dark' = 0 /\ UNCHANGED <<lightVars, timeVars, callVars, spoilt, torn>>
  BY <1>2 DEF IInv, TypeOK, Heading, Calls, OnTheWay, White, lightVars, timeVars, callVars
<1>3. CASE blinking' = 0 /\ dark' = 0 /\ Set(APP_Light_SetOnOff(light, "ON"), {0})
  BY <1>1, <1>3, SettersTyped, SetHolds
<1>4. CASE APP_Google_TimeProc
  <2> USE DEF IInv, Call, timeVars
  <2> DEFINE s == APP_Light_SetOnOff(light, IF dark = 1 THEN "ON" ELSE "OFF")
  <2>1. /\ s \in Settings /\ s.mode = light.mode /\ s.temperature = light.temperature
    BY <1>1, SettersTyped
  <2>2. s.lightness = light.lightness  BY <1>1 DEF APP_Light_SetOnOff, Settings
  <2>3. /\ light' = s /\ at' = 1 /\ fade' = 0 /\ power' = "OFF" /\ isr' = 1
        /\ held' = [at |-> at, fade |-> fade, power |-> power] /\ held'.at = at
        /\ UNCHANGED <<start, current, target, transtime, elapsed, transitioning>>
        /\ spoilt' = (IF at > 1 THEN 1 ELSE spoilt) /\ torn' = (IF at > 4 THEN 1 ELSE 0)
    BY <1>4 DEF APP_Google_TimeProc, Branching
  <2> HIDE DEF s
  <2>4. at \in 0 .. 10 /\ spoilt \in 0 .. 1  BY DEF TypeOK, LastWrite
  <2>5. TypeOK'
    <3>1. dark' \in 0 .. 1 /\ blinking' \in 0 .. 1  BY <1>4 DEF APP_Google_TimeProc, TypeOK
    <3>2. light' \in Settings /\ (light'.mode = "CW" => light'.temperature \in TEMP_MIN .. TEMP_MAX)
      BY <1>1, <2>1, <2>3
    <3>3. held' \in [at : 0 .. LastWrite, fade : Times, power : {"ON", "OFF"}]
      BY <2>3 DEF TypeOK
    <3>4. fade' \in Times /\ at' \in 0 .. LastWrite /\ power' \in {"ON", "OFF"} /\ isr' \in 0 .. 1
      BY <2>3 DEF Times, LastWrite
    <3>5. spoilt' \in 0 .. 1 /\ torn' \in 0 .. 1  BY <2>3, <2>4
    <3>6. /\ start' \in Levels /\ current' \in Levels /\ target' \in Levels
          /\ transtime' \in Times /\ elapsed' \in Nat /\ transitioning' \in 0 .. 1
      BY <2>3 DEF TypeOK
    <3> QED  BY <3>1, <3>2, <3>3, <3>4, <3>5, <3>6 DEF TypeOK
  <2>6. Heading'  BY <2>3 DEF Heading, Aimed
  <2>7. Calls'  BY <2>3, <2>4 DEF Calls
  <2>8. OnTheWay'
    <3> SUFFICES ASSUME spoilt' = 0 PROVE OnTheWay'
      BY DEF OnTheWay
    <3>1. spoilt = 0 /\ at \in {0, 1}  BY <2>3, <2>4
    <3>2. Copied(at') = {}  BY <2>3 DEF Copied
    <3> QED  BY <2>2, <2>3, <3>1, <3>2 DEF OnTheWay, White
  <2> QED  BY <2>5, <2>6, <2>7, <2>8
<1> QED  BY <1>2, <1>3, <1>4 DEF Blinks, Proc_Blink

\* What the interrupt makes of the channels in the midst of a transition.
LEMMA MoveTyped ==
  ASSUME TypeOK, Move
  PROVE  /\ elapsed + 1 \in 0 .. transtime /\ transtime \in Nat \ {0}
         /\ \A ch \in Channels :
              /\ start[ch] \in 0 .. WORD - 1 /\ target[ch] \in 0 .. WORD - 1
              /\ current'[ch] = Between(start[ch], target[ch], elapsed + 1, transtime)
              /\ current'[ch] \in 0 .. WORD - 1
<1>1. Times \subseteq Nat  BY FadeAssumption DEF Times
<1>2. elapsed \in Nat /\ transtime \in Nat  BY <1>1 DEF TypeOK
<1>3. elapsed + 1 \in 0 .. transtime /\ transtime \in Nat \ {0}  BY <1>2 DEF Move
<1> SUFFICES ASSUME NEW ch \in Channels
             PROVE  /\ start[ch] \in 0 .. WORD - 1 /\ target[ch] \in 0 .. WORD - 1
                    /\ current'[ch] = Between(start[ch], target[ch], elapsed + 1, transtime)
                    /\ current'[ch] \in 0 .. WORD - 1
  BY <1>3
<1>4. WORD \in Nat /\ start[ch] \in 0 .. WORD - 1 /\ target[ch] \in 0 .. WORD - 1
  BY LevelAssumption DEF TypeOK, Levels
<1>5. current'[ch] = Between(start[ch], target[ch], elapsed + 1, transtime)
  BY DEF Move
<1>6. start[ch] \in Nat /\ target[ch] \in Nat  BY <1>4
<1>7. /\ current'[ch] \in Nat
      /\ start[ch] <= target[ch] => start[ch] <= current'[ch] /\ current'[ch] <= target[ch]
      /\ target[ch] <= start[ch] => target[ch] <= current'[ch] /\ current'[ch] <= start[ch]
  BY <1>3, <1>5, <1>6, Span
<1> QED  BY <1>4, <1>5, <1>6, <1>7

LEMMA MoveHolds == IInv /\ Move => IInv'
<1> SUFFICES ASSUME IInv, Move PROVE IInv'
  OBVIOUS
<1> USE DEF IInv, callVars, blinkVars
<1>1. /\ elapsed + 1 \in 0 .. transtime /\ transtime \in Nat \ {0}
      /\ \A ch \in Channels :
           /\ start[ch] \in 0 .. WORD - 1 /\ target[ch] \in 0 .. WORD - 1
           /\ current'[ch] = Between(start[ch], target[ch], elapsed + 1, transtime)
           /\ current'[ch] \in 0 .. WORD - 1
  BY MoveTyped
<1>2. spoilt' = IF at > 1 THEN 1 ELSE spoilt  BY DEF Move, Spoilt
<1>3. TypeOK'
  <2>1. current' \in Levels  BY <1>1 DEF Move, Levels
  <2>2. elapsed \in Nat /\ spoilt \in 0 .. 1  BY DEF TypeOK
  <2>3. elapsed' = elapsed + 1  BY DEF Move
  <2>4. elapsed' \in Nat  BY <2>2, <2>3
  <2>5. spoilt' \in 0 .. 1  BY <1>2, <2>2
  <2> QED  BY <2>1, <2>4, <2>5 DEF TypeOK, Move
<1>4. Heading' /\ Calls'
  <2>1. spoilt' = 0 => spoilt = 0  BY <1>2
  <2>2. torn = 1 => spoilt' = 1  BY <1>2 DEF Calls
  <2>3. UNCHANGED <<light, target, at, power, held, isr, torn>> /\ transitioning = 1 /\ transitioning' = 1
    BY DEF Move
  <2> HIDE DEF IInv
  <2>4. Heading /\ Calls  BY DEF IInv
  <2>5. Heading'  BY <2>3, <2>4 DEF Heading
  <2>6. Calls'  BY <2>1, <2>2, <2>3, <2>4 DEF Calls
  <2> QED  BY <2>5, <2>6
<1>5. ASSUME spoilt' = 0
      PROVE  /\ spoilt = 0 /\ at \in {0, 1} /\ elapsed' = elapsed + 1
             /\ White(current') <= LEVEL_MAX
  <2>1. spoilt = 0 /\ at \in {0, 1}  BY <1>2, <1>5 DEF TypeOK
  <2>2. White(start) <= LEVEL_MAX /\ White(target) <= LEVEL_MAX
    BY <2>1 DEF OnTheWay, Move
  <2>3. {"c", "w"} \subseteq Channels  BY DEF Channels
  <2>4. /\ start["c"] \in Nat /\ target["c"] \in Nat /\ start["w"] \in Nat /\ target["w"] \in Nat
        /\ LEVEL_MAX \in Nat
    BY <1>1, <2>3, LevelAssumption
  <2>5. start["c"] + start["w"] <= LEVEL_MAX /\ target["c"] + target["w"] <= LEVEL_MAX
    BY <2>2 DEF White
  <2>6. Between(start["c"], target["c"], elapsed + 1, transtime)
          + Between(start["w"], target["w"], elapsed + 1, transtime) <= LEVEL_MAX
    BY <1>1, <2>4, <2>5, SumOnTheWay
  <2>7. White(current') <= LEVEL_MAX  BY <1>1, <2>3, <2>6 DEF White
  <2> QED  BY <2>1, <2>7 DEF Move
<1>6. OnTheWay'
  <2> SUFFICES ASSUME spoilt' = 0 PROVE OnTheWay'
    BY DEF OnTheWay
  <2>1. /\ spoilt = 0 /\ at \in {0, 1} /\ elapsed' = elapsed + 1 /\ White(current') <= LEVEL_MAX
    BY <1>5
  <2>2. /\ light' = light /\ start' = start /\ target' = target /\ transtime' = transtime
        /\ at' = at /\ transitioning = 1 /\ elapsed + 1 < transtime
    BY DEF Move
  <2>3. elapsed \in Nat  BY DEF TypeOK
  <2>4. /\ light.lightness <= FULL /\ White(target) <= LEVEL_MAX /\ White(start) <= LEVEL_MAX
    BY <2>1, <2>2 DEF OnTheWay
  <2>5. White(current)' = White(current') /\ White(target)' = White(target) /\ White(start)' = White(start)
    BY <2>2 DEF White
  <2>6. ~(elapsed' = 0) /\ elapsed' < transtime'  BY <2>1, <2>2, <2>3
  <2>7. \A ch \in Channels : current'[ch] = Between(start'[ch], target'[ch], elapsed', transtime')
    BY <1>1, <2>1, <2>2
  <2>8. ~(at' > 1) /\ ~(at' = 9)  BY <2>1, <2>2
  <2> QED  BY <2>1, <2>2, <2>4, <2>5, <2>6, <2>7, <2>8 DEF OnTheWay
<1> QED  BY <1>3, <1>4, <1>6

\* The end of a transition: whatever came in between, the channels are where
\* light_start_transition last sent them.
LEMMA FinishHolds == IInv /\ Finish => IInv'
<1> SUFFICES ASSUME IInv, Finish PROVE IInv'
  OBVIOUS
<1> USE DEF IInv, callVars, blinkVars
<1>1. /\ light' = light /\ target' = target /\ current' = target /\ start' = start
      /\ at' = at /\ transitioning' = 0
  BY DEF Finish
<1>2. TypeOK'
  <2>1. spoilt \in 0 .. 1  BY DEF TypeOK
  <2>2. spoilt' = Spoilt(TRUE)  BY DEF Finish
  <2>3. spoilt' \in {1, 0, spoilt}  BY <2>2 DEF Spoilt
  <2>4. spoilt' \in 0 .. 1  BY <2>1, <2>3
  <2>5. target \in Levels /\ 0 \in Nat /\ 0 \in 0 .. 1  BY DEF TypeOK
  <2>6. elapsed' = 0 /\ transtime' = transtime /\ UNCHANGED <<callVars, blinkVars, torn>>  BY DEF Finish
  <2> QED  BY <1>1, <2>4, <2>5, <2>6 DEF TypeOK
<1>3. Heading' /\ Calls'
  <2>1. Heading'  BY <1>1 DEF Heading, Finish
  <2>2. spoilt' = Spoilt(TRUE) /\ UNCHANGED <<at, isr, held, torn>>  BY DEF Finish
  <2>3. spoilt' = 1 \/ spoilt' = spoilt \/ (at = 0 /\ torn = 0)  BY <2>2 DEF Spoilt
  <2>4. spoilt \in 0 .. 1 /\ torn \in 0 .. 1  BY DEF TypeOK
  <2>5. Calls'
    <3> HIDE DEF IInv
    <3>1. Calls  BY DEF IInv
    <3>2. UNCHANGED <<at, isr, held, torn>>  BY <2>2
    <3>3. CASE spoilt' = 1
      BY <3>1, <3>2, <3>3 DEF Calls
    <3>4. CASE spoilt' = spoilt
      BY <3>1, <3>2, <3>4 DEF Calls
    <3>5. CASE at = 0 /\ torn = 0
      <4>1. isr = 0 /\ held.at = 0  BY <3>1, <3>5 DEF Calls
      <4> QED  BY <3>2, <3>5, <4>1 DEF Calls
    <3> QED  BY <2>3, <3>3, <3>4, <3>5
  <2> QED  BY <2>1, <2>5
<1>4. ASSUME spoilt' = 0
      PROVE  at \in {0, 1} /\ light.lightness <= FULL /\ White(target) <= LEVEL_MAX
  <2>1. at \in {0, 1} /\ (spoilt = 0 \/ (at = 0 /\ torn = 0 /\ light.lightness <= FULL))
    BY <1>4 DEF TypeOK, Finish, Spoilt
  <2>2. CASE spoilt = 0
    BY <2>1, <2>2 DEF OnTheWay
  <2>3. CASE at = 0 /\ torn = 0 /\ light.lightness <= FULL
    <3>1. target["c"] = Goal(light)["c"] /\ target["w"] = Goal(light)["w"]
      BY <2>3 DEF Heading, Aimed, Channels
    <3>2. White(Goal(light)) <= LEVEL_MAX  BY <2>3, GoalBudget DEF TypeOK
    <3> QED  BY <2>1, <2>3, <3>1, <3>2 DEF White
  <2> QED  BY <2>1, <2>2, <2>3
<1>5. OnTheWay'
  <2>1. White(current)' = White(target) /\ White(target)' = White(target)  BY <1>1 DEF White
  <2> QED  BY <1>1, <1>4, <2>1 DEF OnTheWay
<1> QED  BY <1>2, <1>3, <1>5

LEMMA SetterHolds == IInv /\ Setter => IInv'
<1> SUFFICES ASSUME IInv, Setter PROVE IInv'
  OBVIOUS
<1>1. /\ light \in Settings /\ (light.mode = "CW" => light.temperature \in TEMP_MIN .. TEMP_MAX)
      /\ Fades \in SUBSET Times /\ blinking' \in 0 .. 1 /\ dark' \in 0 .. 1
  BY DEF IInv, TypeOK, Times, Setter, SetLevel, SetOnOff, SetTemperature, SetColour, blinkVars
<1>2. CASE SetLevel
  <2>1. PICK v \in Nat : Set(APP_Light_SetLevel(light, v), Fades)
    BY <1>2, ClientAssumption DEF SetLevel
  <2> QED  BY <1>1, <2>1, SettersTyped, SetHolds
<1>3. CASE SetOnOff
  <2>1. PICK v \in {"ON", "OFF"} : Set(APP_Light_SetOnOff(light, v), Fades)  BY <1>3 DEF SetOnOff
  <2> QED  BY <1>1, <2>1, SettersTyped, SetHolds
<1>4. CASE SetTemperature
  <2>1. PICK t \in Temps : Set(APP_Light_SetTemperature(light, t), Fades)
    BY <1>4 DEF SetTemperature
  <2>2. t \in Nat \/ ~(t \in Nat)  OBVIOUS
  <2> QED  BY <1>1, <2>1, SettersTyped, SetHolds, ClientAssumption
<1>5. CASE SetColour
  <2>1. PICK c \in Colours : Set(APP_Light_SetColour(light, c), Fades)  BY <1>5 DEF SetColour
  <2>2. /\ APP_Light_SetColour(light, c) \in Settings
        /\ APP_Light_SetColour(light, c).mode = "RGB"
    BY <1>1, SettersTyped, ClientAssumption
  <2> QED  BY <1>1, <2>1, <2>2, SetHolds
<1> QED  BY <1>2, <1>3, <1>4, <1>5 DEF Setter

LEMMA StepHolds == IInv /\ [Next]_vars => IInv'
<1> SUFFICES ASSUME IInv, [Next]_vars PROVE IInv'
  OBVIOUS
<1>1. CASE UNCHANGED vars
  BY <1>1 DEF IInv, vars, lightVars, timeVars, callVars, blinkVars, TypeOK, Heading, Calls, OnTheWay, White
<1>2. CASE Next
  BY <1>2, SetterHolds, BlinksHold, CopyStartHolds, TakeBranchHolds, SetTargetHolds, LastWritesHold,
     BeginHolds, MoveHolds, FinishHolds, PowerLossHolds
  DEF Next, light_start_transition, app_light_timer_cb
<1> QED  BY <1>1, <1>2

(***************************************************************************)
(* Theorems                                                                *)
(***************************************************************************)
\* The invariant holds throughout.
LEMMA Inductive == Spec => []IInv
<1> QED  BY InitHolds, StepHolds, PTL DEF Spec

\* The settings and the PWM levels keep their range whatever is asked for and
\* whenever the interrupt comes.
THEOREM TypeCorrect == Spec => []TypeOK
<1>1. IInv => TypeOK  BY DEF IInv
<1> QED  BY <1>1, Inductive, PTL

\* A lamp at rest shows its settings, unless a blink has torn a setter apart.
THEOREM AtRestAsSetHolds == Spec => []AtRestAsSet
<1>1. IInv => AtRestAsSet
  <2> SUFFICES ASSUME IInv, at = 0, transitioning = 0, torn = 0 PROVE current = Goal(light)
    BY DEF AtRestAsSet
  <2>1. current = target /\ \A ch \in Channels : target[ch] = Goal(light)[ch]
    BY DEF IInv, Heading, Aimed
  <2>2. target \in Levels /\ Goal(light) \in Levels  BY GoalTyped DEF IInv, TypeOK
  <2> QED  BY <2>1, <2>2 DEF Levels
<1> QED  BY <1>1, Inductive, PTL

\* An undisturbed transition keeps the budget of the white channels.
THEOREM WhiteInBudgetHolds == Spec => []WhiteInBudget
<1>1. IInv => WhiteInBudget  BY DEF IInv, OnTheWay, WhiteInBudget
<1> QED  BY <1>1, Inductive, PTL

\* Every step of an undisturbed transition takes each channel towards its target.
THEOREM NeverBackHolds == Spec => NeverBack
<1> DEFINE Towards ==
      \A ch \in Channels : \/ current[ch] <= current'[ch] /\ current'[ch] <= target[ch]
                           \/ current[ch] >= current'[ch] /\ current'[ch] >= target[ch]
<1>1. ASSUME IInv, Move, spoilt = 0, spoilt' = 0
      PROVE  Towards
  <2>1. /\ elapsed + 1 \in 0 .. transtime /\ transtime \in Nat \ {0}
        /\ \A ch \in Channels :
             /\ start[ch] \in 0 .. WORD - 1 /\ target[ch] \in 0 .. WORD - 1
             /\ current'[ch] = Between(start[ch], target[ch], elapsed + 1, transtime)
             /\ current'[ch] \in 0 .. WORD - 1
    BY <1>1, MoveTyped DEF IInv
  <2>2. at \in {0, 1}  BY <1>1 DEF Move, Spoilt, IInv, TypeOK
  <2>3. IF elapsed = 0 THEN current = start
        ELSE /\ elapsed < transtime
             /\ \A ch \in Channels :
                  current[ch] = Between(start[ch], target[ch], elapsed, transtime)
    BY <1>1, <2>2 DEF IInv, OnTheWay, Move
  <2>4. elapsed \in Nat /\ elapsed \in 0 .. transtime /\ elapsed <= elapsed + 1
    BY <1>1, <2>1 DEF IInv, TypeOK
  <2> SUFFICES ASSUME NEW ch \in Channels
               PROVE  \/ current[ch] <= current'[ch] /\ current'[ch] <= target[ch]
                      \/ current[ch] >= current'[ch] /\ current'[ch] >= target[ch]
    OBVIOUS
  <2>5. start[ch] \in Nat /\ target[ch] \in Nat  BY <2>1
  <2>6. /\ current'[ch] \in Nat
        /\ start[ch] <= target[ch] => start[ch] <= current'[ch] /\ current'[ch] <= target[ch]
        /\ target[ch] <= start[ch] => target[ch] <= current'[ch] /\ current'[ch] <= start[ch]
    BY <2>1, <2>5, Span
  <2>7. CASE elapsed = 0
    BY <2>3, <2>5, <2>6, <2>7
  <2>8. CASE ~(elapsed = 0)
    <3>1. current[ch] = Between(start[ch], target[ch], elapsed, transtime)  BY <2>3, <2>8
    <3>2. current'[ch] = Between(start[ch], target[ch], elapsed + 1, transtime)  BY <2>1
    <3>3. current[ch] \in Nat  BY <2>1, <2>4, <2>5, <3>1, Span
    <3>4. /\ start[ch] <= target[ch] => current[ch] <= current'[ch]
          /\ target[ch] < start[ch] => current'[ch] <= current[ch]
      BY <2>1, <2>4, <2>5, <3>1, <3>2, Onward
    <3> QED  BY <2>5, <2>6, <3>3, <3>4
  <2> QED  BY <2>7, <2>8
<1>2. ASSUME IInv, Finish
      PROVE  Towards
  <2>1. current' = target  BY <1>2 DEF Finish
  <2>2. current \in Levels /\ target \in Levels  BY <1>2 DEF IInv, TypeOK
  <2>3. \A ch \in Channels : current[ch] \in Int /\ target[ch] \in Int
    BY <2>2, LevelAssumption DEF Levels
  <2> QED  BY <2>1, <2>3
<1>3. IInv => (app_light_timer_cb /\ spoilt = 0 /\ spoilt' = 0 => Towards)
  BY <1>1, <1>2 DEF app_light_timer_cb
<1>4. IInv /\ [Next]_vars =>
        [app_light_timer_cb /\ spoilt = 0 /\ spoilt' = 0 => Towards]_vars
  BY <1>3
<1> QED  BY <1>4, Inductive, PTL DEF Spec, NeverBack

-----------------------------------------------------------------------------
(* Towards rest.  ComesToRest needs fairness and stays with TLC; what it     *)
(* rests on is that the lamp's own steps can never go on for ever.           *)

\* The writes that calls of light_start_transition, an interrupted one included,
\* have still to make, and the interrupts of TIMER1 until a transition is over.
ToWrite(a) == IF a = 0 THEN 0 ELSE LastWrite + 1 - a
WritesLeft == ToWrite(at) + ToWrite(held.at)
PeriodsLeft ==
  IF transitioning = 0 THEN 0 ELSE 1 + (IF elapsed < transtime THEN transtime - elapsed ELSE 0)

CloserToRest ==
  \/ WritesLeft' < WritesLeft
  \/ WritesLeft' = WritesLeft /\ PeriodsLeft' < PeriodsLeft

LEMMA Counted ==
  ASSUME IInv
  PROVE  /\ WritesLeft \in Nat /\ PeriodsLeft \in Nat
         /\ WritesLeft = 0 /\ PeriodsLeft = 0 <=> at = 0 /\ transitioning = 0
<1>1. /\ at \in 0 .. LastWrite /\ held.at \in 0 .. LastWrite /\ (at = 0 => held.at = 0)
      /\ elapsed \in Nat /\ transtime \in Nat /\ transitioning \in 0 .. 1
  BY FadeAssumption DEF IInv, TypeOK, Times, Calls
<1> QED  BY <1>1 DEF WritesLeft, ToWrite, PeriodsLeft, LastWrite

LEMMA WriteIsCloser ==
  ASSUME IInv, light_start_transition
  PROVE  CloserToRest
<1>1. at \in 0 .. LastWrite /\ held.at \in 0 .. LastWrite
  BY DEF IInv, TypeOK
<1>2. CASE CopyStart \/ TakeBranch \/ SetTarget \/ SetTime \/ ClearElapsed
  <2>1. at \in 1 .. LastWrite - 1 /\ at' = at + 1 /\ held' = held
    BY <1>2 DEF CopyStart, TakeBranch, SetTarget, SetTime, ClearElapsed, Copying, Branching,
                Aiming, LastWrite
  <2> QED  BY <1>1, <2>1 DEF CloserToRest, WritesLeft, ToWrite, LastWrite
<1>3. CASE Begin
  <2>1. at = LastWrite /\ at' = held.at /\ held'.at = 0
    BY <1>3 DEF Begin, None
  <2> QED  BY <1>1, <2>1 DEF CloserToRest, WritesLeft, ToWrite, LastWrite
<1> QED  BY <1>2, <1>3 DEF light_start_transition

LEMMA TimerIsCloser ==
  ASSUME IInv, app_light_timer_cb
  PROVE  CloserToRest
<1> elapsed \in Nat /\ transtime \in Nat
  BY FadeAssumption DEF IInv, TypeOK, Times
<1> UNCHANGED <<at, held>>
  BY DEF app_light_timer_cb, Move, Finish, callVars
<1>1. WritesLeft' = WritesLeft
  BY DEF WritesLeft, ToWrite
<1>2. CASE Move
  BY <1>1, <1>2 DEF Move, CloserToRest, PeriodsLeft
<1>3. CASE Finish
  BY <1>1, <1>3 DEF Finish, CloserToRest, PeriodsLeft
<1> QED  BY <1>2, <1>3 DEF app_light_timer_cb

\* Whatever call a transition or a blink has interrupted, the writes and the
\* interrupts of the lamp itself only ever bring it closer to rest: new work
\* comes from setters, blinks and starts alone, and nothing is left just when
\* no call runs and no transition is on.
THEOREM OwnStepsBringRest ==
  Spec => /\ [](/\ WritesLeft \in Nat /\ PeriodsLeft \in Nat
                /\ WritesLeft = 0 /\ PeriodsLeft = 0 <=> at = 0 /\ transitioning = 0)
          /\ [][light_start_transition \/ app_light_timer_cb => CloserToRest]_vars
<1>1. IInv => /\ WritesLeft \in Nat /\ PeriodsLeft \in Nat
              /\ WritesLeft = 0 /\ PeriodsLeft = 0 <=> at = 0 /\ transitioning = 0
  BY Counted
<1>2. IInv /\ [Next]_vars =>
        [light_start_transition \/ app_light_timer_cb => CloserToRest]_vars
  BY WriteIsCloser, TimerIsCloser
<1> QED  BY <1>1, <1>2, Inductive, PTL DEF Spec
=============================================================================
