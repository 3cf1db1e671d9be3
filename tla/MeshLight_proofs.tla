-------------------------- MODULE MeshLight_proofs --------------------------
(***************************************************************************)
(* Proofs about MeshLight.  The inductive invariant has a part for what    *)
(* the models of the mesh keep and one for the lamp; a request acts on the *)
(* first through Light_Status_Set_Target or Light_Status_Save only.        *)
(***************************************************************************)
EXTENDS MeshLight, TLAPS

\* A status from which "On" lights, and which a start takes for RGB mode.
Good(s) == s \in Status /\ s.last >= 1 /\ s.mode = "RGB"

\* A start from d returns to the lightness v and the temperature t, clipped.
Returns(d, v, t) ==
  /\ Light_Status_Default_Init(d, 0).target = Constrain(v, d.min, d.max)
  /\ Light_Status_Default_Init(d, 0).temp = Constrain(t, d.tmin, d.tmax)

\* Without a pending save the flash is up to date; what is promised, a start from the
\* copy for the flash returns to.
Copies ==
  /\ pending \in 0 .. 1 /\ wish \in 0 .. WORD - 1 /\ asked \in 0 .. MaxAsked
  /\ pending = 0 => stored = db
  /\ wish # 0 => Returns(db, wish, status.temp)

Memory == Good(status) /\ Good(db) /\ Good(stored) /\ Copies

LampOk(l) == l \in Settings /\ (l.mode = "CW" => l.temperature \in TEMP_MIN .. TEMP_MAX)

IInv == Memory /\ LampOk(light)

-----------------------------------------------------------------------------
(* The operators                                                           *)

LEMMA ConstrainInRange ==
  ASSUME NEW v \in Nat, NEW lo \in Nat, NEW hi \in Nat, lo <= hi
  PROVE  Constrain(v, lo, hi) \in lo .. hi
  BY DEF Constrain

LEMMA StatusFields ==
  ASSUME NEW s \in Status
  PROVE  /\ s.onpowerup \in {"OFF", "DEFAULT", "RESTORE"} /\ s.mode \in {"RGB", "CW"}
         /\ s.def \in 0 .. WORD - 1 /\ s.target \in 0 .. WORD - 1 /\ s.last \in 0 .. WORD - 1
         /\ s.min \in 1 .. WORD - 1 /\ s.max \in 1 .. WORD - 1 /\ s.min <= s.max
         /\ s.tdef \in 0 .. LIMIT_MAX /\ s.temp \in {0} \cup TEMP_MIN .. TEMP_MAX
         /\ s.tmin \in TEMP_MIN .. TEMP_MAX /\ s.tmax \in TEMP_MIN .. TEMP_MAX
         /\ s.tmin <= s.tmax
  BY DEF Status

\* Each change of a field that keeps a status legal.
LEMMA LightEdit ==
  ASSUME NEW s \in Status, NEW v \in 0 .. WORD - 1
  PROVE  /\ [s EXCEPT !.target = v] \in Status /\ [s EXCEPT !.last = v] \in Status
         /\ [s EXCEPT !.def = v] \in Status
<1>1. [s EXCEPT !.target = v] \in Status
  BY DEF Status
<1>2. [s EXCEPT !.last = v] \in Status
  BY DEF Status
<1>3. [s EXCEPT !.def = v] \in Status
  BY DEF Status
<1> QED
  BY <1>1, <1>2, <1>3

LEMMA TempEdit ==
  ASSUME NEW s \in Status, NEW t \in {0} \cup TEMP_MIN .. TEMP_MAX
  PROVE  [s EXCEPT !.temp = t] \in Status
  BY DEF Status

LEMMA DefaultTempEdit ==
  ASSUME NEW s \in Status, NEW t \in 0 .. LIMIT_MAX
  PROVE  [s EXCEPT !.tdef = t] \in Status
  BY DEF Status

LEMMA RangeEdit ==
  ASSUME NEW s \in Status, NEW lo \in 1 .. WORD - 1, NEW hi \in 1 .. WORD - 1, lo <= hi
  PROVE  [s EXCEPT !.min = lo, !.max = hi] \in Status
  BY DEF Status

LEMMA TempRangeEdit ==
  ASSUME NEW s \in Status, NEW lo \in TEMP_MIN .. TEMP_MAX, NEW hi \in TEMP_MIN .. TEMP_MAX,
         lo <= hi
  PROVE  [s EXCEPT !.tmin = lo, !.tmax = hi] \in Status
  BY DEF Status

\* Off stays off, and light stays in the range.
LEMMA ClipInRange ==
  ASSUME NEW s \in Status, NEW v \in 0 .. WORD - 1
  PROVE  /\ Clip(s, v) \in 0 .. WORD - 1
         /\ v = 0 => Clip(s, v) = 0
         /\ v > 0 => Clip(s, v) \in s.min .. s.max /\ Clip(s, v) = Constrain(v, s.min, s.max)
<1>1. /\ WORD \in Nat /\ s.min \in 1 .. WORD - 1 /\ s.max \in 1 .. WORD - 1 /\ s.min <= s.max
  BY StatusFields, LevelAssumption
<1>a. v \in Nat /\ s.min \in Nat /\ s.max \in Nat /\ s.min <= s.max
  BY <1>1
<1>2. Constrain(v, s.min, s.max) \in s.min .. s.max
  BY <1>a, ConstrainInRange
<1> QED
  BY <1>1, <1>2 DEF Clip

LEMMA TempInRange ==
  ASSUME NEW s \in Status, NEW t \in Nat
  PROVE  Constrain(t, s.tmin, s.tmax) \in TEMP_MIN .. TEMP_MAX
<1>1. /\ s.tmin \in TEMP_MIN .. TEMP_MAX /\ s.tmax \in TEMP_MIN .. TEMP_MAX /\ s.tmin <= s.tmax
  BY StatusFields
<1>a. s.tmin \in Nat /\ s.tmax \in Nat /\ s.tmin <= s.tmax
  BY <1>1, TempAssumption
<1>2. Constrain(t, s.tmin, s.tmax) \in s.tmin .. s.tmax
  BY <1>a, ConstrainInRange
<1> QED
  BY <1>1, <1>2, TempAssumption

-----------------------------------------------------------------------------
(* Starts                                                                  *)

LEMMA ClippedGood ==
  ASSUME NEW d, Good(d)
  PROVE  /\ Good(Clipped(d))
         /\ \A f \in {"onpowerup", "min", "max", "tmin", "tmax"} : Clipped(d)[f] = d[f]
         /\ Clipped(d).target = Clip(d, d.target) /\ Clipped(d).last \in d.min .. d.max
         /\ Clipped(d).def = Clip(d, d.def)
         /\ Clipped(d).temp = Constrain(d.temp, d.tmin, d.tmax)
<1> DEFINE a == Clip(d, d.last)  b == Clip(d, d.def)  c == Clip(d, d.target)
           e == Constrain(d.tdef, d.tmin, d.tmax)  f == Constrain(d.temp, d.tmin, d.tmax)
<1>1. d \in Status /\ d.last >= 1 /\ d.mode = "RGB"
  BY DEF Good
<1>2. /\ d.last \in 0 .. WORD - 1 /\ d.def \in 0 .. WORD - 1 /\ d.target \in 0 .. WORD - 1
      /\ d.min \in 1 .. WORD - 1 /\ d.max \in 1 .. WORD - 1 /\ d.tdef \in Nat /\ d.temp \in Nat
  BY <1>1, StatusFields, LevelAssumption, TempAssumption, StatusAssumption
<1>3. a \in d.min .. d.max /\ a \in 1 .. WORD - 1 /\ a \in 0 .. WORD - 1
  BY <1>1, <1>2, ClipInRange, LevelAssumption
<1>4. b \in 0 .. WORD - 1 /\ c \in 0 .. WORD - 1
  BY <1>1, <1>2, ClipInRange
<1>5. e \in TEMP_MIN .. TEMP_MAX /\ f \in TEMP_MIN .. TEMP_MAX
  BY <1>1, <1>2, TempInRange
<1>6. e \in 0 .. LIMIT_MAX
  BY <1>5, TempAssumption, StatusAssumption
<1>7. Clipped(d) = [[[[[d EXCEPT !.last = a] EXCEPT !.def = b] EXCEPT !.target = c]
                     EXCEPT !.tdef = e] EXCEPT !.temp = f]
  BY DEF Clipped
<1> HIDE DEF a, b, c, e, f
<1>8. Clipped(d) \in Status
  <2>1. [d EXCEPT !.last = a] \in Status
    BY <1>1, <1>3, LightEdit
  <2>2. [[d EXCEPT !.last = a] EXCEPT !.def = b] \in Status
    BY <1>4, <2>1, LightEdit
  <2>3. [[[d EXCEPT !.last = a] EXCEPT !.def = b] EXCEPT !.target = c] \in Status
    BY <1>4, <2>2, LightEdit
  <2>4. [[[[d EXCEPT !.last = a] EXCEPT !.def = b] EXCEPT !.target = c]
           EXCEPT !.tdef = e] \in Status
    BY <1>6, <2>3, DefaultTempEdit
  <2> QED
    BY <1>5, <1>7, <2>4, TempEdit
<1>9. /\ Clipped(d).last = a /\ Clipped(d).def = b /\ Clipped(d).target = c
      /\ Clipped(d).temp = f /\ Clipped(d).mode = d.mode
      /\ \A g \in {"onpowerup", "min", "max", "tmin", "tmax"} : Clipped(d)[g] = d[g]
  BY <1>1, <1>7 DEF Status
<1> QED
  BY <1>1, <1>2, <1>3, <1>8, <1>9, LevelAssumption DEF Good, a, b, c, f

\* A start keeps "On" lit and the values legal; unless off, it is lit and in its range,
\* and restores the lightness and the temperature of the record.
LEMMA StartGood ==
  ASSUME NEW d, NEW off, Good(d)
  PROVE  LET s == Light_Status_Default_Init(d, off)
         IN /\ Good(s) /\ s.onpowerup = d.onpowerup /\ s.min = d.min /\ s.max = d.max
            /\ off # 1 /\ d.onpowerup # "OFF" => s.target \in d.min .. d.max
            /\ d.onpowerup = "RESTORE" => s.temp = Constrain(d.temp, d.tmin, d.tmax)
            /\ off # 1 /\ d.onpowerup = "RESTORE" /\ d.target # 0
                 => s.target = Constrain(d.target, d.min, d.max)
<1> DEFINE s == Clipped(d)
           t == IF off = 1 THEN 0 ELSE Current(s)
           l == IF s.onpowerup = "RESTORE" THEN Current(s) ELSE s.last
           e == IF s.onpowerup = "RESTORE" THEN s.temp ELSE 0
           r == Light_Status_Default_Init(d, off)
<1>1. d \in Status /\ s \in Status /\ s.last \in d.min .. d.max /\ s.mode = "RGB"
  BY ClippedGood DEF Good
<1>2. /\ s.onpowerup = d.onpowerup /\ s.min = d.min /\ s.max = d.max
      /\ s.target = Clip(d, d.target) /\ s.def = Clip(d, d.def)
      /\ s.temp = Constrain(d.temp, d.tmin, d.tmax)
  BY ClippedGood
<1>3. /\ WORD \in Nat /\ d.min \in 1 .. WORD - 1 /\ d.max \in 1 .. WORD - 1 /\ d.min <= d.max
      /\ d.target \in 0 .. WORD - 1 /\ d.def \in 0 .. WORD - 1
      /\ d.onpowerup \in {"OFF", "DEFAULT", "RESTORE"}
      /\ s.temp \in {0} \cup TEMP_MIN .. TEMP_MAX
  BY <1>1, StatusFields, LevelAssumption
<1>4. /\ d.target = 0 => s.target = 0
      /\ d.target > 0 => s.target \in d.min .. d.max
                         /\ s.target = Constrain(d.target, d.min, d.max)
      /\ d.def = 0 => s.def = 0
      /\ d.def > 0 => s.def \in d.min .. d.max
  BY <1>1, <1>2, <1>3, ClipInRange
<1>5. /\ d.onpowerup = "OFF" => Current(s) = 0
      /\ d.onpowerup = "DEFAULT" => Current(s) = IF s.def = 0 THEN s.last ELSE s.def
      /\ d.onpowerup = "RESTORE" => Current(s) = IF s.target = 0 THEN s.min ELSE s.target
  BY <1>2 DEF Current
<1> HIDE DEF s
<1>6. /\ d.onpowerup # "OFF" => Current(s) \in d.min .. d.max
      /\ d.onpowerup = "RESTORE" /\ d.target # 0
           => Current(s) = Constrain(d.target, d.min, d.max)
      /\ Current(s) \in 0 .. WORD - 1
  <2>1. CASE d.onpowerup = "OFF"
    BY <1>3, <1>5, <2>1
  <2>2. CASE d.onpowerup = "DEFAULT"
    BY <1>1, <1>3, <1>4, <1>5, <2>2
  <2>3. CASE d.onpowerup = "RESTORE"
    BY <1>2, <1>3, <1>4, <1>5, <2>3
  <2> QED
    BY <1>3, <2>1, <2>2, <2>3
<1>7. l \in 1 .. WORD - 1 /\ l \in 0 .. WORD - 1 /\ t \in 0 .. WORD - 1 /\ e \in {0} \cup TEMP_MIN .. TEMP_MAX
  BY <1>1, <1>2, <1>3, <1>6
<1>8. r = [[[s EXCEPT !.target = t] EXCEPT !.last = l] EXCEPT !.temp = e]
  BY DEF Light_Status_Default_Init, s
<1> HIDE DEF t, l, e, r
<1>9. r \in Status
  <2>1. [s EXCEPT !.target = t] \in Status
    BY <1>1, <1>7, LightEdit
  <2>2. [[s EXCEPT !.target = t] EXCEPT !.last = l] \in Status
    BY <1>7, <2>1, LightEdit
  <2> QED
    BY <1>7, <1>8, <2>2, TempEdit
<1>10. /\ r.target = t /\ r.last = l /\ r.temp = e /\ r.mode = "RGB"
       /\ r.onpowerup = d.onpowerup /\ r.min = d.min /\ r.max = d.max
  BY <1>1, <1>2, <1>8 DEF Status
<1>11. Good(r)
  BY <1>3, <1>7, <1>9, <1>10 DEF Good
<1>12. off # 1 => t = Current(s)
  BY DEF t
<1>13. d.onpowerup = "RESTORE" => e = Constrain(d.temp, d.tmin, d.tmax)
  BY <1>2 DEF e
<1> QED
  BY <1>6, <1>10, <1>11, <1>12, <1>13 DEF r

-----------------------------------------------------------------------------
(* What the actions do to the memory                                       *)

LEMMA ConstrainTwice ==
  ASSUME NEW v \in Nat, NEW lo \in Nat, NEW hi \in Nat, lo <= hi
  PROVE  /\ Constrain(Constrain(v, lo, hi), lo, hi) = Constrain(v, lo, hi)
         /\ v \in lo .. hi => Constrain(v, lo, hi) = v
  BY DEF Constrain

\* What a start returns to, the next one does.
LEMMA StartReturns ==
  ASSUME NEW d, Good(d), d.onpowerup = "RESTORE"
  PROVE  LET s == Light_Status_Default_Init(d, 0) IN Returns(d, s.target, s.temp)
<1> DEFINE s == Light_Status_Default_Init(d, 0)
<1>1. s.target \in d.min .. d.max /\ s.temp = Constrain(d.temp, d.tmin, d.tmax)
  BY StartGood
<1>2. /\ d.min \in 1 .. WORD - 1 /\ d.max \in 1 .. WORD - 1 /\ d.min <= d.max
      /\ d.temp \in {0} \cup TEMP_MIN .. TEMP_MAX
      /\ d.tmin \in TEMP_MIN .. TEMP_MAX /\ d.tmax \in TEMP_MIN .. TEMP_MAX /\ d.tmin <= d.tmax
  BY StatusFields DEF Good
<1> HIDE DEF s
<1>3. /\ d.min \in Nat /\ d.max \in Nat /\ s.target \in Nat
      /\ d.temp \in Nat /\ d.tmin \in Nat /\ d.tmax \in Nat
  BY <1>1, <1>2, LevelAssumption, TempAssumption
<1>4. Constrain(s.target, d.min, d.max) = s.target
  BY <1>1, <1>2, <1>3, ConstrainTwice
<1>5. Constrain(s.temp, d.tmin, d.tmax) = s.temp
  BY <1>1, <1>2, <1>3, ConstrainTwice
<1> QED
  BY <1>4, <1>5 DEF Returns, s

LEMMA StartMemory ==
  ASSUME IInv, NEW d, NEW off, Good(d), Start(d, off)
  PROVE  Memory' /\ LampOk(light')
<1> DEFINE s == Light_Status_Default_Init(d, off)
<1>1. /\ db' = d /\ stored' = d /\ pending' = 0 /\ status' = s /\ asked' = asked
      /\ wish' = IF s.onpowerup = "RESTORE" THEN s.target ELSE 0
      /\ \E c \in Colours : light' = APP_Light_Init(s, c)
  BY DEF Start
<1>2. Good(s) /\ s.onpowerup = d.onpowerup
  BY StartGood
<1>3. s \in Status /\ s.mode = "RGB"
  BY <1>2 DEF Good
<1>4. s.target \in 0 .. WORD - 1 /\ asked \in 0 .. MaxAsked
  BY <1>3, StatusFields DEF IInv, Memory, Copies
<1>5. wish' # 0 => Returns(db', wish', status'.temp)
  <2> SUFFICES ASSUME wish' # 0
               PROVE  Returns(d, s.target, s.temp)
    BY <1>1
  <2>1. s.onpowerup = "RESTORE" /\ s.target # 0
    BY <1>1
  <2>2. off # 1
    BY <2>1 DEF Light_Status_Default_Init, Clipped
  <2>3. s = Light_Status_Default_Init(d, 0)
    BY <2>2 DEF Light_Status_Default_Init
  <2> QED
    BY <1>2, <2>1, <2>3, StartReturns
<1> HIDE DEF s
<1>6. LampOk(light')
  <2>1. PICK c \in Colours : light' = APP_Light_Init(s, c)
    BY <1>1
  <2>2. c \in 0 .. LEVEL_MAX /\ s.target % BYTE \in 0 .. BYTE - 1
    BY <1>4, LevelAssumption, RequestAssumption
  <2> QED
    BY <1>3, <2>1, <2>2 DEF APP_Light_Init, LampOk, Settings
<1>7. wish' \in 0 .. WORD - 1
  BY <1>1, <1>4, LevelAssumption
<1> QED
  BY <1>1, <1>2, <1>4, <1>5, <1>6, <1>7 DEF Memory, Copies

LEMMA SaveMemory ==
  ASSUME IInv, NEW s, Good(s), asked' \in 0 .. MaxAsked, status' = s, stored' = stored,
         Light_Status_Save(s)
  PROVE  Memory'
<1>1. /\ s \in Status /\ s.mode = "RGB" /\ db.mode = "RGB" /\ Good(stored)
  BY DEF Good, IInv, Memory
<1>2. db' = s
  BY <1>1 DEF Light_Status_Save, Status
<1>3. /\ pending' = 1
      /\ wish' = IF s.onpowerup = "RESTORE" THEN s.target ELSE 0
  BY DEF Light_Status_Save
<1>4. s.target \in 0 .. WORD - 1
  BY <1>1, StatusFields
<1>5. wish' # 0 => Returns(s, wish', s.temp)
  BY <1>3, StartGood DEF Returns
<1>6. wish' \in 0 .. WORD - 1
  BY <1>3, <1>4, LevelAssumption
<1> QED
  BY <1>1, <1>2, <1>3, <1>5, <1>6 DEF Memory, Copies

\* A status whose "On" lights stays so when the target is kept as the last lightness.
LEMMA SetMemory ==
  ASSUME IInv, NEW s, Good(s), Light_Status_Set_Target(s)
  PROVE  Memory'
<1>1. /\ s \in Status /\ s.last >= 1 /\ s.mode = "RGB"
      /\ s.target \in 0 .. WORD - 1
  BY StatusFields DEF Good
<1>2. /\ status' = Kept(s) /\ stored' = stored /\ asked' \in 0 .. MaxAsked
  BY RequestAssumption DEF Light_Status_Set_Target, Request, IInv, Memory, Copies
<1>3. Good(Kept(s))
  <2>1. CASE s.onpowerup = "RESTORE" /\ s.target >= 1
    <3>1. Kept(s) = [s EXCEPT !.last = s.target]
      BY <2>1 DEF Kept
    <3>2. Kept(s) \in Status
      BY <1>1, <3>1, LightEdit
    <3>3. Kept(s).last = s.target /\ Kept(s).mode = "RGB"
      BY <1>1, <3>1 DEF Status
    <3> QED
      BY <2>1, <3>2, <3>3 DEF Good
  <2>2. CASE ~(s.onpowerup = "RESTORE" /\ s.target >= 1)
    BY <2>2 DEF Kept
  <2> QED
    BY <2>1, <2>2
<1>4. CASE s.onpowerup = "RESTORE" /\ s.target >= 1
  <2>1. Light_Status_Save(Kept(s))
    BY <1>4 DEF Light_Status_Set_Target
  <2> QED
    BY <1>2, <1>3, <2>1, SaveMemory
<1>5. CASE ~(s.onpowerup = "RESTORE" /\ s.target >= 1)
  <2>1. db' = db /\ pending' = pending /\ wish' = 0
    BY <1>5 DEF Light_Status_Set_Target
  <2> QED
    BY <1>2, <1>3, <2>1, LevelAssumption, StatusAssumption DEF IInv, Memory, Copies
<1> QED
  BY <1>4, <1>5

LEMMA SetAndSaveInv ==
  ASSUME IInv, NEW s, Good(s), SetAndSave(s)
  PROVE  IInv'
<1>1. /\ status' = s /\ stored' = stored /\ light' = light /\ Light_Status_Save(s)
      /\ asked' \in 0 .. MaxAsked
  BY RequestAssumption DEF SetAndSave, Request, IInv, Memory, Copies
<1> QED
  BY <1>1, SaveMemory DEF IInv

-----------------------------------------------------------------------------
(* The lamp and its requests                                               *)

LEMMA LevelLamp ==
  ASSUME NEW l, LampOk(l), NEW v \in Nat
  PROVE  LampOk(APP_Light_SetLevel(l, v))
<1>1. v % BYTE \in 0 .. BYTE - 1 /\ 0 \in 0 .. BYTE - 1
  BY LevelAssumption
<1> QED
  BY <1>1 DEF APP_Light_SetLevel, LampOk, Settings

LEMMA OnOffLamp ==
  ASSUME NEW l, LampOk(l), NEW v \in {"ON", "OFF"}
  PROVE  LampOk(APP_Light_SetOnOff(l, v))
  BY DEF APP_Light_SetOnOff, LampOk, Settings

LEMMA TemperatureLamp ==
  ASSUME NEW l, LampOk(l), NEW t \in Nat
  PROVE  LampOk(APP_Light_SetTemperature(l, t))
<1> DEFINE u == Constrain(t, TEMP_MIN, TEMP_MAX)
<1>1. u \in TEMP_MIN .. TEMP_MAX /\ u \in Nat
  BY TempAssumption, ConstrainInRange
<1>2. APP_Light_SetTemperature(l, t) = [l EXCEPT !.mode = "CW", !.temperature = u]
  BY DEF APP_Light_SetTemperature
<1> HIDE DEF u
<1> QED
  BY <1>1, <1>2 DEF LampOk, Settings

LEMMA ColourLamp ==
  ASSUME NEW l, LampOk(l), NEW c \in Colours
  PROVE  LampOk(APP_Light_SetColour(l, c))
  BY RequestAssumption DEF APP_Light_SetColour, LampOk, Settings

LEMMA LevelNat ==
  ASSUME NEW v \in Nat
  PROVE  ToLevel(v) \in Nat
  BY StatusAssumption DEF ToLevel

\* The changes of a status that requests make keep it good.
LEMMA TargetGood ==
  ASSUME NEW s, Good(s), NEW v \in 0 .. WORD - 1
  PROVE  /\ Good([s EXCEPT !.target = v]) /\ [s EXCEPT !.target = v].target = v
         /\ Good([s EXCEPT !.def = v])
  BY LightEdit DEF Good, Status

LEMMA TempGood ==
  ASSUME NEW s, Good(s), NEW t \in TEMP_MIN .. TEMP_MAX
  PROVE  /\ Good([s EXCEPT !.temp = t]) /\ [s EXCEPT !.temp = t].temp = t
         /\ [s EXCEPT !.temp = t].target = s.target
  BY TempEdit DEF Good, Status

LEMMA ChangeInv ==
  ASSUME IInv, Change
  PROVE  IInv'
<1>1. /\ Good(status) /\ status \in Status /\ LampOk(light)
      /\ status.target \in 0 .. WORD - 1 /\ status.last \in 0 .. WORD - 1
      /\ status.temp \in Nat /\ WORD \in Nat /\ 0 \in 0 .. WORD - 1
  BY StatusFields, LevelAssumption, TempAssumption, StatusAssumption DEF IInv, Memory, Good
<1>2. \A v \in 0 .. WORD - 1 : Clip(status, v) \in 0 .. WORD - 1 /\ Clip(status, v) \in Nat
  BY <1>1, ClipInRange
<1>3. \A t \in Nat : Constrain(t, status.tmin, status.tmax) \in TEMP_MIN .. TEMP_MAX
  BY <1>1, TempInRange
<1>4. CASE OnOff
  <2>1. PICK v \in {"ON", "OFF"} :
          /\ Request /\ light' = APP_Light_SetOnOff(light, v)
          /\ status' = [status EXCEPT !.target = IF v = "ON" THEN status.last ELSE 0]
          /\ wish' = 0 /\ db' = db /\ pending' = pending
    BY <1>4 DEF OnOff
  <2>2. Good(status')
    BY <1>1, <2>1, TargetGood
  <2>3. stored' = stored /\ asked' \in 0 .. MaxAsked
    BY <2>1, RequestAssumption DEF Request, IInv, Memory, Copies
  <2> QED
    BY <1>1, <2>1, <2>2, <2>3, OnOffLamp DEF IInv, Memory, Copies
<1>5. ASSUME NEW v \in Requests, SetLightness(v) PROVE IInv'
  <2> DEFINE s == [status EXCEPT !.target = Clip(status, v)]
  <2>1. Light_Status_Set_Target(s) /\ light' = APP_Light_SetLevel(light, ToLevel(s.target))
    BY <1>5 DEF SetLightness
  <2>2. Clip(status, v) \in 0 .. WORD - 1 /\ Clip(status, v) \in Nat
    BY <1>2, RequestAssumption
  <2>3. Memory'
    BY <1>1, <2>1, <2>2, TargetGood, SetMemory
  <2>4. LampOk(light')
    BY <1>1, <2>1, <2>2, TargetGood, LevelNat, LevelLamp
  <2> QED
    BY <2>3, <2>4 DEF IInv
<1>a. ASSUME NEW c \in Colours, SetColour(c) PROVE IInv'
  BY <1>1, <1>a, SetMemory, ColourLamp DEF SetColour, IInv
<1>6. CASE LevelDelta
  <2>1. PICK d \in Deltas :
          LET sum == ((status.target + HALF) % WORD) + d
              level == IF sum < 0 THEN -ToLevel(-sum) ELSE ToLevel(sum)
          IN /\ Light_Status_Set_Target(
                  [status EXCEPT !.target = Clip(status, (status.target + d) % WORD)])
             /\ light' = APP_Light_SetLevel(light, level % WORD)
    BY <1>6 DEF LevelDelta
  <2> DEFINE sum == ((status.target + HALF) % WORD) + d
             level == IF sum < 0 THEN -ToLevel(-sum) ELSE ToLevel(sum)
  <2>2. d \in Int /\ HALF \in Int /\ WORD > 0
    BY <1>1, RequestAssumption, StatusAssumption DEF HALF
  <2>3. (status.target + d) % WORD \in 0 .. WORD - 1
    BY <1>1, <2>2
  <2>4. sum \in Int
    BY <1>1, <2>2
  <2> HIDE DEF sum
  <2>5. level \in Int
    BY <2>4, LevelNat
  <2> HIDE DEF level
  <2>6. level % WORD \in Nat
    BY <1>1, <2>2, <2>5
  <2>7. Memory'
    BY <1>1, <1>2, <2>1, <2>3, TargetGood, SetMemory
  <2>8. light' = APP_Light_SetLevel(light, level % WORD)
    BY <2>1 DEF level, sum
  <2> QED
    BY <1>1, <2>6, <2>7, <2>8, LevelLamp DEF IInv
<1>7. CASE Light_Status_Set_Target(status) /\ light' = APP_Light_SetTemperature(light, status.temp)
  BY <1>1, <1>7, SetMemory, TemperatureLamp DEF IInv
<1>8. CASE LevelSet
  BY <1>5, <1>7, <1>8, <1>a DEF LevelSet
<1>9. CASE HslSet
  <2>1. PICK v \in Requests, c \in Colours :
          LET s == [status EXCEPT !.target = Clip(status, v)]
          IN /\ Light_Status_Set_Target(s)
             /\ light' = APP_Light_SetColour(APP_Light_SetLevel(light, ToLevel(s.target)), c)
    BY <1>9 DEF HslSet
  <2>2. Clip(status, v) \in 0 .. WORD - 1 /\ Clip(status, v) \in Nat
    BY <1>2, RequestAssumption
  <2>3. Memory'
    BY <1>1, <2>1, <2>2, TargetGood, SetMemory
  <2>4. LampOk(light')
    BY <1>1, <2>1, <2>2, TargetGood, LevelNat, LevelLamp, ColourLamp
  <2> QED
    BY <2>3, <2>4 DEF IInv
<1>10. CASE CtlSet
  <2>1. PICK v \in Requests, t \in Temps :
          LET s == [status EXCEPT !.target = Clip(status, v),
                                  !.temp = Constrain(t, status.tmin, status.tmax)]
          IN /\ Light_Status_Set_Target(s)
             /\ light' = APP_Light_SetTemperature(APP_Light_SetLevel(light, s.target), s.temp)
    BY <1>10 DEF CtlSet
  <2> DEFINE a == Clip(status, v)  b == Constrain(t, status.tmin, status.tmax)
             s == [[status EXCEPT !.target = a] EXCEPT !.temp = b]
  <2>2. a \in 0 .. WORD - 1 /\ a \in Nat
    BY <1>2, RequestAssumption
  <2>3. b \in TEMP_MIN .. TEMP_MAX
    BY <1>3, RequestAssumption
  <2>4. /\ Light_Status_Set_Target(s)
        /\ light' = APP_Light_SetTemperature(APP_Light_SetLevel(light, s.target), s.temp)
    BY <2>1
  <2>5. b \in Nat
    BY <2>3, TempAssumption
  <2> HIDE DEF a, b
  <2>6. Good(s) /\ s.target = a /\ s.temp = b
    <3>1. Good([status EXCEPT !.target = a]) /\ [status EXCEPT !.target = a].target = a
      BY <1>1, <2>2, TargetGood
    <3> QED
      BY <2>3, <3>1, TempGood
  <2> HIDE DEF s
  <2>7. Memory'
    BY <2>4, <2>6, SetMemory
  <2>8. LampOk(light')
    BY <1>1, <2>2, <2>4, <2>5, <2>6, LevelLamp, TemperatureLamp
  <2> QED
    BY <2>7, <2>8 DEF IInv
<1>11. CASE CtlTemperatureSet
  <2>1. PICK t \in Temps :
          LET s == [status EXCEPT !.temp = Constrain(t, status.tmin, status.tmax)]
          IN Light_Status_Set_Target(s) /\ light' = APP_Light_SetTemperature(light, s.temp)
    BY <1>11 DEF CtlTemperatureSet
  <2> DEFINE b == Constrain(t, status.tmin, status.tmax)
  <2>2. b \in TEMP_MIN .. TEMP_MAX
    BY <1>3, RequestAssumption
  <2>3. b \in Nat
    BY <2>2, TempAssumption
  <2>4. Good([status EXCEPT !.temp = b]) /\ [status EXCEPT !.temp = b].temp = b
    BY <1>1, <2>2, TempGood
  <2>5. Memory'
    BY <2>1, <2>4, SetMemory
  <2> QED
    BY <1>1, <2>1, <2>3, <2>4, <2>5, TemperatureLamp DEF IInv
<1> QED
  BY <1>4, <1>5, <1>6, <1>8, <1>9, <1>10, <1>11, <1>a
  DEF Change, LightnessSet, HueSet, SaturationSet

LEMMA SetupInv ==
  ASSUME IInv, Setup
  PROVE  IInv'
<1>1. /\ Good(status) /\ status \in Status /\ status.last >= 1 /\ status.mode = "RGB"
      /\ WORD \in Nat
  BY LevelAssumption DEF IInv, Memory, Good
<1>2. CASE LightnessDefaultSet
  <2>1. PICK v \in Requests : SetAndSave([status EXCEPT !.def = Clip(status, v)])
    BY <1>2 DEF LightnessDefaultSet
  <2>2. Clip(status, v) \in 0 .. WORD - 1
    BY <1>1, ClipInRange, RequestAssumption
  <2> QED
    BY <1>1, <2>1, <2>2, TargetGood, SetAndSaveInv
<1>3. CASE LightnessRangeSet
  <2>1. PICK r \in Ranges :
          r[1] >= 1 /\ r[1] <= r[2] /\ SetAndSave([status EXCEPT !.min = r[1], !.max = r[2]])
    BY <1>3 DEF LightnessRangeSet
  <2>2. r[1] \in 1 .. WORD - 1 /\ r[2] \in 1 .. WORD - 1
    BY <1>1, <2>1, RequestAssumption
  <2>3. Good([status EXCEPT !.min = r[1], !.max = r[2]])
    BY <1>1, <2>1, <2>2, RangeEdit DEF Good, Status
  <2> QED
    BY <2>1, <2>3, SetAndSaveInv
<1>4. CASE CtlDefaultSet
  <2>1. PICK v \in Requests, t \in Temps \cap LIMIT_MIN .. LIMIT_MAX :
          SetAndSave([status EXCEPT !.def = v, !.tdef = t])
    BY <1>4 DEF CtlDefaultSet
  <2>2. v \in 0 .. WORD - 1 /\ t \in 0 .. LIMIT_MAX
    BY RequestAssumption, StatusAssumption
  <2>3. [status EXCEPT !.def = v] \in Status
    BY <1>1, <2>2, LightEdit
  <2>4. [[status EXCEPT !.def = v] EXCEPT !.tdef = t] \in Status
    BY <2>2, <2>3, DefaultTempEdit
  <2>5. Good([status EXCEPT !.def = v, !.tdef = t])
    BY <1>1, <2>4 DEF Good, Status
  <2> QED
    BY <2>1, <2>5, SetAndSaveInv
<1>5. CASE CtlTemperatureRangeSet
  <2>1. PICK r \in TempRanges :
          /\ TEMP_MIN <= r[1] /\ r[1] <= r[2] /\ r[2] <= TEMP_MAX
          /\ SetAndSave([status EXCEPT !.tmin = r[1], !.tmax = r[2]])
    BY <1>5 DEF CtlTemperatureRangeSet
  <2>2. r[1] \in TEMP_MIN .. TEMP_MAX /\ r[2] \in TEMP_MIN .. TEMP_MAX
    BY <2>1, RequestAssumption, TempAssumption
  <2>3. Good([status EXCEPT !.tmin = r[1], !.tmax = r[2]])
    BY <1>1, <2>1, <2>2, TempRangeEdit DEF Good, Status
  <2> QED
    BY <2>1, <2>3, SetAndSaveInv
<1>6. CASE HslDefaultSet
  <2>1. PICK v \in Requests : SetAndSave([status EXCEPT !.def = v])
    BY <1>6 DEF HslDefaultSet
  <2> QED
    BY <1>1, <2>1, TargetGood, SetAndSaveInv, RequestAssumption
<1>7. CASE PonoffSet
  <2>1. PICK p \in {"OFF", "DEFAULT", "RESTORE"} : SetAndSave([status EXCEPT !.onpowerup = p])
    BY <1>7 DEF PonoffSet
  <2>2. Good([status EXCEPT !.onpowerup = p])
    BY <1>1 DEF Good, Status
  <2> QED
    BY <2>1, <2>2, SetAndSaveInv
<1>8. CASE LevelMove \/ DttSet \/ HslRangeSet
  BY <1>1, <1>8, SetAndSaveInv DEF LevelMove, DttSet, HslRangeSet
<1> QED
  BY <1>2, <1>3, <1>4, <1>5, <1>6, <1>7, <1>8 DEF Setup

-----------------------------------------------------------------------------
(* The theorems                                                            *)

LEMMA InitInv == Init => IInv
<1> SUFFICES ASSUME Init PROVE IInv
  OBVIOUS
<1>1. /\ WORD \in Nat /\ 1 \in 1 .. WORD - 1 /\ WORD - 1 \in 1 .. WORD - 1
      /\ WORD - 1 \in 0 .. WORD - 1 /\ 1 <= WORD - 1
  BY LevelAssumption, StatusAssumption
<1>2. /\ TEMP_DEFAULT \in TEMP_MIN .. TEMP_MAX /\ TEMP_MIN \in TEMP_MIN .. TEMP_MAX
      /\ TEMP_MIN <= TEMP_DEFAULT /\ TEMP_DEFAULT \in 0 .. LIMIT_MAX
  BY TempAssumption, StatusAssumption
<1>3. Good(Default) /\ Default.onpowerup = "RESTORE"
  BY <1>1, <1>2 DEF Good, Default, Status
<1> DEFINE s == Light_Status_Default_Init(Default, 0)
<1>4. Good(s) /\ Returns(Default, s.target, s.temp)
  BY <1>3, StartGood, StartReturns
<1>5. s.target \in 0 .. WORD - 1
  BY <1>4, StatusFields DEF Good
<1>6. db = Default /\ stored = Default /\ status = s /\ pending = 0 /\ wish = s.target /\ asked = 0
  BY DEF Init
<1> HIDE DEF s
<1>7. Memory
  BY <1>3, <1>4, <1>5, <1>6, RequestAssumption DEF Memory, Copies
<1>8. LampOk(light)
  BY <1>2, LevelAssumption, TempAssumption DEF Init, LampOk, Settings
<1> QED
  BY <1>7, <1>8 DEF IInv

LEMMA NextInv == IInv /\ [Next]_vars => IInv'
<1> SUFFICES ASSUME IInv, [Next]_vars PROVE IInv'
  OBVIOUS
<1>1. CASE Change
  BY <1>1, ChangeInv
<1>2. CASE Setup
  BY <1>2, SetupInv
<1>3. CASE SlowSave
  BY <1>3 DEF SlowSave, IInv, Memory, Copies
<1>4. CASE FastSave
  BY <1>4 DEF FastSave, IInv, Memory, Copies
<1>5. CASE PowerLoss
  BY <1>5, StartMemory DEF PowerLoss, IInv, Memory
<1>6. CASE ApplyReset
  BY <1>6, StartMemory DEF ApplyReset, IInv, Memory
<1>7. CASE UNCHANGED vars
  BY <1>7 DEF vars, IInv, Memory, Copies
<1> QED
  BY <1>1, <1>2, <1>3, <1>4, <1>5, <1>6, <1>7 DEF Next

\* The invariant holds throughout.
LEMMA Inductive == Spec => []IInv
  BY InitInv, NextInv, PTL DEF Spec

\* Every value keeps its width and every range its order, for any requests and limits.
THEOREM TypeCorrect == Spec => []TypeOK
<1>1. IInv => TypeOK
  BY DEF IInv, Memory, Good, Copies, LampOk, TypeOK
<1> QED
  BY <1>1, Inductive, PTL

\* "On" never returns to a lightness of zero.
THEOREM LitWhenOnHolds == Spec => []LitWhenOn
<1>1. IInv => LitWhenOn
  BY DEF IInv, Memory, Good, LitWhenOn
<1> QED
  BY <1>1, Inductive, PTL

\* A start with DEFAULT after a power loss reports On, in its range.
THEOREM DefaultReportsOnHolds == Spec => []DefaultReportsOn
<1>1. ASSUME IInv PROVE DefaultReportsOn
  <2>1. Good(stored)
    BY <1>1 DEF IInv, Memory
  <2> QED
    BY <2>1, StartGood DEF DefaultReportsOn
<1> QED
  BY <1>1, Inductive, PTL

\* What was set is restored once the delayed save is made.
THEOREM SetSurvivesHolds == Spec => []SetSurvives
<1>1. ASSUME IInv PROVE SetSurvives
  BY <1>1 DEF IInv, Memory, Copies, Returns, SetSurvives
<1> QED
  BY <1>1, Inductive, PTL

\* The lamp is never in CW mode with a temperature it cannot mix.
THEOREM MixInRangeHolds == Spec => []MixInRange
<1>1. IInv => MixInRange
  BY DEF IInv, LampOk, MixInRange
<1> QED
  BY <1>1, Inductive, PTL
=============================================================================
