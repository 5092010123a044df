--------------------------- MODULE UnitSwitchProofs ---------------------------
(***************************************************************************)
(* Lemmas about UnitSwitch: a target stays within the limits and near the  *)
(* first one however often the unit is switched, for every step and every  *)
(* range that satisfy EvenLimits, and the file keeps it.  HouseholdProofs  *)
(* draws the theorems from them.                                           *)
(***************************************************************************)
EXTENDS UnitSwitch, TLAPS

Multiple(u, step) == \E q \in Int : u = step * q

(***************************************************************************)
(* The limits are in order, as the settings check; they are whole steps,   *)
(* and a step is some eighteenths of a degree, which both units tell apart *)
(* (five units here); and rounding them to whole degrees Fahrenheit goes   *)
(* inwards.  16 degrees is 60.8 F, and 61 F is inside; 18 is 64.4 F, and   *)
(* 64 F is not: a target at such a limit does leave the range.             *)
(***************************************************************************)
Even(l) ==
  /\ l.min <= l.max
  /\ Multiple(l.step, 5)
  /\ Multiple(l.min, l.step) /\ Multiple(l.max, l.step)
  /\ ToF(l.min) <= RoundToStep(ToF(l.min), Degree)
  /\ RoundToStep(ToF(l.max), Degree) <= ToF(l.max)

EvenLimits == \A l \in LimitSets : Even(l)

----------------------------------------------------------------------------
(* Rounding.                                                                *)

\* Whole quotients, for a divisor that is not a numeral.
LEMMA DivBounds ==
  ASSUME NEW a \in Int, NEW b \in Nat \ {0}
  PROVE  /\ a \div b \in Int
         /\ b * (a \div b) <= a /\ a < b * (a \div b) + b
<1>1. b \in Int /\ b > 0
  OBVIOUS
<1> QED BY <1>1, Z3

\* Rounding gives a multiple of the step, half a step away at most.
LEMMA RoundNear ==
  ASSUME NEW u \in Int, NEW step \in Nat \ {0}
  PROVE  /\ RoundToStep(u, step) \in Int
         /\ Multiple(RoundToStep(u, step), step)
         /\ 2 * RoundToStep(u, step) - 2 * u \in -step .. step
<1> DEFINE up == (2 * u + step) \div (2 * step)
           down == (step - 2 * u) \div (2 * step)
<1>1. /\ 2 * step \in Nat \ {0} /\ step \in Int
      /\ 2 * u + step \in Int /\ step - 2 * u \in Int
  OBVIOUS
<1>2. /\ up \in Int
      /\ (2 * step) * up <= 2 * u + step
      /\ 2 * u + step < (2 * step) * up + 2 * step
  BY <1>1, DivBounds
<1>3. /\ down \in Int
      /\ (2 * step) * down <= step - 2 * u
      /\ step - 2 * u < (2 * step) * down + 2 * step
  BY <1>1, DivBounds
<1> HIDE DEF up, down
<1>4. CASE u >= 0
  <2> DEFINE r == step * up
  <2>1. RoundToStep(u, step) = r
    BY <1>4 DEF RoundToStep, up
  <2>2. r \in Int /\ (2 * step) * up = 2 * r
    BY <1>1, <1>2
  <2>3. Multiple(r, step)
    BY <1>2 DEF Multiple
  <2> HIDE DEF r
  <2> QED BY <1>1, <1>2, <2>1, <2>2, <2>3
<1>5. CASE u < 0
  <2> DEFINE r == step * down
  <2>1. RoundToStep(u, step) = -r
    BY <1>5 DEF RoundToStep, down
  <2>2. r \in Int /\ (2 * step) * down = 2 * r
    BY <1>1, <1>3
  <2>3. -r = step * (-down) /\ -down \in Int
    BY <1>1, <1>3
  <2>4. Multiple(-r, step)
    BY <2>3 DEF Multiple
  <2> HIDE DEF r
  <2> QED BY <1>1, <1>3, <2>1, <2>2, <2>4
<1> QED BY <1>4, <1>5

\* Two multiples of a step that are less than a step apart are the same.
LEMMA MultiplesApart ==
  ASSUME NEW step \in Nat \ {0}, NEW a, NEW b,
         Multiple(a, step), Multiple(b, step), a - b < step, b - a < step
  PROVE  a = b
<1>1. PICK p \in Int : a = step * p
  BY DEF Multiple
<1>2. PICK q \in Int : b = step * q
  BY DEF Multiple
<1>3. ASSUME NEW x \in Int, NEW y \in Int, x > y
      PROVE  step * x - step * y >= step
  <2>1. x - y >= 1 /\ x - y \in Int /\ step \in Int /\ step > 0
    BY <1>3
  <2>2. step * (x - y) >= step
    BY <2>1, Z3
  <2>3. step * (x - y) = step * x - step * y
    BY <2>1
  <2> QED BY <2>2, <2>3
<1>4. ~(p > q) /\ ~(q > p)
  BY <1>1, <1>2, <1>3
<1> QED BY <1>1, <1>2, <1>4

\* What is between two multiples of a step is rounded to between them.
LEMMA RoundBetween ==
  ASSUME NEW step \in Nat \ {0}, NEW u \in Int, NEW lo \in Int, NEW hi \in Int,
         Multiple(lo, step), Multiple(hi, step), lo <= u, u <= hi
  PROVE  lo <= RoundToStep(u, step) /\ RoundToStep(u, step) <= hi
<1> DEFINE r == RoundToStep(u, step)
<1>1. r \in Int /\ Multiple(r, step) /\ 2 * r - 2 * u \in -step .. step
  BY RoundNear
<1> HIDE DEF r
<1>2. ASSUME r < lo PROVE FALSE
  <2>1. 2 * (lo - r) <= step
    BY <1>1, <1>2
  <2>2. lo - r < step /\ r - lo < step
    BY <1>1, <1>2, <2>1
  <2>3. lo = r
    BY <1>1, <2>2, MultiplesApart
  <2> QED BY <1>1, <1>2, <2>3
<1>3. ASSUME r > hi PROVE FALSE
  <2>1. 2 * (r - hi) <= step
    BY <1>1, <1>3
  <2>2. r - hi < step /\ hi - r < step
    BY <1>1, <1>3, <2>1
  <2>3. r = hi
    BY <1>1, <2>2, MultiplesApart
  <2> QED BY <1>1, <1>3, <2>3
<1> QED BY <1>1, <1>2, <1>3 DEF r

\* Rounding to whole degrees keeps the order.
LEMMA RoundMonotone ==
  ASSUME NEW u \in Int, NEW v \in Int, u <= v
  PROVE  RoundToStep(u, Degree) <= RoundToStep(v, Degree)
BY DEF RoundToStep, Degree

----------------------------------------------------------------------------
(* Switching there and back.                                                *)

LEMMA DegreeType == Degree \in Nat \ {0} /\ Degree = 90
BY DEF Degree

\* A degree Fahrenheit is fifty units in Celsius, and nothing is lost on the way.
LEMMA WholeFahrenheit ==
  ASSUME NEW f \in Int, Multiple(f, Degree)
  PROVE  ToC(f) \in Int /\ Multiple(ToC(f), 50) /\ ToF(ToC(f)) = f
<1>1. PICK j \in Int : f = 90 * j
  BY DEF Multiple, Degree
<1>2. ToC(f) = 50 * (j - 32) /\ j - 32 \in Int
  BY <1>1 DEF ToC, Degree
<1>3. Multiple(ToC(f), 50)
  BY <1>2 DEF Multiple
<1>4. ToF(50 * (j - 32)) = 90 * j
  BY DEF ToF, Degree
<1> QED BY <1>1, <1>2, <1>3, <1>4

\* Fahrenheit to Celsius and back is exact where a step is less than the half
\* degree Fahrenheit that rounding can absorb.
LEMMA FineRoundTrip ==
  ASSUME NEW step \in Nat \ {0}, step < 50, NEW f \in Int, Multiple(f, Degree)
  PROVE  RoundToStep(ToF(RoundToStep(ToC(f), step)), Degree) = f
<1> DEFINE g == ToC(f)
           c == RoundToStep(g, step)
           h == RoundToStep(ToF(c), Degree)
<1>1. g \in Int /\ ToF(g) = f
  BY WholeFahrenheit
<1>2. c \in Int /\ 2 * c - 2 * g \in -step .. step
  BY <1>1, RoundNear
<1> HIDE DEF g, c
<1>3. c - g \in -24 .. 24
  BY <1>1, <1>2
<1>4. ToF(c) \in Int /\ ToF(c) - f \in -44 .. 44
  BY <1>1, <1>2, <1>3 DEF ToF, Degree
<1>5. h \in Int /\ Multiple(h, Degree) /\ 2 * h - 2 * ToF(c) \in -Degree .. Degree
  BY <1>4, DegreeType, RoundNear
<1>6. h - f < Degree /\ f - h < Degree
  <2> HIDE DEF h
  <2> QED BY <1>4, <1>5 DEF Degree
<1>7. h = f
  <2> HIDE DEF h
  <2> QED BY <1>5, <1>6, DegreeType, MultiplesApart
<1> QED BY <1>7 DEF h, c, g

\* A whole number of degrees Fahrenheit is near what it was rounded from.
LEMMA FahrenheitNear ==
  ASSUME NEW c \in Int
  PROVE  /\ RoundToStep(ToF(c), Degree) \in Int
         /\ Multiple(RoundToStep(ToF(c), Degree), Degree)
         /\ ToC(RoundToStep(ToF(c), Degree)) \in Int
         /\ ToC(RoundToStep(ToF(c), Degree)) - c \in -25 .. 25
<1> DEFINE f == RoundToStep(ToF(c), Degree)
<1>1. ToF(c) \in Int
  BY DEF ToF, Degree
<1>2. /\ f \in Int /\ Multiple(f, Degree)
      /\ 2 * f - 2 * ToF(c) \in -Degree .. Degree
  BY <1>1, DegreeType, RoundNear
<1> HIDE DEF f
<1>3. ToC(f) \in Int /\ ToF(ToC(f)) = f
  BY <1>2, WholeFahrenheit
<1>4. PICK j \in Int : f = 90 * j
  BY <1>2 DEF Multiple, Degree
<1>5. ToC(f) - c \in -25 .. 25
  BY <1>1, <1>2, <1>4 DEF ToF, ToC, Degree
<1> QED BY <1>2, <1>3, <1>5 DEF f

\* Celsius to Fahrenheit and back is exact where a step is wider than that.
LEMMA CoarseRoundTrip ==
  ASSUME NEW step \in Nat \ {0}, step >= 50, NEW c \in Int, Multiple(c, step)
  PROVE  RoundToStep(ToC(RoundToStep(ToF(c), Degree)), step) = c
<1> DEFINE f == RoundToStep(ToF(c), Degree)
           g == ToC(f)
           r == RoundToStep(g, step)
<1>1. Multiple(f, Degree) /\ f \in Int /\ g \in Int /\ g - c \in -25 .. 25
  BY FahrenheitNear
<1>2. Multiple(g, 50)
  BY <1>1, WholeFahrenheit
<1> HIDE DEF f, g
<1>3. r \in Int /\ Multiple(r, step) /\ 2 * r - 2 * g \in -step .. step
  BY <1>1, RoundNear
<1> HIDE DEF r
<1>4. CASE step > 50
  <2>1. r - c < step /\ c - r < step
    BY <1>1, <1>3, <1>4
  <2> QED BY <1>3, <2>1, MultiplesApart DEF r, g, f
<1>5. CASE step = 50
  <2>1. g = c
    <3>1. g - c < 50 /\ c - g < 50 /\ 50 \in Nat \ {0}
      BY <1>1
    <3> QED BY <1>2, <1>5, <3>1, MultiplesApart
  <2>2. r - g < 50 /\ g - r < 50 /\ 50 \in Nat \ {0}
    BY <1>1, <1>3, <1>5
  <2>3. r = g
    BY <1>2, <1>3, <1>5, <2>2, MultiplesApart
  <2> QED BY <2>1, <2>3 DEF r, g, f
<1> QED BY <1>4, <1>5

----------------------------------------------------------------------------
(* The limits.                                                              *)

\* A state as the bus keeps it: within the limits, on a step or a whole degree.
Settled(s, l) ==
  /\ s \in State
  /\ s.celsius => /\ Multiple(s.degrees, l.step)
                  /\ l.min <= s.degrees /\ s.degrees <= l.max
  /\ ~s.celsius => /\ Multiple(s.degrees, Degree)
                   /\ ToF(l.min) <= s.degrees /\ s.degrees <= ToF(l.max)

LEMMA LimitType ==
  ASSUME NEW l \in LimitSets
  PROVE  /\ l.min \in Int /\ l.max \in Int /\ l.step \in Nat \ {0}
         /\ ToF(l.min) \in Int /\ ToF(l.max) \in Int
<1>1. l \in [min : Int, max : Int, step : Nat \ {0}]
  BY LimitAssumption
<1>2. \A u \in Int : ToF(u) \in Int
  BY DEF ToF, Degree
<1> QED BY <1>1, <1>2

LEMMA BoundWithin ==
  ASSUME NEW u \in Int, NEW lo \in Int, NEW hi \in Int, lo <= hi
  PROVE  /\ Bound(u, lo, hi) \in lo .. hi
         /\ u \in lo .. hi => Bound(u, lo, hi) = u
BY DEF Bound

LEMMA ConversionMonotone ==
  ASSUME NEW u \in Int, NEW v \in Int, u <= v
  PROVE  ToF(u) <= ToF(v) /\ ToC(u) <= ToC(v)
BY DEF ToF, ToC, Degree

\* What Clamp makes of any state is settled.
LEMMA ClampSettles ==
  ASSUME NEW l \in LimitSets, Even(l), NEW s \in State
  PROVE  Settled(Clamp(s, l), l)
<1> DEFINE bc == Bound(s.degrees, l.min, l.max)
           bf == Bound(s.degrees, ToF(l.min), ToF(l.max))
           c == RoundToStep(bc, l.step)
           f == RoundToStep(bf, Degree)
<1>1. s.degrees \in Int
  BY DEF State
<1>2. l.min <= l.max /\ ToF(l.min) <= ToF(l.max)
  BY LimitType, ConversionMonotone DEF Even
<1>3. bc \in l.min .. l.max /\ bf \in ToF(l.min) .. ToF(l.max)
  BY <1>1, <1>2, LimitType, BoundWithin
<1> HIDE DEF bc, bf
<1>4. c \in Int /\ Multiple(c, l.step) /\ l.min <= c /\ c <= l.max
  <2>1. bc \in Int /\ l.min <= bc /\ bc <= l.max
    BY <1>3, LimitType
  <2>2. c \in Int /\ Multiple(c, l.step)
    BY <2>1, LimitType, RoundNear
  <2>3. l.min <= c /\ c <= l.max
    BY <2>1, LimitType, RoundBetween DEF Even
  <2> QED BY <2>2, <2>3
<1>5. f \in Int /\ Multiple(f, Degree)
  BY <1>3, LimitType, DegreeType, RoundNear
<1>6. ToF(l.min) <= f /\ f <= ToF(l.max)
  <2>1. /\ RoundToStep(ToF(l.min), Degree) <= f
        /\ f <= RoundToStep(ToF(l.max), Degree)
    BY <1>3, LimitType, RoundMonotone
  <2>2. /\ RoundToStep(ToF(l.min), Degree) \in Int
        /\ RoundToStep(ToF(l.max), Degree) \in Int
    BY LimitType, DegreeType, RoundNear
  <2> HIDE DEF f
  <2> QED BY <1>5, <2>1, <2>2, LimitType DEF Even
<1> HIDE DEF c, f
<1>7. Clamp(s, l) = [s EXCEPT !.degrees = IF s.celsius THEN c ELSE f]
  BY DEF Clamp, c, f, bc, bf, State
<1> QED BY <1>4, <1>5, <1>6, <1>7 DEF Settled, State

\* The conversion of a settled target is within the limits of the other unit.
LEMMA SettledConverts ==
  ASSUME NEW l \in LimitSets, Even(l), NEW s, Settled(s, l)
  PROVE  /\ s.celsius => ToF(s.degrees) \in ToF(l.min) .. ToF(l.max)
         /\ ~s.celsius => ToC(s.degrees) \in l.min .. l.max
<1>1. s.degrees \in Int
  BY DEF Settled, State
<1>2. CASE s.celsius
  <2>1. ToF(s.degrees) \in Int
    BY <1>1 DEF ToF, Degree
  <2> QED BY <1>1, <1>2, <2>1, LimitType, ConversionMonotone DEF Settled
<1>3. CASE ~s.celsius
  <2>1. ASSUME NEW u \in Int, Multiple(u, l.step)
        PROVE  ToC(ToF(u)) = u
    <3>1. PICK t \in Int : l.step = 5 * t
      BY DEF Even, Multiple
    <3>2. PICK q \in Int : u = l.step * q
      BY <2>1 DEF Multiple
    <3>3. u = 5 * (t * q) /\ t * q \in Int
      BY <3>1, <3>2
    <3>4. ASSUME NEW m \in Int PROVE ToC(ToF(5 * m)) = 5 * m
      BY DEF ToC, ToF, Degree
    <3> QED BY <3>3, <3>4
  <2>2. ToC(ToF(l.min)) = l.min /\ ToC(ToF(l.max)) = l.max
    BY <2>1, LimitType DEF Even
  <2>3. ToC(s.degrees) \in Int
    BY <1>1 DEF ToC, Degree
  <2>4. /\ ToC(ToF(l.min)) <= ToC(s.degrees)
        /\ ToC(s.degrees) <= ToC(ToF(l.max))
    BY <1>1, <1>3, LimitType, ConversionMonotone DEF Settled
  <2> QED BY <1>3, <2>2, <2>3, <2>4, LimitType
<1> QED BY <1>2, <1>3

\* A switch: the bounds leave the converted target alone, so it is only rounded.
AfterSwitch(s, l) ==
  [power |-> s.power, mode |-> s.mode, fan |-> s.fan,
   degrees |-> IF s.celsius THEN RoundToStep(ToF(s.degrees), Degree)
                            ELSE RoundToStep(ToC(s.degrees), l.step),
   celsius |-> ~s.celsius]

LEMMA SwitchRounds ==
  ASSUME NEW l \in LimitSets, Even(l), NEW s, Settled(s, l)
  PROVE  /\ Clamp(Merge(s, UnitDelta(s, ~s.celsius)), l) = AfterSwitch(s, l)
         /\ Settled(AfterSwitch(s, l), l)
<1> DEFINE d == UnitDelta(s, ~s.celsius)
           g == IF s.celsius THEN ToF(s.degrees) ELSE ToC(s.degrees)
           m == [power |-> s.power, mode |-> s.mode, fan |-> s.fan,
                 degrees |-> g, celsius |-> ~s.celsius]
<1>1. s \in State /\ s.degrees \in Int /\ s.celsius \in BOOLEAN
  BY DEF Settled, State
<1>2. g \in Int
  BY <1>1 DEF ToF, ToC, Degree
<1>3. m \in State
  BY <1>1, <1>2 DEF State
<1>4. Merge(s, d) = m
  <2>1. DOMAIN d = {"celsius", "degrees"} /\ d["celsius"] = ~s.celsius
        /\ d["degrees"] = g
    BY <1>1 DEF UnitDelta
  <2> HIDE DEF d, g
  <2> QED BY <2>1 DEF Merge, Given
<1>5. /\ s.celsius => g \in ToF(l.min) .. ToF(l.max)
      /\ ~s.celsius => g \in l.min .. l.max
  BY SettledConverts
<1>6. /\ s.celsius => Bound(g, ToF(l.min), ToF(l.max)) = g
      /\ ~s.celsius => Bound(g, l.min, l.max) = g
  <2> HIDE DEF g
  <2>1. l.min <= l.max /\ ToF(l.min) <= ToF(l.max)
    BY LimitType, ConversionMonotone DEF Even
  <2> QED BY <1>2, <1>5, <2>1, LimitType, BoundWithin
<1>7. Clamp(m, l) = AfterSwitch(s, l)
  <2>1. m.celsius = ~s.celsius /\ m.degrees = g
    BY <1>1, <1>2 DEF State
  <2>2. Clamp(m, l) = [m EXCEPT !.degrees = IF s.celsius
                         THEN RoundToStep(g, Degree) ELSE RoundToStep(g, l.step)]
    BY <1>1, <1>6, <2>1 DEF Clamp
  <2> QED BY <1>1, <2>2 DEF AfterSwitch, State
<1>8. Settled(Clamp(m, l), l)
  BY <1>3, ClampSettles
<1> QED BY <1>4, <1>7, <1>8

----------------------------------------------------------------------------
(* The targets a device moves between.                                      *)

InF(c) == RoundToStep(ToF(c), Degree)
InC(f) == RoundToStep(ToC(f), limits.step)

\* The first target as it is, or becomes, in each unit.
FirstC == IF first.celsius THEN first.degrees ELSE InC(first.degrees)
FirstF == IF first.celsius THEN InF(first.degrees) ELSE first.degrees

(***************************************************************************)
(* Two targets in each unit are all that are ever reached: of a step below *)
(* a degree Fahrenheit the Fahrenheit one is fixed from the first switch   *)
(* on, of a wider step the Celsius one.                                    *)
(***************************************************************************)
SwitchInv ==
  /\ limits \in LimitSets
  /\ Settled(first, limits) /\ Settled(current, limits)
  /\ current.celsius => current.degrees \in {FirstC, InC(FirstF)}
  /\ ~current.celsius => current.degrees \in {FirstF, InF(FirstC)}

LEMMA FirstTypes ==
  ASSUME limits \in LimitSets, Settled(first, limits)
  PROVE  /\ FirstC \in Int /\ Multiple(FirstC, limits.step)
         /\ FirstF \in Int /\ Multiple(FirstF, Degree)
<1>1. first.degrees \in Int /\ first.celsius \in BOOLEAN
  BY DEF Settled, State
<1>2. CASE first.celsius
  <2>1. FirstC = first.degrees /\ FirstF = InF(first.degrees)
    BY <1>2 DEF FirstC, FirstF
  <2>2. InF(first.degrees) \in Int /\ Multiple(InF(first.degrees), Degree)
    BY <1>1, FahrenheitNear DEF InF
  <2> QED BY <1>1, <1>2, <2>1, <2>2 DEF Settled
<1>3. CASE ~first.celsius
  <2>1. FirstF = first.degrees /\ FirstC = InC(first.degrees)
    BY <1>3 DEF FirstC, FirstF
  <2>2. Multiple(first.degrees, Degree)
    BY <1>3 DEF Settled
  <2>3. ToC(first.degrees) \in Int
    BY <1>1, <2>2, WholeFahrenheit
  <2>4. InC(first.degrees) \in Int /\ Multiple(InC(first.degrees), limits.step)
    BY <2>3, LimitType, RoundNear DEF InC
  <2> QED BY <1>1, <2>1, <2>2, <2>4
<1> QED BY <1>2, <1>3

\* From either target of one unit, a switch leads to one of the other's two.
LEMMA TargetsClosed ==
  ASSUME limits \in LimitSets, Settled(first, limits)
  PROVE  /\ InF(InC(FirstF)) \in {FirstF, InF(FirstC)}
         /\ InC(InF(FirstC)) \in {FirstC, InC(FirstF)}
<1>1. /\ FirstC \in Int /\ Multiple(FirstC, limits.step)
      /\ FirstF \in Int /\ Multiple(FirstF, Degree)
  BY FirstTypes
<1>2. limits.step \in Nat \ {0}
  BY LimitType
<1>3. CASE limits.step < 50
  <2>1. \A f \in Int : Multiple(f, Degree) => InF(InC(f)) = f
    BY <1>2, <1>3, FineRoundTrip DEF InF, InC
  <2>2. first.celsius => FirstF = InF(FirstC)
    BY DEF FirstF, FirstC
  <2>3. ~first.celsius => FirstC = InC(FirstF)
    BY DEF FirstF, FirstC
  <2>4. first.celsius => InC(InF(FirstC)) = InC(FirstF)
    BY <2>2
  <2>5. ~first.celsius => InC(InF(FirstC)) = InC(FirstF)
    BY <1>1, <2>1, <2>3
  <2> QED BY <1>1, <2>1, <2>4, <2>5
<1>4. CASE limits.step >= 50
  <2>1. \A c \in Int : Multiple(c, limits.step) => InC(InF(c)) = c
    BY <1>2, <1>4, CoarseRoundTrip DEF InF, InC
  <2>2. first.celsius => InC(FirstF) = FirstC
    BY <1>1, <2>1 DEF FirstF, FirstC
  <2>3. ~first.celsius => InC(FirstF) = FirstC
    BY DEF FirstF, FirstC
  <2>4. InF(InC(FirstF)) = InF(FirstC)
    BY <2>2, <2>3
  <2> QED BY <1>1, <2>1, <2>4
<1> QED BY <1>2, <1>3, <1>4

\* A target a client asked for is a state.
LEMMA AskedState ==
  ASSUME NEW p \in BOOLEAN, NEW u \in BOOLEAN, NEW m \in Modes, NEW t \in Targets
  PROVE  [power |-> p, mode |-> m, fan |-> AutoFan, degrees |-> t, celsius |-> u]
           \in State
BY FanAssumption, TargetAssumption DEF State

LEMMA SwitchStep ==
  ASSUME EvenLimits, SwitchInv, [SetUnit]_switch
  PROVE  SwitchInv'
<1>1. CASE SetUnit
  <2>1. Even(limits) /\ limits' = limits /\ first' = first
    BY <1>1 DEF SwitchInv, EvenLimits, SetUnit
  <2>2. current' = AfterSwitch(current, limits) /\ Settled(current', limits)
    BY <1>1, <2>1, SwitchRounds DEF SwitchInv, SetUnit
  <2>3. /\ current'.celsius = ~current.celsius
        /\ current'.degrees = IF current.celsius THEN InF(current.degrees)
                                                 ELSE InC(current.degrees)
    BY <2>2 DEF AfterSwitch, InF, InC
  <2>4. FirstC' = FirstC /\ FirstF' = FirstF /\ InC(FirstF)' = InC(FirstF)
        /\ InF(FirstC)' = InF(FirstC)
    BY <2>1 DEF FirstC, FirstF, InC, InF
  <2>5. CASE current.celsius
    <3>1. current'.degrees \in {FirstF, InF(FirstC)}
      BY <2>3, <2>5, TargetsClosed DEF SwitchInv
    <3> QED BY <2>1, <2>2, <2>3, <2>4, <2>5, <3>1 DEF SwitchInv
  <2>6. CASE ~current.celsius
    <3>1. current'.degrees \in {FirstC, InC(FirstF)}
      BY <2>3, <2>6, TargetsClosed DEF SwitchInv
    <3> QED BY <2>1, <2>2, <2>3, <2>4, <2>6, <3>1 DEF SwitchInv
  <2> QED BY <2>5, <2>6
<1>2. CASE UNCHANGED switch
  BY <1>2 DEF switch, SwitchInv, FirstC, FirstF, InC, InF
<1> QED BY <1>1, <1>2 DEF SetUnit

LEMMA SwitchInvInit == ASSUME EvenLimits, SwitchInit PROVE SwitchInv
<1>1. limits \in LimitSets /\ Even(limits) /\ current = first
  BY DEF SwitchInit, EvenLimits
<1>2. Settled(first, limits)
  BY <1>1, AskedState, ClampSettles DEF SwitchInit
<1>3. /\ first.celsius => first.degrees = FirstC
      /\ ~first.celsius => first.degrees = FirstF
  BY DEF FirstC, FirstF
<1> QED BY <1>1, <1>2, <1>3 DEF SwitchInv

\* What the invariant says of the limits.
LEMMA SwitchedWithin == ASSUME EvenLimits, SwitchInv PROVE WithinLimits
<1>1. Even(limits) /\ limits \in LimitSets /\ Settled(current, limits)
  BY DEF SwitchInv, EvenLimits
<1>2. current.degrees \in Int /\ limits.min \in Int /\ limits.max \in Int
  BY <1>1, LimitType DEF Settled, State
<1> QED BY <1>1, <1>2, SettledConverts DEF WithinLimits, Celsius, Settled

\* And of the first target: all four that are ever reached are near it.
LEMMA SwitchedNear == ASSUME EvenLimits, SwitchInv PROVE NoDrift
<1> DEFINE step == limits.step
           g == ToC(FirstF)
           h == ToC(InF(FirstC))
<1>1. /\ limits \in LimitSets /\ step \in Nat \ {0}
      /\ FirstC \in Int /\ FirstF \in Int /\ Multiple(FirstF, Degree)
  BY LimitType, FirstTypes DEF SwitchInv
<1>2. g \in Int
  BY <1>1, WholeFahrenheit
<1>3. InC(FirstF) \in Int /\ 2 * InC(FirstF) - 2 * g \in -step .. step
  BY <1>1, <1>2, RoundNear DEF InC
<1>4. h \in Int /\ h - FirstC \in -25 .. 25
  BY <1>1, FahrenheitNear DEF InF
<1>5. IF first.celsius THEN Celsius(first) = FirstC /\ g = h
                       ELSE Celsius(first) = g /\ FirstC = InC(FirstF)
  BY DEF Celsius, FirstC, FirstF
<1>6. Celsius(current) \in {FirstC, InC(FirstF), g, h}
  BY DEF SwitchInv, Celsius
<1> HIDE DEF g, h, step
<1>7. /\ Celsius(current) \in Int /\ Celsius(first) \in Int
      /\ 2 * Celsius(current) - 2 * Celsius(first) \in -(step + 50) .. step + 50
  BY <1>1, <1>2, <1>3, <1>4, <1>5, <1>6
<1>8. LET d == Celsius(current) - Celsius(first)
          b == IF step > 50 THEN step ELSE 50
      IN  d \in -b .. b
  BY <1>1, <1>7
<1> QED BY <1>8 DEF NoDrift, step

----------------------------------------------------------------------------
(* The file.                                                                *)

\* Reading what was written of a state gives it back, except for the mode of one
\* that is off: hvac_mode says "off", and the mode stays the default one.
LEMMA RestoredIs ==
  ASSUME NEW s \in State
  PROVE  Restored(ToJson(s)) =
           [s EXCEPT !.mode = IF s.power THEN @ ELSE Cool]
<1> DEFINE j == ToJson(s)
           d == FromJson(j)
           dom == Fields \ (IF s.power THEN {} ELSE {"mode"})
           has == [power   |-> "power" \in DOMAIN j \/ Names(j),
                   mode    |-> Names(j) /\ Named(j) # Off,
                   fan     |-> "fan" \in DOMAIN j,
                   degrees |-> "temp" \in DOMAIN j,
                   celsius |-> "unit" \in DOMAIN j]
           value(f) == CASE f = "power"   -> Given(j, "power", Named(j) # Off)
                         [] f = "mode"    -> Named(j)
                         [] f = "fan"     -> j["fan"]
                         [] f = "degrees" -> j["temp"]
                         [] f = "celsius" -> j["unit"] = "C"
<1>1. /\ DOMAIN j = {"power", "mode", "hvac_mode", "temp", "unit", "fan"}
      /\ j.power = s.power /\ j.fan = s.fan /\ j.temp = s.degrees
      /\ j.hvac_mode = (IF s.power THEN s.mode ELSE Off)
      /\ j.unit = (IF s.celsius THEN "C" ELSE "F")
  BY DEF ToJson
<1>2. s.mode \in Modes /\ s.power \in BOOLEAN /\ s.celsius \in BOOLEAN /\ s.mode # Off
  BY ModeAssumption DEF State
<1>3. Names(j) /\ Named(j) = j.hvac_mode
  <2> HIDE DEF j
  <2> QED BY <1>1 DEF Names, Named, Given
<1>4. d = [f \in {g \in Fields : has[g]} |-> value(f)]
  BY DEF FromJson
<1> HIDE DEF j
<1>5. /\ has["power"] /\ has["fan"] /\ has["degrees"] /\ has["celsius"]
      /\ has["mode"] <=> s.power
  BY <1>1, <1>2, <1>3
<1>6. {g \in Fields : has[g]} = dom
  <2> HIDE DEF has
  <2> QED BY <1>5 DEF Fields
<1>7. /\ value("power") = s.power /\ value("fan") = s.fan
      /\ value("degrees") = s.degrees /\ value("celsius") = s.celsius
      /\ s.power => value("mode") = s.mode
  BY <1>1, <1>2, <1>3 DEF Given
<1> HIDE DEF value, has, d
<1>8. d = [f \in dom |-> value(f)]
  BY <1>4, <1>6
<1>9. /\ DOMAIN d = dom
      /\ d["power"] = s.power /\ d["fan"] = s.fan
      /\ d["degrees"] = s.degrees /\ d["celsius"] = s.celsius
      /\ s.power => d["mode"] = s.mode
  <2>1. /\ {"power", "fan", "degrees", "celsius"} \subseteq dom
        /\ s.power => "mode" \in dom
    BY DEF Fields
  <2> HIDE DEF dom
  <2> QED BY <1>7, <1>8, <2>1
<1>10. /\ {"power", "fan", "degrees", "celsius"} \subseteq DOMAIN d
       /\ "mode" \in DOMAIN d <=> s.power
  BY <1>2, <1>9 DEF Fields
<1> HIDE DEF dom
<1>11. Restored(j) = [power |-> s.power, mode |-> IF s.power THEN s.mode ELSE Cool,
                      fan |-> s.fan, degrees |-> s.degrees, celsius |-> s.celsius]
  BY <1>9, <1>10 DEF Restored, Merge, Given, DefaultState, d
<1>12. [s EXCEPT !.mode = IF s.power THEN @ ELSE Cool] =
         [power |-> s.power, mode |-> IF s.power THEN s.mode ELSE Cool,
          fan |-> s.fan, degrees |-> s.degrees, celsius |-> s.celsius]
  BY DEF State
<1> QED BY <1>11, <1>12 DEF j

LEMMA ClampState ==
  ASSUME NEW l \in LimitSets, NEW s \in State
  PROVE  Clamp(s, l) \in State
<1> DEFINE c == RoundToStep(Bound(s.degrees, l.min, l.max), l.step)
           f == RoundToStep(Bound(s.degrees, ToF(l.min), ToF(l.max)), Degree)
<1>1. /\ Bound(s.degrees, l.min, l.max) \in Int
      /\ Bound(s.degrees, ToF(l.min), ToF(l.max)) \in Int
  BY LimitType DEF Bound, State
<1>2. c \in Int /\ f \in Int
  BY <1>1, LimitType, DegreeType, RoundNear
<1> HIDE DEF c, f
<1>3. Clamp(s, l) = [s EXCEPT !.degrees = IF s.celsius THEN c ELSE f]
  BY DEF Clamp, c, f, State
<1> QED BY <1>2, <1>3 DEF State

LEMMA SwitchTypesInit == SwitchInit => SwitchOK
BY AskedState, ClampState DEF SwitchInit, SwitchOK

LEMMA SwitchTypesStep == ASSUME SwitchOK, [SetUnit]_switch PROVE SwitchOK'
<1>1. CASE SetUnit
  <2>1. Merge(current, UnitDelta(current, ~current.celsius)) \in State
    BY DEF SwitchOK, Merge, Given, UnitDelta, ToF, ToC, Degree, State
  <2> QED BY <1>1, <2>1, ClampState DEF SetUnit, SwitchOK
<1>2. CASE UNCHANGED switch
  BY <1>2 DEF switch, SwitchOK
<1> QED BY <1>1, <1>2

\* What is read back of any state.
LEMMA FileKept == ASSUME SwitchOK PROVE FileKeepsState
<1>1. /\ current \in State
      /\ Restored(ToJson(current)) =
           [current EXCEPT !.mode = IF current.power THEN @ ELSE Cool]
  BY RestoredIs DEF SwitchOK
<1> QED BY <1>1 DEF FileKeepsState, State
=============================================================================
