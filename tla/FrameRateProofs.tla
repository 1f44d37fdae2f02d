---------------------------- MODULE FrameRateProofs ----------------------------
(***************************************************************************)
(* Proofs about FrameRate, for cameras with any clocks and any limits of   *)
(* the frame rate, any requests and any set of failing calls: setFPS finds *)
(* the lowest pixel clock, from the current one on, that allows for the    *)
(* requested rate, and falls short of it only if there is none.            *)
(***************************************************************************)
EXTENDS FrameRate, SequenceTheorems, TLAPS

-------------------------------------------------------------------------------
(* The clocks of a range: the loop of setFPS adds the increment, the grid is *)
(* defined by the remainder.                                                 *)

LEMMA ProductMonotonic == \A a, b, n \in Nat : a < b => a * n + n <= b * n
<1> SUFFICES ASSUME NEW a \in Nat, NEW b \in Nat, NEW n \in Nat, a < b
             PROVE  a * n + n <= b * n
  OBVIOUS
<1> DEFINE d == b - a - 1
<1>1. d \in Nat /\ b = a + 1 + d  OBVIOUS
<1>2. d * n \in Nat  BY <1>1
<1> HIDE DEF d
<1>3. b * n = a * n + n + d * n  BY <1>1
<1> QED  BY <1>2, <1>3

LEMMA Division ==
  \A a \in Nat, n \in Nat \ {0} :
    a \div n \in Nat /\ a % n \in 0 .. n - 1 /\ a = (a \div n) * n + (a % n)
OBVIOUS

LEMMA MultipleModulo == \A a \in Nat, n \in Nat \ {0} : (a * n) % n = 0
<1> SUFFICES ASSUME NEW a \in Nat, NEW n \in Nat \ {0} PROVE (a * n) % n = 0
  OBVIOUS
<1> DEFINE q == (a * n) \div n  r == (a * n) % n
<1>1. a * n \in Nat  OBVIOUS
<1>2. q \in Nat /\ r \in 0 .. n - 1 /\ a * n = q * n + r
  BY <1>1, Division
<1> HIDE DEF q, r
<1>3. ~ a < q
  <2> SUFFICES ASSUME a < q PROVE FALSE  OBVIOUS
  <2>1. a * n + n <= q * n  BY <1>2, ProductMonotonic
  <2>2. q * n \in Nat  BY <1>2
  <2> QED  BY <1>1, <1>2, <2>1, <2>2
<1>4. ~ q < a
  <2> SUFFICES ASSUME q < a PROVE FALSE  OBVIOUS
  <2>1. q * n + n <= a * n  BY <1>2, ProductMonotonic
  <2>2. q * n \in Nat  BY <1>2
  <2> QED  BY <1>1, <1>2, <2>1, <2>2
<1>5. q * n \in Nat /\ q = a  BY <1>2, <1>3, <1>4
<1>6. r = 0  BY <1>1, <1>2, <1>5
<1> QED  BY <1>6 DEF r

\* A clock is on the grid just if it is a number of increments above the minimum.
LEMMA GridElement ==
  ASSUME NEW r \in [min : Nat, max : Nat, inc : Nat \ {0}], NEW c
  PROVE  c \in Grid(r) <=> c \in Nat /\ c <= r.max /\ \E k \in Nat : c = r.min + k * r.inc
<1>1. r.min \in Nat /\ r.max \in Nat /\ r.inc \in Nat \ {0}  OBVIOUS
<1>2. ASSUME c \in Grid(r)
      PROVE  c \in Nat /\ c <= r.max /\ \E k \in Nat : c = r.min + k * r.inc
  <2>1. c \in r.min .. r.max /\ (c - r.min) % r.inc = 0  BY <1>2 DEF Grid
  <2>2. c \in Nat /\ c <= r.max /\ c - r.min \in Nat  BY <1>1, <2>1
  <2> DEFINE d == c - r.min  k == d \div r.inc
  <2>3. k \in Nat /\ d = k * r.inc + (d % r.inc)  BY <1>1, <2>2, Division
  <2>4. c = r.min + d /\ d % r.inc = 0 /\ d \in Nat  BY <1>1, <2>1, <2>2
  <2> HIDE DEF k, d
  <2>5. c = r.min + k * r.inc  BY <1>1, <2>3, <2>4
  <2> QED  BY <2>2, <2>3, <2>5
<1>3. ASSUME c \in Nat, c <= r.max, NEW k \in Nat, c = r.min + k * r.inc
      PROVE  c \in Grid(r)
  <2>1. k * r.inc \in Nat /\ c - r.min = k * r.inc /\ c \in r.min .. r.max  BY <1>1, <1>3
  <2>2. (k * r.inc) % r.inc = 0  BY <1>1, MultipleModulo
  <2> QED  BY <2>1, <2>2 DEF Grid
<1> QED  BY <1>2, <1>3

-------------------------------------------------------------------------------
(* The lists of clocks and of options. *)

\* The rest of an ascending list has what is above its head.
LEMMA TailOptions ==
  ASSUME NEW s \in Seq(Nat), s # <<>>, Ascending(s)
  PROVE  /\ Head(s) \in Elements(s) /\ \A c \in Elements(s) : Head(s) <= c
         /\ Tail(s) \in Seq(Nat) /\ Ascending(Tail(s))
         /\ Elements(Tail(s)) = {c \in Elements(s) : c > Head(s)}
<1>1. /\ Len(s) \in Nat /\ Len(s) >= 1 /\ Head(s) = s[1]
      /\ Tail(s) \in Seq(Nat) /\ Len(Tail(s)) = Len(s) - 1
      /\ \A i \in 1 .. Len(s) : s[i] \in Nat
      /\ \A i \in 1 .. Len(s) - 1 : Tail(s)[i] = s[i + 1]
  OBVIOUS
<1>2. \A i \in 1 .. Len(s) : s[1] <= s[i] /\ (i > 1 => s[1] < s[i])
  BY <1>1 DEF Ascending
<1>3. Head(s) \in Elements(s) /\ \A c \in Elements(s) : Head(s) <= c
  BY <1>1, <1>2 DEF Elements
<1>4. Ascending(Tail(s))
  BY <1>1 DEF Ascending
<1>5. ASSUME NEW c \in Elements(Tail(s)) PROVE c \in Elements(s) /\ c > Head(s)
  <2>1. PICK i \in 1 .. Len(s) - 1 : c = s[i + 1]  BY <1>1 DEF Elements
  <2> QED  BY <1>1, <1>2, <2>1 DEF Elements
<1>6. ASSUME NEW c \in Elements(s), c > Head(s) PROVE c \in Elements(Tail(s))
  <2>1. PICK i \in 1 .. Len(s) : c = s[i]  BY DEF Elements
  <2>2. i # 1 /\ i - 1 \in 1 .. Len(Tail(s)) /\ (i - 1) + 1 = i  BY <1>1, <1>6, <2>1
  <2>3. c = Tail(s)[i - 1]  BY <1>1, <2>1, <2>2
  <2> QED  BY <2>2, <2>3 DEF Elements
<1> QED  BY <1>1, <1>3, <1>4, <1>5, <1>6

\* What follows the first clock above n in an ascending list are those above n.
LEMMA OptionsAbove ==
  ASSUME NEW s \in Seq(Nat), Ascending(s), NEW n \in Nat,
         NEW i \in 1 .. Len(s), s[i] > n, \A j \in 1 .. Len(s) : s[j] > n => i <= j
  PROVE  LET o == SubSeq(s, i, Len(s))
         IN  o \in Seq(Nat) /\ Ascending(o) /\ Elements(o) = {c \in Elements(s) : c > n}
<1> DEFINE o == SubSeq(s, i, Len(s))
<1>1. Len(s) \in Nat /\ \A j \in 1 .. Len(s) : s[j] \in Nat  OBVIOUS
<1>2. /\ o \in Seq(Nat) /\ Len(o) = Len(s) - i + 1
      /\ \A j \in 1 .. Len(o) : o[j] = s[i + j - 1] /\ i + j - 1 \in 1 .. Len(s)
  <2>1. i \in Int /\ Len(s) \in Int /\ i <= Len(s) /\ \A k \in i .. Len(s) : s[k] \in Nat
    BY <1>1
  <2>2. /\ o \in Seq(Nat) /\ Len(o) = Len(s) - i + 1
        /\ \A j \in 1 .. Len(s) - i + 1 : o[j] = s[i + j - 1]
    BY <2>1, SubSeqProperties
  <2>3. \A j \in 1 .. Len(o) : o[j] = s[i + j - 1] /\ i + j - 1 \in 1 .. Len(s)
    <3> HIDE DEF o
    <3> QED  BY <1>1, <2>1, <2>2
  <2> QED  BY <2>2, <2>3
<1> HIDE DEF o
<1>3. ASSUME NEW j \in 1 .. Len(s) PROVE s[j] > n <=> i <= j
  <2>1. s[i] \in Nat /\ s[j] \in Nat  BY <1>1
  <2>2. i < j => s[i] < s[j]  BY DEF Ascending
  <2> QED  BY <1>1, <2>1, <2>2
<1>4. Ascending(o)
  <2> SUFFICES ASSUME NEW j \in 1 .. Len(o), NEW k \in 1 .. Len(o), j < k PROVE o[j] < o[k]
    BY DEF Ascending
  <2>1. i + j - 1 \in 1 .. Len(s) /\ i + k - 1 \in 1 .. Len(s)  BY <1>2
  <2>2. i + j - 1 < i + k - 1  BY <1>1, <1>2
  <2>3. s[i + j - 1] < s[i + k - 1]  BY <2>1, <2>2 DEF Ascending
  <2> QED  BY <1>2, <2>3
<1>5. ASSUME NEW c \in Elements(o) PROVE c \in Elements(s) /\ c > n
  <2>1. PICK j \in 1 .. Len(o) : c = o[j]  BY DEF Elements
  <2>2. i + j - 1 \in 1 .. Len(s) /\ c = s[i + j - 1] /\ i <= i + j - 1
    BY <1>1, <1>2, <2>1
  <2> QED  BY <1>3, <2>2 DEF Elements
<1>6. ASSUME NEW c \in Elements(s), c > n PROVE c \in Elements(o)
  <2>1. PICK j \in 1 .. Len(s) : c = s[j]  BY DEF Elements
  <2>2. i <= j  BY <1>3, <1>6, <2>1
  <2>3. j - i + 1 \in 1 .. Len(o) /\ i + (j - i + 1) - 1 = j  BY <1>1, <1>2, <2>2
  <2>4. c = o[j - i + 1]  BY <1>2, <2>1, <2>3
  <2> QED  BY <2>3, <2>4 DEF Elements
<1> QED  BY <1>2, <1>4, <1>5, <1>6 DEF o

\* The list made from a range, when the next clock is above the maximum.
LEMMA GridFilled ==
  ASSUME NEW r \in [min : Nat, max : Nat, inc : Nat \ {0}], NEW s \in Seq(Nat),
         \A i \in 1 .. Len(s) : s[i] = r.min + (i - 1) * r.inc /\ s[i] <= r.max,
         ~(r.min + Len(s) * r.inc <= r.max)
  PROVE  Elements(s) = Grid(r) /\ Ascending(s)
<1>1. /\ r.min \in Nat /\ r.max \in Nat /\ r.inc \in Nat \ {0} /\ Len(s) \in Nat
      /\ \A i \in 1 .. Len(s) : s[i] \in Nat
  OBVIOUS
<1>2. ASSUME NEW c \in Elements(s) PROVE c \in Grid(r)
  <2>1. PICK i \in 1 .. Len(s) : c = s[i]  BY DEF Elements
  <2>2. c \in Nat /\ c <= r.max /\ i - 1 \in Nat /\ c = r.min + (i - 1) * r.inc  BY <1>1, <2>1
  <2> QED  BY <2>2, GridElement
<1>3. ASSUME NEW c \in Grid(r) PROVE c \in Elements(s)
  <2>1. c \in Nat /\ c <= r.max  BY GridElement
  <2>2. PICK k \in Nat : c = r.min + k * r.inc  BY GridElement
  <2>3. k < Len(s)
    <3> SUFFICES ASSUME ~(k < Len(s)) PROVE FALSE  OBVIOUS
    <3>1. k = Len(s) \/ Len(s) < k  BY <1>1
    <3>2. k * r.inc \in Nat /\ Len(s) * r.inc \in Nat  BY <1>1
    <3>3. Len(s) * r.inc <= k * r.inc
      <4>1. CASE k = Len(s)  BY <3>2, <4>1
      <4>2. CASE Len(s) < k
        <5>1. Len(s) * r.inc + r.inc <= k * r.inc  BY <1>1, <4>2, ProductMonotonic
        <5> QED  BY <1>1, <3>2, <5>1
      <4> QED  BY <3>1, <4>1, <4>2
    <3> QED  BY <1>1, <2>1, <2>2, <3>2, <3>3
  <2>4. k + 1 \in 1 .. Len(s) /\ (k + 1) - 1 = k  BY <1>1, <2>3
  <2>5. s[k + 1] = c  BY <2>2, <2>4
  <2> QED  BY <2>4, <2>5 DEF Elements
<1>4. Ascending(s)
  <2> SUFFICES ASSUME NEW i \in 1 .. Len(s), NEW j \in 1 .. Len(s), i < j
               PROVE  s[i] < s[j]
    BY DEF Ascending
  <2> DEFINE a == i - 1  b == j - 1
  <2>1. a \in Nat /\ b \in Nat /\ a < b  BY <1>1
  <2>2. s[i] = r.min + a * r.inc /\ s[j] = r.min + b * r.inc  OBVIOUS
  <2> HIDE DEF a, b
  <2> DEFINE n == r.inc  m == r.min
  <2>3. n \in Nat /\ n > 0 /\ m \in Nat /\ s[i] = m + a * n /\ s[j] = m + b * n  BY <1>1, <2>2
  <2> HIDE DEF n, m
  <2>4. a * n + n <= b * n  BY <2>1, <2>3, ProductMonotonic
  <2>5. a * n \in Nat /\ b * n \in Nat  BY <2>1, <2>3
  <2>6. ASSUME NEW x \in Nat, NEW y \in Nat, x + n <= y PROVE m + x < m + y
    BY <2>3, <2>6
  <2> QED  BY <2>3, <2>4, <2>5, <2>6
<1> QED  BY <1>2, <1>3, <1>4

-------------------------------------------------------------------------------
(* The invariant. *)

\* The clocks are numbers, and so are their limits.
LEMMA ClockTypes ==
  ASSUME range \in Ranges \cup {NoRange}, limit \in Limits,
         IF range = NoRange THEN list \in Lists ELSE range \in Ranges
  PROVE  /\ Available \subseteq Nat /\ \A c \in Available : limit[c] \in Nat
         /\ range # NoRange => range \in [min : Nat, max : Nat, inc : Nat \ {0}]
<1>1. CASE range = NoRange
  <2>1. Available \subseteq Nat
    BY <1>1, FrameRateAssumption DEF FrameRateAssumption, Available, Elements
  <2>2. Available \subseteq Clocks  BY <1>1 DEF Available, Clocks
  <2> QED  BY <1>1, <2>1, <2>2, FrameRateAssumption DEF FrameRateAssumption
<1>2. CASE range # NoRange
  <2>1. range \in [min : Nat, max : Nat, inc : Nat \ {0}]
    BY <1>2, FrameRateAssumption DEF FrameRateAssumption
  <2>2. Available \subseteq Nat  BY <1>2, <2>1 DEF Available, Grid
  <2>3. Available \subseteq Clocks  BY <1>2 DEF Available, Clocks
  <2> QED  BY <2>1, <2>2, <2>3, FrameRateAssumption DEF FrameRateAssumption
<1> QED  BY <1>1, <1>2

LEMMA InitFInv == Init => FInv
<1> SUFFICES ASSUME Init PROVE FInv  OBVIOUS
<1>1. NoRange \notin Ranges
  BY FrameRateAssumption DEF FrameRateAssumption, NoRange
<1>2. TypeOK
  BY <1>1 DEF Init, TypeOK, ListsOf
<1>3. ClocksComplete /\ ClocksFound /\ OptionsRight /\ RateKnown /\ FallsShortOnlyIfMust
  BY <1>1 DEF Init, ClocksComplete, ClocksFound, OptionsRight, RateKnown, FallsShortOnlyIfMust
<1>4. NoOvershoot
  BY <1>2, <1>3, ClockTypes DEF Init, NoOvershoot, TypeOK, ClocksFound
<1> QED  BY <1>2, <1>3, <1>4 DEF FInv, RateInv

\* The steps before the options are chosen leave the camera as it was before the call.
LEMMA QueryStep ==
  ASSUME FInv,
         \/ \E f \in Requests : Call(f)
         \/ GetFrameTimeRange \/ GetPixelClock \/ GetRange \/ NoRangeInfo \/ GetNumber
  PROVE  FInv'
<1> USE DEF FInv, RateInv, cameraVars, Goto, Call, GetFrameTimeRange, GetPixelClock, GetRange,
            NoRangeInfo, GetNumber, TooSlow
<1>1. Available \subseteq Nat /\ \A c \in Available : limit[c] \in Nat
  BY ClockTypes DEF TypeOK, ClocksFound
<1>2. UNCHANGED <<range, list, limit, clk, rate, Available, outcome>>
  BY DEF Available
<1>3. TypeOK'
  <2>1. /\ fps' \in Requests \cup {0} /\ maxFPS' \in Nat /\ old' \in Available
        /\ clkList' \in Seq(Nat) /\ clkOpts' \in Seq(Nat)
    <3>1. CASE \E f \in Requests : Call(f)  BY <1>2, <3>1 DEF TypeOK
    <3>2. CASE GetFrameTimeRange  BY <1>1, <1>2, <3>2 DEF TypeOK
    <3>3. CASE UNCHANGED <<fps, maxFPS, old, clkList, clkOpts>>  BY <1>2, <3>3 DEF TypeOK
    <3> QED  BY <3>1, <3>2, <3>3
  <2>2. pc' \in {"first_range", "get_clock", "get_range", "fill", "get_number", "get_list", "set_rate"}
    OBVIOUS
  <2> QED  BY <1>2, <2>1, <2>2 DEF TypeOK
<1>4. ClocksComplete' /\ OptionsRight'
  BY DEF ClocksComplete, OptionsRight
<1>5. NoOvershoot'
  <2>1. old' = old \/ (old' = clk /\ UNCHANGED clk)  OBVIOUS
  <2>2. CASE \E f \in Requests : Call(f)  BY <1>1, <1>2, <2>2 DEF NoOvershoot, TypeOK
  <2>3. CASE UNCHANGED <<old, fps>>  BY <1>2, <2>3 DEF NoOvershoot
  <2> QED  BY <2>2, <2>3
<1>6. ClocksFound'
  BY <1>2 DEF ClocksFound
<1>7. RateKnown'
  BY SMTT(30), <1>1, <1>2, FrameRateAssumption DEF RateKnown, TypeOK, FrameRateAssumption
<1>8. FallsShortOnlyIfMust'
  BY DEF FallsShortOnlyIfMust
<1> QED  BY <1>3, <1>4, <1>5, <1>6, <1>7, <1>8

\* The list of clocks is made.
LEMMA ListStep == ASSUME FInv, PushClock \/ Filled \/ GetList PROVE FInv'
<1> USE DEF FInv, RateInv, cameraVars, Goto
<1>1. UNCHANGED <<range, list, limit, clk, rate, Available, fps, maxFPS, clkOpts, outcome, old>>
  BY DEF PushClock, Filled, GetList, Available
<1>2. range # NoRange => range \in [min : Nat, max : Nat, inc : Nat \ {0}]
  BY ClockTypes DEF TypeOK, ClocksFound
<1>3. clkList \in Seq(Nat)  BY DEF TypeOK
<1>4. NoOvershoot' /\ OptionsRight' /\ RateKnown' /\ FallsShortOnlyIfMust'
  BY <1>1 DEF PushClock, Filled, GetList, NoOvershoot, OptionsRight, RateKnown, FallsShortOnlyIfMust
<1>5. CASE PushClock
  <2> DEFINE c == range.min + Len(clkList) * range.inc
  <2>1. /\ pc = "fill" /\ range # NoRange /\ clkList' = Append(clkList, c) /\ UNCHANGED pc
        /\ c <= range.max
    BY <1>5 DEF PushClock, NextClock, InRange, ClocksFound
  <2>2. Len(clkList) \in Nat /\ c \in Nat
    <3>1. Len(clkList) \in Nat /\ range.min \in Nat /\ range.inc \in Nat  BY <1>2, <1>3, <2>1
    <3>2. Len(clkList) * range.inc \in Nat  BY <3>1
    <3> QED  BY <3>1, <3>2
  <2> HIDE DEF c
  <2>3. /\ clkList' \in Seq(Nat) /\ Len(clkList') = Len(clkList) + 1
        /\ \A i \in 1 .. Len(clkList) : clkList'[i] = clkList[i]
        /\ clkList'[Len(clkList) + 1] = c
    BY <1>3, <2>1, <2>2, AppendProperties
  <2>4. TypeOK'  BY <1>1, <2>1, <2>3 DEF TypeOK
  <2>5. ClocksComplete'  BY <2>1 DEF ClocksComplete
  <2>6. \A i \in 1 .. Len(clkList') :
          clkList'[i] = range.min + (i - 1) * range.inc /\ clkList'[i] <= range.max
    <3> SUFFICES ASSUME NEW i \in 1 .. Len(clkList')
                 PROVE  clkList'[i] = range.min + (i - 1) * range.inc /\ clkList'[i] <= range.max
      OBVIOUS
    <3>1. CASE i \in 1 .. Len(clkList)  BY <2>1, <2>3, <3>1 DEF ClocksFound
    <3>2. CASE i = Len(clkList) + 1
      <4>1. i - 1 = Len(clkList)  BY <2>2, <3>2
      <4> QED  BY <2>1, <2>3, <3>2, <4>1 DEF c
    <3> QED  BY <2>2, <2>3, <3>1, <3>2
  <2>7. ClocksFound'  BY <1>1, <2>1, <2>6 DEF ClocksFound
  <2> QED  BY <1>4, <2>4, <2>5, <2>7
<1>6. CASE Filled
  <2>1. /\ pc = "fill" /\ pc' = "choose" /\ range # NoRange /\ UNCHANGED clkList
        /\ ~(range.min + Len(clkList) * range.inc <= range.max)
    BY <1>6 DEF Filled, NextClock, InRange, ClocksFound
  <2>2. Elements(clkList) = Grid(range) /\ Ascending(clkList)
    BY <1>2, <1>3, <2>1, GridFilled DEF ClocksFound
  <2>3. TypeOK' /\ ClocksFound'  BY <1>1, <2>1 DEF TypeOK, ClocksFound
  <2>4. ClocksComplete'  BY <1>1, <2>1, <2>2 DEF ClocksComplete, Available
  <2> QED  BY <1>4, <2>3, <2>4
<1>7. CASE GetList
  <2>1. pc = "get_list" /\ pc' = "choose" /\ clkList' = list /\ list # <<>>
    BY <1>7 DEF GetList, ClocksFound
  <2>2. list \in Lists /\ Elements(list) = Available
    BY <2>1 DEF ClocksFound, ListsOf, Available
  <2>3. list \in Seq(Nat) /\ Ascending(list)  BY <2>2, FrameRateAssumption DEF FrameRateAssumption
  <2>4. TypeOK' /\ ClocksFound'  BY <1>1, <2>1, <2>3 DEF TypeOK, ClocksFound
  <2>5. ClocksComplete'  BY <1>1, <2>1, <2>2, <2>3 DEF ClocksComplete
  <2> QED  BY <1>4, <2>4, <2>5
<1> QED  BY <1>5, <1>6, <1>7

LEMMA ChooseStep == ASSUME FInv, Choose PROVE FInv'
<1> USE DEF FInv, RateInv, cameraVars, Goto
<1>1. /\ pc = "choose" /\ pc' = "loop"
      /\ UNCHANGED <<range, list, limit, clk, rate, Available, fps, maxFPS, clkList, outcome, old>>
  BY DEF Choose, Available
<1>2. /\ clkList \in Seq(Nat) /\ Ascending(clkList) /\ Elements(clkList) = Available
      /\ Available \subseteq Nat /\ clk \in Nat
  BY <1>1, ClockTypes DEF TypeOK, ClocksFound, ClocksComplete
<1> DEFINE found == {i \in 1 .. Len(clkList) : clkList[i] > clk}
<1>3. clkOpts' \in Seq(Nat) /\ Ascending(clkOpts')
      /\ Elements(clkOpts') = {c \in Available : c > clk}
  <2>1. CASE found = {} /\ clkOpts' = <<>>
    <3>1. \A c \in Available : ~(c > clk)  BY <1>2, <2>1 DEF Elements
    <3>2. clkOpts' \in Seq(Nat) /\ Ascending(clkOpts')  BY <2>1 DEF Ascending
    <3>3. Elements(clkOpts') = {}  BY <2>1 DEF Elements
    <3> QED  BY <3>1, <3>2, <3>3
  <2>2. ASSUME NEW i \in found, \A j \in found : i <= j,
               clkOpts' = SubSeq(clkList, i, Len(clkList))
        PROVE  clkOpts' \in Seq(Nat) /\ Ascending(clkOpts')
               /\ Elements(clkOpts') = {c \in Available : c > clk}
    BY <1>2, <2>2, OptionsAbove
  <2> QED  BY <2>1, <2>2 DEF Choose, Greater
<1>4. TypeOK' /\ ClocksComplete' /\ NoOvershoot' /\ ClocksFound'
  BY <1>1, <1>3 DEF TypeOK, ClocksComplete, NoOvershoot, ClocksFound
<1>5. OptionsRight'  BY <1>1, <1>3 DEF OptionsRight
<1>6. RateKnown' /\ FallsShortOnlyIfMust'  BY <1>1 DEF RateKnown, FallsShortOnlyIfMust
<1> QED  BY <1>4, <1>5, <1>6

\* The next higher clock: nothing between it and the one before allows for the rate.
LEMMA SetPixelClockStep == ASSUME FInv, SetPixelClock PROVE FInv'
<1> USE DEF FInv, RateInv, cameraVars, Goto
<1>1. /\ pc = "loop" /\ pc' = "next_range" /\ maxFPS < fps /\ clkOpts # <<>> /\ clk' = Head(clkOpts)
      /\ UNCHANGED <<range, list, limit, rate, Available, fps, maxFPS, clkList, clkOpts, outcome, old>>
  BY DEF SetPixelClock, Suffices, Exhausted, TooSlow, Available
<1>2. /\ clkOpts \in Seq(Nat) /\ Ascending(clkOpts)
      /\ Elements(clkOpts) = {c \in Available : c > clk}
      /\ Available \subseteq Nat /\ clk \in Available /\ old \in Available /\ maxFPS = limit[clk]
  BY <1>1, ClockTypes DEF TypeOK, ClocksFound, OptionsRight, RateKnown
<1>3. clk' \in Available /\ clk' > clk /\ \A c \in Available : c > clk => clk' <= c
  BY <1>1, <1>2, TailOptions
<1>4. TypeOK' /\ ClocksFound'  BY <1>1, <1>3 DEF TypeOK, ClocksFound
<1>5. ClocksComplete' /\ RateKnown' /\ FallsShortOnlyIfMust'
  BY <1>1 DEF ClocksComplete, RateKnown, FallsShortOnlyIfMust
<1>6. NoOvershoot'
  <2>1. old <= clk'  BY <1>2, <1>3 DEF NoOvershoot
  <2>2. ASSUME NEW c \in Available, old <= c, c < clk' PROVE limit[c] < fps
    <3>1. c <= clk  BY <1>2, <1>3, <2>2
    <3>2. c = clk \/ c < clk  BY <1>2, <3>1
    <3> QED  BY <1>1, <1>2, <2>2, <3>2 DEF NoOvershoot
  <2> QED  BY <1>1, <2>1, <2>2 DEF NoOvershoot
<1>7. OptionsRight'
  <2>1. \A c \in Available : c > clk <=> c >= clk'  BY <1>2, <1>3
  <2>2. Elements(clkOpts) = {c \in Available : c >= clk'}  BY <1>2, <2>1
  <2> QED  BY <1>1, <1>2, <2>2 DEF OptionsRight
<1> QED  BY <1>4, <1>5, <1>6, <1>7

LEMMA GetNextRangeStep == ASSUME FInv, GetNextRange PROVE FInv'
<1> USE DEF FInv, RateInv, cameraVars, Goto
<1>1. /\ pc = "next_range" /\ pc' = "loop" /\ maxFPS' = limit[clk] /\ clkOpts' = Tail(clkOpts)
      /\ UNCHANGED <<range, list, limit, clk, rate, Available, fps, clkList, outcome, old>>
  BY DEF GetNextRange, Remaining, Available
<1>2. /\ clkOpts \in Seq(Nat) /\ clkOpts # <<>> /\ Ascending(clkOpts) /\ Head(clkOpts) = clk
      /\ Elements(clkOpts) = {c \in Available : c >= clk}
      /\ Available \subseteq Nat /\ clk \in Available /\ limit[clk] \in Nat
  BY <1>1, ClockTypes DEF TypeOK, ClocksFound, OptionsRight
<1>3. /\ clkOpts' \in Seq(Nat) /\ Ascending(clkOpts')
      /\ Elements(clkOpts') = {c \in Available : c > clk}
  <2>1. /\ clkOpts' \in Seq(Nat) /\ Ascending(clkOpts')
        /\ Elements(clkOpts') = {c \in Elements(clkOpts) : c > clk}
    BY <1>1, <1>2, TailOptions
  <2>2. \A c \in Available : c > clk => c >= clk  BY <1>2
  <2>3. Elements(clkOpts) \subseteq Available  BY <1>2
  <2>4. \A c \in Available : c > clk => c \in Elements(clkOpts)  BY <1>2, <2>2
  <2> QED  BY <2>1, <2>3, <2>4
<1>4. TypeOK' /\ ClocksFound'  BY <1>1, <1>2, <1>3 DEF TypeOK, ClocksFound
<1>5. ClocksComplete' /\ NoOvershoot' /\ RateKnown' /\ FallsShortOnlyIfMust'
  BY <1>1 DEF ClocksComplete, NoOvershoot, RateKnown, FallsShortOnlyIfMust
<1>6. OptionsRight'  BY <1>1, <1>3 DEF OptionsRight
<1> QED  BY <1>4, <1>5, <1>6

\* The loop ends: the clock suffices, or there is no higher one.
LEMMA LoopEndsStep == ASSUME FInv, LoopEnds PROVE FInv'
<1> USE DEF FInv, RateInv, cameraVars, Goto
<1>1. /\ pc = "loop" /\ pc' = "set_rate" /\ (~(maxFPS < fps) \/ clkOpts = <<>>)
      /\ UNCHANGED <<range, list, limit, clk, rate, Available, fps, maxFPS, clkList, clkOpts,
                     outcome, old>>
  BY DEF LoopEnds, Suffices, Exhausted, TooSlow, Available
<1>2. /\ Available \subseteq Nat /\ clk \in Available /\ old \in Available /\ fps \in Nat
      /\ maxFPS \in Nat /\ maxFPS = limit[clk]
  BY <1>1, ClockTypes, FrameRateAssumption
     DEF TypeOK, ClocksFound, RateKnown, FrameRateAssumption
<1>3. fps <= limit[clk] \/ \A c \in Available : old <= c => limit[c] < fps
  <2>1. CASE ~(maxFPS < fps)  BY <1>2, <2>1
  <2>2. CASE clkOpts = <<>> /\ maxFPS < fps
    <3>1. \A c \in Available : ~(c > clk)
      BY <1>1, <2>2 DEF OptionsRight, Elements
    <3>2. ASSUME NEW c \in Available, old <= c PROVE limit[c] < fps
      <4>1. c = clk \/ c < clk  BY <1>2, <3>1
      <4> QED  BY <1>2, <2>2, <3>2, <4>1 DEF NoOvershoot
    <3> QED  BY <3>2
  <2> QED  BY <1>1, <2>1, <2>2
<1>4. TypeOK' /\ ClocksComplete' /\ NoOvershoot' /\ ClocksFound' /\ OptionsRight'
  BY <1>1 DEF TypeOK, ClocksComplete, NoOvershoot, ClocksFound, OptionsRight
<1>5. RateKnown' /\ FallsShortOnlyIfMust'
  BY <1>1, <1>3 DEF RateKnown, FallsShortOnlyIfMust
<1> QED  BY <1>4, <1>5

LEMMA EndStep == ASSUME FInv, SetFrameRate \/ Fails PROVE FInv'
<1> USE DEF FInv, RateInv, cameraVars, Goto
<1>1. /\ pc' = "idle"
      /\ UNCHANGED <<range, list, limit, clk, Available, fps, maxFPS, clkList, clkOpts, old>>
  BY DEF SetFrameRate, Fails, Available
<1>2. limit[clk] \in Nat /\ fps \in Nat
  BY ClockTypes, FrameRateAssumption DEF TypeOK, ClocksFound, FrameRateAssumption
<1>3. TypeOK'  BY <1>1, <1>2 DEF SetFrameRate, Fails, TypeOK
<1>4. ClocksComplete' /\ NoOvershoot' /\ ClocksFound' /\ OptionsRight' /\ RateKnown'
  BY <1>1 DEF ClocksComplete, NoOvershoot, ClocksFound, OptionsRight, RateKnown
<1>5. FallsShortOnlyIfMust'
  <2>1. CASE Fails  BY <2>1 DEF Fails, FallsShortOnlyIfMust
  <2>2. CASE SetFrameRate
    <3>1. pc = "set_rate" /\ rate' = IF fps <= limit[clk] THEN fps ELSE limit[clk]
      BY <2>2 DEF SetFrameRate
    <3>2. rate' < fps => ~(fps <= limit[clk])  BY <1>2, <3>1
    <3> QED  BY <1>1, <3>1, <3>2 DEF FallsShortOnlyIfMust, RateKnown
  <2> QED  BY <2>1, <2>2
<1> QED  BY <1>3, <1>4, <1>5

LEMMA NextFInv == FInv /\ [Next]_vars => FInv'
<1> SUFFICES ASSUME FInv, [Next]_vars PROVE FInv'  OBVIOUS
<1>1. CASE UNCHANGED vars
  BY <1>1 DEF vars, cameraVars, FInv, RateInv, TypeOK, ClocksComplete, NoOvershoot, ClocksFound,
              OptionsRight, RateKnown, FallsShortOnlyIfMust, Available
<1> QED
  BY <1>1, QueryStep, ListStep, ChooseStep, SetPixelClockStep, GetNextRangeStep, LoopEndsStep,
     EndStep DEF Next, setFPS

THEOREM RateInvariance == Spec => []FInv
BY InitFInv, NextFInv, PTL DEF Spec

-------------------------------------------------------------------------------
(* The properties. *)

\* At every step of setFPS, a call that throws half-way included, the clock list is
\* complete and the pixel clock is the lowest that could do among those passed.
THEOREM LowestClock == Spec => []RateInv
<1>1. FInv => RateInv  BY DEF FInv
<1> QED  BY <1>1, RateInvariance, PTL

\* setFPS returns with less than the requested rate only if no clock of the camera,
\* from the one it had on, allows for it.
THEOREM BestRate == Spec => []FallsShortOnlyIfMust
<1>1. FInv => FallsShortOnlyIfMust  BY DEF FInv
<1> QED  BY <1>1, RateInvariance, PTL
================================================================================
