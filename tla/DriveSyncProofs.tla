-------------------------- MODULE DriveSyncProofs --------------------------
(***************************************************************************)
(* Drives of any number, speed and width of clock stay in step with the    *)
(* machine until something upsets them.                                    *)
(*                                                                         *)
(* The difficulty is that nothing in a drive says how far it should be: it *)
(* has a clock and a stop clock that are set back at different times, a    *)
(* fraction of a cycle, and the machine's clock when it was last looked at.*)
(* The invariant ties them together.  A drive that is not upset is ahead   *)
(* of the machine by what it has run past its stop clock, less the         *)
(* fraction and the machine's cycles it has not been told of; what is left *)
(* over, its slack, is the fraction it had when it was put in step, and    *)
(* never changes until the next time.                                      *)
(***************************************************************************)
EXTENDS DriveSync, NaturalFacts

DriveState ==
  [enable : BOOLEAN, idling : Methods, speed : Speeds, clk : Clock, last_clk : Clock,
   stop_clk : Clock, accum : 0..Scale-1, reset : BOOLEAN, lead : Int, upset : BOOLEAN]

Half == Mod \div 2

(* The cycles the drive has run past its stop clock.                       *)
Lag(x) == Signed(Minus(x.clk, x.stop_clk))

Slack(x, now) == x.lead + x.accum + Factor(x) * (now - x.last_clk) - Scale * Lag(x)

Tracks(x, now) ==
  /\ x.last_clk <= now
  /\ Lag(x) \in 0..ResetClk+MaxInstr-1
  /\ Slack(x, now) \in 0..Scale-1

InTrack(x, now) == x.enable /\ ~x.upset => Tracks(x, now)

(* The inductive invariant.  The machine's clock does not wrap: a frame    *)
(* begins with it below the limit and is short.                            *)
SyncInv ==
  /\ maincpu_clk \in Clock /\ frame \in 0..Frame /\ maincpu_clk - frame < MaxClk
  /\ drive \in [Drives -> DriveState]
  /\ \A d \in Drives : InTrack(drive[d], maincpu_clk)

-----------------------------------------------------------------------------
(* Facts about the constants.                                              *)
LEMMA Widths ==
  /\ Mod \in Nat \ {0} /\ SUB_MIN \in Nat \ {0} /\ Frame \in Nat \ {0} /\ Scale \in Nat \ {0}
  /\ Ratio \in Nat \ {0} /\ Chunk \in Nat \ {0} /\ AccumMod \in Nat \ {0} /\ MaxInstr \in Nat \ {0}
  /\ Idle \in Nat /\ Booted \in Nat /\ ResetClk \in Nat /\ N \in Nat
  /\ Speeds \subseteq Nat \ {0} /\ 1 \in Speeds
BY WidthAssumption

(* What the range of a clock says of the numbers that are compared with    *)
(* it.                                                                     *)
LEMMA Limits ==
  /\ Half \in Nat /\ 2 * Half <= Mod /\ Mod <= 2 * Half + 1
  /\ MaxClk \in Nat /\ OwnSub \in Nat /\ Frame <= OwnSub /\ OwnSub < MaxClk /\ MaxClk < Mod
  /\ MaxClk + Frame < Mod /\ ResetClk < MaxClk /\ ResetClk + MaxInstr <= Half
<1>1. Half \in Nat /\ 2 * Half <= Mod /\ Mod <= 2 * Half + 1
  BY Widths DEF Half
<1>2. Mod - 1 - SUB_MIN >= 3 * SUB_MIN /\ Frame <= SUB_MIN /\ ResetClk + SUB_MIN < Mod - 1
      /\ ResetClk + MaxInstr <= Half
  BY WidthAssumption, RangeAssumption DEF Half
<1> QED BY <1>1, <1>2, Widths DEF MaxClk, OwnSub

(* Whole frames are taken off the machine's clock, and at least one.       *)
LEMMA WholeFrames ==
  MainSub \in Nat /\ Frame <= MainSub /\ MainSub <= OwnSub
<1> DEFINE q == OwnSub \div Frame
           r == OwnSub % Frame
<1>1. q \in Int /\ r \in 0..Frame-1 /\ OwnSub = Frame * q + r
  BY Widths, Limits, Z3
<1>2. MainSub = q * Frame
  BY DEF MainSub
<1> HIDE DEF q, r
<1>3. q >= 1
  <2> SUFFICES ASSUME q <= 0 PROVE FALSE
    BY <1>1
  <2>1. Frame * q <= 0
    BY <1>1, Widths
  <2> QED BY <1>1, <2>1, Limits, Widths
<1>4. q * Frame >= Frame /\ q * Frame = Frame * q
  BY <1>1, <1>3, Widths
<1> QED BY <1>1, <1>2, <1>4, Limits, Widths

(* Unsigned addition of clocks, and when it does not wrap.                 *)
LEMMA PlusIs ==
  ASSUME NEW a \in Clock, NEW n \in 0..Mod
  PROVE  /\ Plus(a, n) \in Clock
         /\ a + n < Mod => Plus(a, n) = a + n
         /\ a + n >= Mod => Plus(a, n) = a + n - Mod
<1>1. CASE a + n < Mod
  BY <1>1, Widths, ModFacts DEF Plus, Clock
<1>2. CASE a + n >= Mod
  <2> DEFINE m == a + n - Mod
  <2>1. m \in Nat /\ m < Mod /\ a + n = m + Mod /\ Mod > 0
    BY <1>2, Widths DEF Clock
  <2> HIDE DEF m
  <2>2. m % Mod = m
    BY <2>1, Widths, ModFacts
  <2>3. (a + n) % Mod = m % Mod
    BY <2>1, Widths, ModAgain
  <2> QED BY <2>1, <2>2, <2>3, Widths DEF Plus, Clock, m
<1> QED BY <1>1, <1>2, Widths DEF Clock

(* Unsigned subtraction of clocks, and when it does not wrap.              *)
LEMMA MinusIs ==
  ASSUME NEW a \in Clock, NEW b \in Clock
  PROVE  /\ Minus(a, b) \in Clock
         /\ a >= b => Minus(a, b) = a - b
         /\ a < b => Minus(a, b) = a - b + Mod
<1> DEFINE x == a - b
<1>1. a \in Nat /\ b \in Nat /\ a < Mod /\ b < Mod /\ x \in Int
  BY Widths DEF Clock
<1>2. CASE a >= b
  <2>1. x \in 0..Mod-1 /\ x = Mod * 0 + x
    BY <1>1, <1>2, Widths
  <2> HIDE DEF x
  <2>2. x % Mod = x
    BY <2>1, Widths, ModUnique
  <2> QED BY <1>2, <2>1, <2>2, <1>1 DEF x, Minus, Clock
<1>3. CASE a < b
  <2>1. x + Mod \in 0..Mod-1 /\ x = Mod * (-1) + (x + Mod)
    BY <1>1, <1>3, Widths
  <2> HIDE DEF x
  <2>2. x % Mod = x + Mod
    BY <2>1, <1>1, Widths, ModUnique
  <2> QED BY <1>3, <2>1, <2>2, <1>1 DEF x, Minus, Clock
<1> QED BY <1>1, <1>2, <1>3

(* c is n after s, or before it, around the clock.                         *)
Apart(c, s, n) == c = s + n \/ c = s + n + Mod \/ c = s + n - Mod

(* The signed difference of two clocks is how far they are apart.          *)
LEMMA SignedIs ==
  ASSUME NEW c \in Clock, NEW s \in Clock
  PROVE  /\ Signed(Minus(c, s)) \in Int
         /\ Apart(c, s, Signed(Minus(c, s)))
         /\ \A n \in -Half..Half-1 : Apart(c, s, n) => Signed(Minus(c, s)) = n
<1>1. c \in Nat /\ s \in Nat /\ c < Mod /\ s < Mod /\ Mod \in Nat
  BY Widths DEF Clock
<1> DEFINE m == Minus(c, s)
<1>2. m \in Nat /\ m < Mod /\ (c >= s => m = c - s) /\ (c < s => m = c - s + Mod)
  BY MinusIs, Widths DEF Clock
<1> HIDE DEF m
<1>3. Signed(m) = IF m >= Half THEN m - Mod ELSE m
  BY DEF Signed, Half
<1>4. ASSUME NEW n \in -Half..Half-1, Apart(c, s, n)
      PROVE  Signed(m) = n
  BY <1>1, <1>2, <1>3, <1>4, Limits DEF Apart
<1> QED BY <1>1, <1>2, <1>3, <1>4, Limits DEF Apart, m

(* Two additions are one, wrapped or not.                                  *)
LEMMA PlusTwice ==
  ASSUME NEW s \in Clock, NEW a \in Nat, NEW b \in Nat
  PROVE  Plus(s, a) \in Clock /\ Plus(Plus(s, a), b) = Plus(s, a + b)
<1> DEFINE n == s + a
           q == n \div Mod
           r == n % Mod
           x == r + b
           p == x \div Mod
           t == x % Mod
<1>1. n \in Int /\ Mod \in Nat /\ Mod > 0
  BY Widths DEF Clock
<1>2. q \in Int /\ r \in 0..Mod-1 /\ n = Mod * q + r
  <2> HIDE DEF n
  <2> QED BY <1>1, Z3
<1> HIDE DEF q, r
<1>3. p \in Int /\ t \in 0..Mod-1 /\ x = Mod * p + t
  <2>1. x \in Int
    BY <1>1, <1>2
  <2> HIDE DEF x
  <2> QED BY <1>1, <2>1, Z3
<1> HIDE DEF p, t
<1>4. n + b = Mod * (p + q) + t
  BY <1>1, <1>2, <1>3, Z3
<1>5. (n + b) % Mod = t
  <2>1. n + b \in Int /\ p + q \in Int
    BY <1>1, <1>2, <1>3
  <2> QED BY <1>1, <1>3, <1>4, <2>1, ModUnique
<1>6. n + b = s + (a + b)
  BY <1>1 DEF Clock
<1> QED BY <1>1, <1>2, <1>3, <1>5, <1>6 DEF Plus, Clock, r, t

-----------------------------------------------------------------------------
(* The conversion of machine cycles.                                       *)
LEMMA FactorIs ==
  ASSUME NEW x \in DriveState
  PROVE  Factor(x) \in Nat /\ Scale + Factor(x) * Chunk <= AccumMod
<1>1. x.speed \in Speeds
  BY DEF DriveState
<1>2. Scale + (Ratio * x.speed) * Chunk <= AccumMod
  BY <1>1, RangeAssumption
<1>3. x.speed \in Nat /\ Ratio \in Nat
  BY <1>1, Widths
<1>4. Ratio * x.speed \in Nat
  BY <1>3
<1> QED BY <1>2, <1>4 DEF Factor

(* One chunk: nothing is cut off, and the sum is shared between the clock  *)
(* and the fraction.                                                       *)
LEMMA ChunkIs ==
  ASSUME NEW F \in Nat, Scale + F * Chunk <= AccumMod,
         NEW accum \in 0..Scale-1, NEW n \in 0..Chunk
  PROVE  LET sum == (accum + F * n) % AccumMod IN
         /\ sum \div Scale \in Nat /\ sum % Scale \in 0..Scale-1
         /\ Scale * (sum \div Scale) + (sum % Scale) = accum + F * n
<1> DEFINE sum == (accum + F * n) % AccumMod
<1>1. F * n \in Nat /\ F * n <= F * Chunk
  BY Widths
<1>2. F * Chunk \in Nat
  BY Widths
<1>3. accum + F * n \in Nat /\ accum + F * n < AccumMod /\ AccumMod > 0
  BY <1>1, <1>2, Widths
<1>4. sum = accum + F * n
  <2> DEFINE v == accum + F * n
  <2> HIDE DEF v
  <2>1. v \in Nat /\ v < AccumMod /\ AccumMod > 0
    BY <1>3 DEF v
  <2>2. v % AccumMod = v
    BY <2>1, Widths, ModFacts
  <2> QED BY <2>2 DEF v
<1> HIDE DEF sum
<1>5. sum \in Nat
  BY <1>3, <1>4
<1>6. sum \div Scale \in Nat /\ sum % Scale \in 0..Scale-1
      /\ Scale * (sum \div Scale) + (sum % Scale) = sum
  <2> DEFINE q == sum \div Scale
             r == sum % Scale
  <2>1. q \in Int /\ r \in 0..Scale-1 /\ sum = Scale * q + r
    BY <1>5, Widths, Z3
  <2> HIDE DEF q, r
  <2>2. q >= 0
    <3> SUFFICES ASSUME q <= -1 PROVE FALSE
      BY <2>1
    <3>1. Scale * q <= -Scale
      BY <2>1, Widths
    <3> QED BY <2>1, <3>1, <1>5, Widths
  <2> QED BY <2>1, <2>2 DEF q, r
<1> QED BY <1>4, <1>6 DEF sum

(* However many chunks there are, what the clock and the fraction have     *)
(* gained is what the cycles are worth.                                    *)
LEMMA ConvertedIs ==
  ASSUME NEW x \in DriveState, NEW cycles \in 0..Mod
  PROVE  \E a \in Nat, r \in 0..Scale-1 :
           /\ Converted(x, cycles) = [x EXCEPT !.stop_clk = Plus(x.stop_clk, a), !.accum = r]
           /\ Scale * a + r = x.accum + Factor(x) * cycles
<1> DEFINE F == Factor(x)
           V == [stop : Clock, accum : 0..Scale-1]
           Part(n) == IF n > Chunk THEN Chunk ELSE n
           Sum(before, n) == (before.accum + F * Part(n)) % AccumMod
           After(before, n) == [stop |-> Plus(before.stop, Sum(before, n) \div Scale),
                                accum |-> Sum(before, n) % Scale]
           Step(g, n) == IF n = 0 THEN [stop |-> x.stop_clk, accum |-> x.accum]
                         ELSE After(g[n - Part(n)], n)
           f == CHOOSE g : g = [n \in 0..Mod |-> Step(g, n)]
<1>1. Converted(x, cycles) = [x EXCEPT !.stop_clk = f[cycles].stop, !.accum = f[cycles].accum]
  BY DEF Converted
<1>2. F \in Nat /\ Scale + F * Chunk <= AccumMod /\ x.stop_clk \in Clock /\ x.accum \in 0..Scale-1
  BY FactorIs DEF DriveState
<1>3. \A n \in 1..Mod : Part(n) \in 0..Chunk /\ n - Part(n) \in 0..Mod /\ n - Part(n) < n
                        /\ n - Part(n) \in Nat /\ n \in Nat
  BY Widths
<1> HIDE DEF Part, F
<1>4. ASSUME NEW v \in V, NEW n \in 1..Mod
      PROVE  LET q == Sum(v, n) \div Scale IN
             /\ After(v, n) \in V
             /\ q \in Nat /\ After(v, n).stop = Plus(v.stop, q)
             /\ Scale * q + After(v, n).accum = v.accum + F * Part(n)
  <2>1. v.stop \in Clock /\ v.accum \in 0..Scale-1 /\ Part(n) \in 0..Chunk
    BY <1>3
  <2>2. /\ Sum(v, n) \div Scale \in Nat /\ Sum(v, n) % Scale \in 0..Scale-1
        /\ Scale * (Sum(v, n) \div Scale) + (Sum(v, n) % Scale) = v.accum + F * Part(n)
    BY <1>2, <2>1, ChunkIs
  <2> HIDE DEF Sum
  <2>3. Plus(v.stop, Sum(v, n) \div Scale) \in Clock
    BY <2>1, <2>2, PlusTwice
  <2> QED BY <2>2, <2>3
<1> HIDE DEF After
<1>5. \E g : g = [n \in 0..Mod |-> Step(g, n)]
  <2> DEFINE b == [stop |-> x.stop_clk, accum |-> x.accum]
             prev == [n \in 1..Mod |-> n - Part(n)]
             step == [y \in (1..Mod) \X V |-> After(y[2], y[1])]
  <2>1. prev \in [1..Mod -> Nat] /\ \A n \in 1..Mod : prev[n] < n /\ prev[n] = n - Part(n)
    BY <1>3
  <2>2. b \in V
    BY <1>2
  <2> HIDE DEF V
  <2>3. step \in [(1..Mod) \X V -> V]
    BY <1>4
  <2>4. PICK g \in [0..Mod -> V] : Computed(g, Mod, b, prev, step)
    <3> HIDE DEF step, prev, b
    <3> QED BY <2>1, <2>2, <2>3, Widths, Computable
  <2>5. ASSUME NEW n \in 1..Mod
        PROVE  g[n] = Step(g, n)
    <3>1. n - Part(n) \in 0..Mod /\ n # 0
      BY <1>3
    <3>2. <<n, g[n - Part(n)]>> \in (1..Mod) \X V
      BY <3>1, <2>4
    <3>3. g[n] = step[<<n, g[n - Part(n)]>>]
      <4> HIDE DEF step, prev
      <4> QED BY <2>1, <2>4 DEF Computed
    <3> QED BY <3>1, <3>2, <3>3
  <2>6. g[0] = Step(g, 0)
    BY <2>4 DEF Computed
  <2> HIDE DEF Step
  <2>7. \A n \in 0..Mod : g[n] = Step(g, n)
    <3>1. \A n \in 0..Mod : n = 0 \/ n \in 1..Mod
      BY Widths
    <3> QED BY <2>5, <2>6, <3>1
  <2>8. g = [n \in 0..Mod |-> Step(g, n)]
    BY <2>4, <2>7
  <2> QED BY <2>8
<1>6. f = [n \in 0..Mod |-> Step(f, n)]
  <2> HIDE DEF Step
  <2> QED BY <1>5
<1>7. \A n \in 0..Mod : f[n] = Step(f, n)
  <2> HIDE DEF f, Step
  <2> QED BY <1>6
<1> HIDE DEF f
<1>8. f[0] = [stop |-> x.stop_clk, accum |-> x.accum]
  <2>1. f[0] = Step(f, 0)
    <3> HIDE DEF Step
    <3> QED BY <1>7, Widths
  <2> QED BY <2>1
<1>9. ASSUME NEW n \in 1..Mod
      PROVE  f[n] = After(f[n - Part(n)], n)
  <2>1. f[n] = Step(f, n) /\ n # 0
    <3> HIDE DEF Step
    <3> QED BY <1>7, Widths
  <2> QED BY <2>1
<1> HIDE DEF Step
<1> DEFINE Worth(n) == /\ f[n] \in V
                       /\ \E a \in Nat : /\ f[n].stop = Plus(x.stop_clk, a)
                                         /\ Scale * a + f[n].accum = x.accum + F * n
           T == {n \in 0..Mod : Worth(n)}
<1>10. ASSUME NEW n \in 0..Mod, \A k \in 0..n-1 : k \in T
       PROVE  n \in T
  <2>1. CASE n = 0
    <3>1. f[n].stop = x.stop_clk /\ f[n].accum = x.accum /\ f[n] \in V
      BY <1>2, <1>8, <2>1
    <3>2. Plus(x.stop_clk, 0) = x.stop_clk
      <4>1. x.stop_clk + 0 < Mod /\ 0 \in 0..Mod
        BY <1>2, Widths DEF Clock
      <4>2. x.stop_clk + 0 = x.stop_clk
        BY <1>2, Widths DEF Clock
      <4> QED BY <1>2, <4>1, <4>2, PlusIs
    <3>3. Scale * 0 + x.accum = x.accum + F * n
      BY <1>2, <2>1, Widths
    <3> QED BY <3>1, <3>2, <3>3
  <2>2. CASE n > 0
    <3> DEFINE k == n - Part(n)
               v == f[k]
               q == Sum(v, n) \div Scale
    <3>1. n \in 1..Mod /\ k \in 0..n-1 /\ Part(n) \in 0..Chunk
      BY <2>2, <1>3
    <3>2. Worth(k)
      BY <1>10, <3>1
    <3>3. PICK a \in Nat : v.stop = Plus(x.stop_clk, a) /\ Scale * a + v.accum = x.accum + F * k
      BY <3>2
    <3>4. f[n] = After(v, n)
      BY <1>9, <3>1
    <3>5. /\ f[n] \in V /\ q \in Nat /\ f[n].stop = Plus(v.stop, q)
          /\ Scale * q + f[n].accum = v.accum + F * Part(n)
      BY <1>4, <3>1, <3>2, <3>4
    <3>6. f[n].stop = Plus(x.stop_clk, a + q)
      <4> HIDE DEF v, q
      <4>1. Plus(Plus(x.stop_clk, a), q) = Plus(x.stop_clk, a + q)
        BY <1>2, <3>5, PlusTwice
      <4> QED BY <3>3, <3>5, <4>1
    <3>7. Scale * (a + q) + f[n].accum = x.accum + F * n
      <4>1. F * k + F * Part(n) = F * n
        <5>1. k + Part(n) = n
          BY <3>1, Widths
        <5>2. k \in Nat /\ Part(n) \in Nat
          BY <3>1, Widths
        <5> HIDE DEF k
        <5>3. F * (k + Part(n)) = F * k + F * Part(n)
          BY <1>2, <5>2
        <5> QED BY <5>1, <5>3
      <4>2. v.accum \in Nat /\ f[n].accum \in Nat /\ x.accum \in Nat
        BY <3>2, <3>5, <1>2, Widths
      <4>3. F * k \in Nat /\ F * Part(n) \in Nat
        BY <3>1, <1>2, Widths
      <4>4. Scale * (a + q) = Scale * a + Scale * q /\ Scale * a \in Nat /\ Scale * q \in Nat
        <5> HIDE DEF q
        <5> QED BY <3>5, Widths
      <4> HIDE DEF v, q, k
      <4> QED BY <3>3, <3>5, <4>1, <4>2, <4>3, <4>4
    <3>8. a + q \in Nat
      <4> HIDE DEF q
      <4> QED BY <3>5
    <3> HIDE DEF q
    <3> QED BY <3>5, <3>6, <3>7, <3>8
  <2> QED BY <2>1, <2>2
<1>11. cycles \in T
  <2> HIDE DEF T
  <2>1. \A n \in 0..Mod : n \in T
    BY <1>10, Widths, UpTo
  <2> QED BY <2>1
<1>12. PICK a \in Nat : /\ f[cycles].stop = Plus(x.stop_clk, a)
                        /\ Scale * a + f[cycles].accum = x.accum + F * cycles
  BY <1>11
<1>13. f[cycles].accum \in 0..Scale-1
  BY <1>11
<1> QED BY <1>1, <1>12, <1>13 DEF F
-----------------------------------------------------------------------------
(* One drive.                                                              *)
LEMMA LagIs ==
  ASSUME NEW x \in DriveState
  PROVE  /\ Lag(x) \in Int /\ Apart(x.clk, x.stop_clk, Lag(x))
         /\ \A n \in -Half..Half-1 : Apart(x.clk, x.stop_clk, n) => Lag(x) = n
<1>1. x.clk \in Clock /\ x.stop_clk \in Clock
  BY DEF DriveState
<1> QED BY <1>1, SignedIs DEF Lag

(* A drive's record keeps its type when one field gets a value of its own  *)
(* type.                                                                   *)
LEMMA Kept ==
  ASSUME NEW x \in DriveState
  PROVE  /\ \A c \in Clock : /\ [x EXCEPT !.clk = c] \in DriveState
                             /\ [x EXCEPT !.last_clk = c] \in DriveState
                             /\ [x EXCEPT !.stop_clk = c] \in DriveState
         /\ \A r \in 0..Scale-1 : [x EXCEPT !.accum = r] \in DriveState
         /\ \A l \in Int : [x EXCEPT !.lead = l] \in DriveState
         /\ \A s \in Speeds : [x EXCEPT !.speed = s] \in DriveState
         /\ \A m \in Methods : [x EXCEPT !.idling = m] \in DriveState
         /\ \A b \in BOOLEAN : /\ [x EXCEPT !.upset = b] \in DriveState
                               /\ [x EXCEPT !.reset = b] \in DriveState
                               /\ [x EXCEPT !.enable = b] \in DriveState
BY DEF DriveState

(* A drive that is brought to its stop clock at `now' is in step.          *)
LEMMA ResyncIs ==
  ASSUME NEW x \in DriveState, NEW now \in Clock, x.last_clk = now, x.clk = x.stop_clk
  PROVE  Resync(x) \in DriveState /\ InTrack(Resync(x), now)
<1> DEFINE y == Resync(x)
<1>1. y \in DriveState /\ y.last_clk = now /\ y.clk = y.stop_clk /\ y.lead = 0
  <2>1. [x EXCEPT !.lead = 0] \in DriveState
    BY Kept
  <2>2. [[x EXCEPT !.lead = 0] EXCEPT !.upset = FALSE] \in DriveState
    BY <2>1, Kept
  <2> QED BY <2>2 DEF Resync, DriveState
<1> HIDE DEF y
<1>2. now \in Nat /\ y.clk \in Clock /\ y.stop_clk \in Clock /\ y.accum \in 0..Scale-1
  BY <1>1, Widths DEF DriveState, Clock
<1>3. Lag(y) = 0
  <2>1. Apart(y.clk, y.stop_clk, 0)
    BY <1>1, <1>2, Widths DEF Apart, Clock
  <2>2. 0 \in -Half..Half-1
    BY Limits, Widths
  <2> QED BY <1>1, <2>1, <2>2, LagIs
<1>4. Slack(y, now) = y.accum
  <2>1. Factor(y) * (now - y.last_clk) = 0 /\ Scale * Lag(y) = 0
    BY <1>1, <1>2, <1>3, FactorIs, Widths
  <2> QED BY <1>1, <1>2, <2>1, Widths DEF Slack
<1> QED BY <1>1, <1>2, <1>3, <1>4, Widths DEF InTrack, Tracks, y

(* Waking up: the cycles slept are made good.                              *)
LEMMA WakeUpIs ==
  ASSUME NEW x \in DriveState, NEW main \in Clock
  PROVE  LET y == drivecpu_wake_up(x, main) IN
         /\ y \in DriveState
         /\ y.enable = x.enable /\ y.upset = x.upset /\ y.speed = x.speed
         /\ y.clk = x.clk /\ y.stop_clk = x.stop_clk /\ y.accum = x.accum
         /\ y.last_clk \in {x.last_clk, main}
         /\ ~x.upset /\ x.last_clk <= main =>
              y.lead + Factor(x) * (main - y.last_clk) = x.lead + Factor(x) * (main - x.last_clk)
<1> DEFINE slept == Minus(main, x.last_clk)
           F == Factor(x)
           y == [Ahead(x, F * slept) EXCEPT !.last_clk = main]
<1>1. x.last_clk \in Clock /\ x.lead \in Int /\ x.upset \in BOOLEAN
  BY DEF DriveState
<1>2. slept \in Nat /\ (x.last_clk <= main => slept = main - x.last_clk) /\ F \in Nat
      /\ main \in Nat /\ x.last_clk \in Nat
  <2>1. main \in Nat /\ x.last_clk \in Nat
    BY <1>1, Widths DEF Clock
  <2>2. slept \in Clock /\ (main >= x.last_clk => slept = main - x.last_clk)
    BY <1>1, MinusIs
  <2>3. slept \in Nat
    BY <2>2, Widths DEF Clock
  <2> HIDE DEF slept, F
  <2>4. x.last_clk <= main => slept = main - x.last_clk
    BY <2>1, <2>2
  <2> QED BY <2>1, <2>3, <2>4, FactorIs DEF F
<1>3. CASE slept > Idle /\ x.clk > Booted
  <2>1. drivecpu_wake_up(x, main) = y
    BY <1>3 DEF drivecpu_wake_up
  <2>2. F * slept \in Nat
    BY <1>2
  <2> HIDE DEF slept, F
  <2>3. y \in DriveState
    <3>1. x.lead + F * slept \in Int
      BY <1>1, <2>2
    <3>2. Ahead(x, F * slept) \in DriveState
      BY <3>1, Kept DEF Ahead
    <3> QED BY <3>2, Kept
  <2>4. /\ y.enable = x.enable /\ y.upset = x.upset /\ y.speed = x.speed
        /\ y.clk = x.clk /\ y.stop_clk = x.stop_clk /\ y.accum = x.accum
        /\ y.last_clk = main
        /\ ~x.upset => y.lead = x.lead + F * slept
    BY DEF Ahead, DriveState
  <2> HIDE DEF y
  <2>5. ASSUME ~x.upset, x.last_clk <= main
        PROVE  y.lead + F * (main - y.last_clk) = x.lead + F * (main - x.last_clk)
    <3>1. F * (main - y.last_clk) = 0
      BY <1>2, <2>4
    <3> QED BY <1>1, <1>2, <2>2, <2>4, <2>5, <3>1
  <2> QED BY <2>1, <2>3, <2>4, <2>5 DEF F
<1>4. CASE ~(slept > Idle /\ x.clk > Booted)
  BY <1>4 DEF drivecpu_wake_up
<1> QED BY <1>3, <1>4

(* The CPU runs: when the stop clock is ahead it comes to lie at most an   *)
(* instruction behind, or the cycles of a reset and one.                   *)
LEMMA RanIs ==
  ASSUME NEW x \in DriveState, NEW r \in Ran(x)
  PROVE  /\ r \in DriveState
         /\ r.enable = x.enable /\ r.last_clk = x.last_clk /\ r.accum = x.accum
         /\ x.upset => r.upset
         /\ ~r.upset /\ Lag(x) \in -Half..ResetClk+MaxInstr-1 =>
              /\ Lag(r) \in 0..ResetClk+MaxInstr-1
              /\ r.lead = x.lead + Scale * (Lag(r) - Lag(x))
<1> DEFINE from == IF x.reset THEN ResetClk ELSE x.clk
           start == IF x.reset /\ x.clk # 0 THEN ResetClk ELSE x.clk
           ends == IF Behind(from, x.stop_clk) THEN {Plus(x.stop_clk, late) : late \in 0..MaxInstr-1}
                                               ELSE {Plus(from, n) : n \in 1..MaxInstr}
<1>1. Behind(x.clk, x.stop_clk) <=> Lag(x) < 0
  BY DEF Behind, Lag
<1>2. CASE ~Behind(x.clk, x.stop_clk)
  <2>1. r = x
    BY <1>2 DEF Ran
  <2>2. x.lead = x.lead + Scale * (Lag(x) - Lag(x))
    BY LagIs, Widths DEF DriveState
  <2> QED BY <1>1, <1>2, <2>1, <2>2, LagIs, Limits, Widths
<1>3. CASE Behind(x.clk, x.stop_clk)
  <2>1. PICK clk \in ends, s \in Speeds : r = RunTo(x, clk, s)
    BY <1>3 DEF Ran
  <2>2. x.clk \in Clock /\ x.stop_clk \in Clock /\ x.lead \in Int /\ x.reset \in BOOLEAN
        /\ x.upset \in BOOLEAN /\ 0 \in Clock /\ ResetClk \in Clock
    BY Widths, Limits DEF DriveState, Clock
  <2>3. from \in Clock /\ start \in Clock
    BY <2>2
  <2>4. clk \in Clock /\ MaxInstr <= Mod /\ \A n \in 0..MaxInstr : n \in 0..Mod
    <3>1. MaxInstr <= Mod /\ \A n \in 0..MaxInstr : n \in 0..Mod
      BY Limits, Widths
    <3> HIDE DEF from
    <3>2. ends \subseteq Clock
      <4>1. \A n \in 0..MaxInstr : Plus(from, n) \in Clock /\ Plus(x.stop_clk, n) \in Clock
        BY <2>2, <2>3, <3>1, PlusIs
      <4>2. \A n : (n \in 0..MaxInstr-1 \/ n \in 1..MaxInstr) => n \in 0..MaxInstr
        BY Widths
      <4> QED BY <4>1, <4>2
    <3> QED BY <2>1, <3>1, <3>2
  <2>5. Minus(clk, start) \in Clock
    <3> HIDE DEF from, start
    <3> QED BY <2>3, <2>4, MinusIs
  <2>6. Scale * Minus(clk, start) \in Int
    BY <2>5, Widths DEF Clock
  <2>7. /\ r \in DriveState
        /\ r.enable = x.enable /\ r.last_clk = x.last_clk /\ r.accum = x.accum
        /\ r.clk = clk /\ r.stop_clk = x.stop_clk
        /\ r.upset = (x.upset \/ (x.reset /\ x.clk # 0))
        /\ ~x.upset => r.lead = x.lead + Scale * Minus(clk, start)
    <3> DEFINE y == Ahead(x, Scale * Minus(clk, start))
               u == y.upset \/ (x.reset /\ x.clk # 0)
    <3> HIDE DEF start, ends, from
    <3>1. x.lead + Scale * Minus(clk, start) \in Int
      BY <2>2, <2>6
    <3>2. y \in DriveState
      BY <3>1, Kept DEF Ahead
    <3>3. r = [[[[y EXCEPT !.clk = clk] EXCEPT !.reset = FALSE] EXCEPT !.speed = s] EXCEPT !.upset = u]
      BY <2>1 DEF RunTo, start
    <3>4. /\ y.enable = x.enable /\ y.last_clk = x.last_clk /\ y.accum = x.accum
          /\ y.stop_clk = x.stop_clk /\ y.upset = x.upset
          /\ ~x.upset => y.lead = x.lead + Scale * Minus(clk, start)
      BY DEF Ahead, DriveState
    <3>5. u \in BOOLEAN /\ u = (x.upset \/ (x.reset /\ x.clk # 0))
      BY <2>2, <3>4
    <3> HIDE DEF y, u
    <3>6. [y EXCEPT !.clk = clk] \in DriveState
      BY <2>4, <3>2, Kept
    <3>7. [[y EXCEPT !.clk = clk] EXCEPT !.reset = FALSE] \in DriveState
      BY <3>6, Kept
    <3>8. [[[y EXCEPT !.clk = clk] EXCEPT !.reset = FALSE] EXCEPT !.speed = s] \in DriveState
      BY <3>7, Kept
    <3>9. r \in DriveState
      BY <3>3, <3>5, <3>8, Kept
    <3>10. /\ r.enable = y.enable /\ r.last_clk = y.last_clk /\ r.accum = y.accum
           /\ r.stop_clk = y.stop_clk /\ r.lead = y.lead /\ r.clk = clk /\ r.upset = u
      BY <3>2, <3>3 DEF DriveState
    <3> QED BY <3>4, <3>5, <3>9, <3>10
  <2>8. ASSUME ~r.upset, Lag(x) \in -Half..ResetClk+MaxInstr-1
        PROVE  /\ Lag(r) \in 0..ResetClk+MaxInstr-1
               /\ Minus(clk, start) = Lag(r) - Lag(x)
    <3>1. ~x.upset /\ (x.reset => x.clk = 0)
      BY <2>7, <2>8
    <3>2. start = x.clk
      BY <3>1
    <3>3. Lag(x) \in -Half..-1 /\ Apart(x.clk, x.stop_clk, Lag(x))
      BY <1>1, <1>3, <2>8, LagIs, Limits, Widths
    <3>4. \E m \in 0..ResetClk+MaxInstr-1 : Apart(clk, x.stop_clk, m) /\ Minus(clk, x.clk) = m - Lag(x)
      <4>1. CASE Behind(from, x.stop_clk)
        <5>1. PICK late \in 0..MaxInstr-1 : clk = Plus(x.stop_clk, late)
          BY <2>1, <4>1
        <5>2. late \in 0..Mod
          BY <2>4, Widths
        <5>3. clk = IF x.stop_clk + late < Mod THEN x.stop_clk + late ELSE x.stop_clk + late - Mod
          BY <5>1, <5>2, <2>2, PlusIs, Widths DEF Clock
        <5>4. Apart(clk, x.stop_clk, late)
          BY <5>3, <2>2, Widths DEF Apart, Clock
        <5>5. late - Lag(x) \in 0..Mod-1
          BY <3>3, Limits, Widths
        <5>6. Minus(clk, x.clk) = late - Lag(x)
          <6>1. clk \in Nat /\ x.clk \in Nat /\ x.stop_clk \in Nat /\ clk < Mod /\ x.clk < Mod
                /\ x.stop_clk < Mod
            BY <2>2, <2>4, Widths DEF Clock
          <6>2. Minus(clk, x.clk) = IF clk >= x.clk THEN clk - x.clk ELSE clk - x.clk + Mod
            BY <2>2, <2>4, <6>1, MinusIs
          <6> QED BY <6>1, <6>2, <5>3, <5>5, <3>3, Limits, Widths DEF Apart
        <5>7. late \in 0..ResetClk+MaxInstr-1
          BY Widths
        <5> QED BY <5>4, <5>6, <5>7
      <4>2. CASE ~Behind(from, x.stop_clk)
        <5>1. x.reset /\ x.clk = 0 /\ from = ResetClk
          BY <1>3, <3>1, <4>2, <2>2
        <5>2. PICK n \in 1..MaxInstr : clk = Plus(ResetClk, n)
          BY <2>1, <4>2, <5>1
        <5>3. clk = ResetClk + n
          <6>1. ResetClk + n < Mod /\ n \in 0..Mod
            BY <2>4, Limits, Widths
          <6> QED BY <5>2, <6>1, <2>2, PlusIs
        <5>4. Minus(clk, x.clk) = ResetClk + n
          <6>1. ResetClk + n >= 0
            BY Widths
          <6>2. Minus(clk, 0) = clk - 0
            BY <5>3, <6>1, <2>2, <2>4, MinusIs
          <6> QED BY <5>1, <5>3, <6>2, Widths
        <5>5. x.stop_clk = 0 - Lag(x)
          BY <3>3, <5>1, <2>2, Limits, Widths DEF Apart, Clock
        <5>6. x.stop_clk <= ResetClk
          <6> SUFFICES ASSUME x.stop_clk > ResetClk
                       PROVE  Behind(ResetClk, x.stop_clk)
            BY <4>2, <5>1, <2>2, Widths DEF Clock
          <6> DEFINE l == ResetClk - x.stop_clk
          <6>1. l \in -Half..Half-1 /\ Apart(ResetClk, x.stop_clk, l) /\ l < 0
            BY <3>3, <5>5, <2>2, Limits, Widths DEF Apart, Clock
          <6> HIDE DEF l
          <6>2. Signed(Minus(ResetClk, x.stop_clk)) = l
            BY <6>1, <2>2, SignedIs
          <6> QED BY <6>1, <6>2 DEF Behind
        <5> DEFINE m == ResetClk + n - x.stop_clk
        <5>7. m \in 0..ResetClk+MaxInstr-1 /\ Apart(clk, x.stop_clk, m) /\ ResetClk + n = m - Lag(x)
          BY <5>3, <5>5, <5>6, <3>3, <2>2, Limits, Widths DEF Apart, Clock
        <5> HIDE DEF m
        <5> QED BY <5>4, <5>7
      <4> QED BY <4>1, <4>2
    <3>5. PICK m \in 0..ResetClk+MaxInstr-1 : Apart(clk, x.stop_clk, m) /\ Minus(clk, x.clk) = m - Lag(x)
      BY <3>4
    <3>6. m \in -Half..Half-1
      BY Limits, Widths
    <3>7. Lag(r) = m
      BY <2>7, <3>5, <3>6, LagIs
    <3> QED BY <3>2, <3>5, <3>7
  <2>9. ASSUME ~r.upset, Lag(x) \in -Half..ResetClk+MaxInstr-1
        PROVE  r.lead = x.lead + Scale * (Lag(r) - Lag(x))
    BY <1>1, <1>3, <2>7, <2>8, <2>9, LagIs, Widths
  <2> QED BY <2>7, <2>8, <2>9
<1> QED BY <1>2, <1>3

(* A drive is brought up to clk_value: now, or the end of this cycle.  It  *)
(* stays in step.                                                          *)
LEMMA ExecuteIs ==
  ASSUME NEW x \in DriveState, NEW main \in Clock, NEW clk_value \in Clock,
         NEW r \in drivecpu_execute(x, main, clk_value)
  PROVE  /\ r \in DriveState
         /\ r.enable = x.enable /\ r.last_clk = clk_value
         /\ x.upset => r.upset
         /\ x.last_clk <= main /\ main <= clk_value /\ Tracks(x, clk_value) /\ ~r.upset =>
              Tracks(r, clk_value)
<1> DEFINE awake == drivecpu_wake_up(x, main)
           cycles == IF clk_value > awake.last_clk THEN clk_value - awake.last_clk ELSE 0
           overlong == Factor(x) * cycles >= Scale * (Mod \div 2)
           told == Converted(awake, cycles)
           marked == IF overlong THEN Upset(told) ELSE told
<1>1. PICK s \in Ran(marked) : r = [s EXCEPT !.last_clk = clk_value]
  BY DEF drivecpu_execute
<1>2. /\ awake \in DriveState
      /\ awake.enable = x.enable /\ awake.upset = x.upset /\ awake.speed = x.speed
      /\ awake.clk = x.clk /\ awake.stop_clk = x.stop_clk /\ awake.accum = x.accum
      /\ awake.last_clk \in {x.last_clk, main}
      /\ ~x.upset /\ x.last_clk <= main =>
           awake.lead + Factor(x) * (main - awake.last_clk) = x.lead + Factor(x) * (main - x.last_clk)
  BY WakeUpIs
<1> HIDE DEF awake
<1>3. cycles \in 0..Mod /\ cycles \in Nat
  BY <1>2, Widths DEF DriveState, Clock
<1>4. Factor(awake) = Factor(x) /\ Factor(x) \in Nat
  BY <1>2, FactorIs DEF Factor
<1> HIDE DEF cycles
<1>5. PICK a \in Nat, q \in 0..Scale-1 :
        /\ told = [awake EXCEPT !.stop_clk = Plus(awake.stop_clk, a), !.accum = q]
        /\ Scale * a + q = awake.accum + Factor(awake) * cycles
  BY <1>2, <1>3, ConvertedIs
<1>6. Plus(awake.stop_clk, a) \in Clock
  BY <1>2, PlusTwice DEF DriveState
<1> HIDE DEF told, overlong
<1>7. /\ told \in DriveState
      /\ told.enable = x.enable /\ told.upset = x.upset /\ told.clk = x.clk
      /\ told.stop_clk = Plus(x.stop_clk, a) /\ told.accum = q
      /\ told.lead = awake.lead /\ told.last_clk = awake.last_clk
  <2>1. told = [[awake EXCEPT !.stop_clk = Plus(awake.stop_clk, a)] EXCEPT !.accum = q]
    BY <1>5
  <2>2. [awake EXCEPT !.stop_clk = Plus(awake.stop_clk, a)] \in DriveState
    BY <1>2, <1>6, Kept
  <2>3. told \in DriveState
    BY <2>1, <2>2, Kept
  <2> QED BY <1>2, <1>5, <2>3 DEF DriveState
<1>8. /\ marked \in DriveState /\ marked.enable = x.enable
      /\ x.upset => marked.upset
      /\ ~marked.upset => marked = told /\ ~overlong /\ ~x.upset
  <2>1. Upset(told) \in DriveState
    BY <1>7, Kept DEF Upset
  <2>2. Upset(told).upset /\ Upset(told).enable = told.enable
    BY <1>7 DEF Upset, DriveState
  <2> QED BY <1>7, <2>1, <2>2
<1> HIDE DEF marked
<1>9. /\ s \in DriveState
      /\ s.enable = marked.enable /\ s.accum = marked.accum
      /\ marked.upset => s.upset
      /\ ~s.upset /\ Lag(marked) \in -Half..ResetClk+MaxInstr-1 =>
           /\ Lag(s) \in 0..ResetClk+MaxInstr-1
           /\ s.lead = marked.lead + Scale * (Lag(s) - Lag(marked))
  BY <1>8, RanIs
<1>10. r \in DriveState /\ r.last_clk = clk_value
       /\ r.enable = s.enable /\ r.upset = s.upset /\ r.accum = s.accum /\ r.lead = s.lead
       /\ r.clk = s.clk /\ r.stop_clk = s.stop_clk
  <2>1. r \in DriveState
    BY <1>1, <1>9, Kept
  <2> QED BY <1>1, <1>9, <2>1 DEF DriveState
<1>11. ASSUME x.last_clk <= main, main <= clk_value, Tracks(x, clk_value), ~r.upset
       PROVE  Tracks(r, clk_value)
  <2> DEFINE F == Factor(x)
             L == Lag(x)
  <2>1. /\ x.last_clk <= main /\ L \in 0..ResetClk+MaxInstr-1
        /\ x.lead + x.accum + F * (clk_value - x.last_clk) - Scale * L \in 0..Scale-1
    BY <1>11 DEF Tracks, Slack
  <2>2. ~marked.upset /\ marked = told /\ ~overlong /\ ~x.upset
    BY <1>8, <1>9, <1>10, <1>11
  <2>3. cycles = clk_value - awake.last_clk
    BY <1>2, <1>11, <2>1, Widths DEF cycles, Clock, DriveState
  <2>4. F * cycles \in Nat /\ Scale * Half \in Nat /\ F * cycles < Scale * Half
    <3>1. F * cycles \in Nat /\ Scale * Half \in Nat
      BY <1>3, <1>4, Limits, Widths
    <3> QED BY <2>2, <3>1 DEF overlong, Half
  <2>5. awake.accum \in 0..Scale-1 /\ awake.lead \in Int /\ x.lead \in Int /\ x.accum \in 0..Scale-1
    BY <1>2 DEF DriveState
  <2>6. a <= Half
    <3> SUFFICES ASSUME a >= Half + 1 PROVE FALSE
      BY Limits
    <3>1. Scale * a >= Scale * Half + Scale
      BY Limits, Widths
    <3>2. Scale * a \in Nat
      BY Widths
    <3> QED BY <1>4, <1>5, <2>4, <2>5, <3>1, <3>2, Widths
  <2>7. Lag(told) = L - a
    <3>1. x.clk \in Clock /\ x.stop_clk \in Clock
      BY DEF DriveState
    <3>2. a \in 0..Mod
      BY <2>6, Limits, Widths
    <3>3. Plus(x.stop_clk, a) \in {x.stop_clk + a, x.stop_clk + a - Mod} /\ Plus(x.stop_clk, a) \in Clock
      <4>1. x.stop_clk + a < Mod \/ x.stop_clk + a >= Mod
        BY <3>1, Widths DEF Clock
      <4> QED BY <3>1, <3>2, <4>1, PlusIs
    <3>4. L \in Int /\ (x.clk = x.stop_clk + L \/ x.clk = x.stop_clk + L + Mod \/ x.clk = x.stop_clk + L - Mod)
      BY LagIs DEF Apart
    <3>5. L - a \in -Half..Half-1
      BY <2>1, <2>6, Limits, Widths
    <3> HIDE DEF L
    <3>6. Apart(x.clk, Plus(x.stop_clk, a), L - a)
      BY <3>1, <3>3, <3>4, <3>5, <2>1, <2>6, Limits, Widths DEF Apart, Clock
    <3> QED BY <1>7, <3>5, <3>6, LagIs
  <2>8. Lag(told) \in -Half..ResetClk+MaxInstr-1
    BY <2>1, <2>6, <2>7, Limits, Widths
  <2>9. Lag(s) \in 0..ResetClk+MaxInstr-1 /\ s.lead = told.lead + Scale * (Lag(s) - (L - a))
    BY <1>9, <1>10, <1>11, <2>2, <2>7, <2>8
  <2>10. Lag(r) = Lag(s)
    BY <1>10 DEF Lag
  <2>11. Slack(r, clk_value) = x.lead + x.accum + F * (clk_value - x.last_clk) - Scale * L
    <3> DEFINE m == Lag(s)
    <3>1. Slack(r, clk_value) = s.lead + q - Scale * m
      <4>1. Factor(r) * (clk_value - r.last_clk) = 0
        <5>1. clk_value - r.last_clk = 0
          BY <1>10, <1>11, Widths DEF Clock
        <5> QED BY <1>10, <5>1, FactorIs
      <4>2. r.lead = s.lead /\ r.accum = q /\ s.lead \in Int /\ q \in Nat
        BY <1>7, <1>9, <1>10, <2>2, Widths DEF DriveState
      <4>3. Scale * m \in Int
        BY <2>9, Widths
      <4> HIDE DEF m
      <4> QED BY <2>10, <4>1, <4>2, <4>3 DEF Slack, m
    <3>2. m \in Nat /\ L \in Int
      BY <2>1, <2>9, LagIs
    <3> HIDE DEF m, L
    <3>3. Scale * (m - (L - a)) = Scale * m - Scale * L + Scale * a
      BY <3>2, Widths
    <3>4. Scale * m \in Int /\ Scale * L \in Int /\ Scale * a \in Int
      BY <3>2, Widths
    <3>5. s.lead = awake.lead + (Scale * m - Scale * L + Scale * a)
      BY <1>7, <2>9, <3>3 DEF m
    <3>6. Scale * a + q = x.accum + F * cycles
      BY <1>2, <1>4, <1>5
    <3>7. awake.lead + F * cycles = x.lead + F * (clk_value - x.last_clk)
      <4> DEFINE w == awake.last_clk
                 u == x.last_clk
                 e == clk_value - main
      <4>1. w \in Nat /\ u \in Nat /\ main \in Nat /\ clk_value \in Nat /\ e \in Int
        BY <1>2, Widths DEF DriveState, Clock
      <4>2. awake.lead + F * (main - w) = x.lead + F * (main - u)
        BY <1>2, <2>1, <2>2
      <4>3. clk_value - w = (main - w) + e /\ clk_value - u = (main - u) + e
        BY <4>1
      <4>4. F \in Nat
        BY <1>4
      <4> HIDE DEF F, w, u, e
      <4>5. main - w \in Int /\ main - u \in Int
        BY <4>1
      <4>6. F * ((main - w) + e) = F * (main - w) + F * e /\ F * ((main - u) + e) = F * (main - u) + F * e
        BY <4>1, <4>4, <4>5
      <4>7. F * e \in Int /\ F * (main - w) \in Int /\ F * (main - u) \in Int
        BY <4>1, <4>4, <4>5
      <4>8. cycles = (main - w) + e
        BY <2>3, <4>3 DEF w
      <4>9. awake.lead + F * ((main - w) + e) = x.lead + F * ((main - u) + e)
        BY <2>5, <4>2, <4>6, <4>7
      <4> QED BY <4>3, <4>8, <4>9 DEF u
    <3>8. F * (clk_value - x.last_clk) \in Int
      <4>1. x.last_clk \in Nat /\ clk_value \in Nat
        BY Widths DEF DriveState, Clock
      <4> QED BY <1>4, <4>1
    <3> HIDE DEF F
    <3> QED BY <2>4, <2>5, <3>1, <3>4, <3>5, <3>6, <3>7, <3>8
  <2>12. r.last_clk <= clk_value
    BY <1>10, <1>11, Widths DEF Clock
  <2> QED BY <2>1, <2>9, <2>10, <2>11, <2>12 DEF Tracks
<1> QED BY <1>8, <1>9, <1>10, <1>11

-----------------------------------------------------------------------------
(* All drives.                                                             *)
DriveStates == [Drives -> DriveState]

(* A drive in step at clk_value that has not been told of more than the    *)
(* machine has done.                                                       *)
MayRun(x, main, clk_value) ==
  InTrack(x, clk_value) /\ (x.enable /\ ~x.upset => x.last_clk <= main)

(* What drivecpu_execute leaves: a drive that was told of everything up to *)
(* now, or to the end of this cycle.                                       *)
LEMMA ExecutedIs ==
  ASSUME NEW g \in DriveStates, NEW main \in Clock, NEW clk_value \in Clock, NEW on,
         NEW h \in Executed(g, main, clk_value, on)
  PROVE  /\ h \in DriveStates
         /\ main <= clk_value /\ (\A d \in Drives : MayRun(g[d], main, clk_value)) =>
              \A d \in Drives : InTrack(h[d], clk_value)
<1> DEFINE Can(d) == IF g[d].enable /\ d \in on
                     THEN drivecpu_execute(g[d], main, clk_value) ELSE {g[d]}
<1>1. h \in [Drives -> UNION {Can(d) : d \in Drives}] /\ \A d \in Drives : h[d] \in Can(d)
  BY DEF Executed
<1> HIDE DEF Can
<1>2. h = [d \in Drives |-> h[d]]
  BY <1>1
<1>3. ASSUME NEW d \in Drives
      PROVE  /\ h[d] \in DriveState
             /\ main <= clk_value /\ MayRun(g[d], main, clk_value) => InTrack(h[d], clk_value)
  <2>1. g[d] \in DriveState
    BY DEF DriveStates
  <2>2. CASE h[d] = g[d]
    BY <2>1, <2>2 DEF MayRun
  <2>3. CASE h[d] \in drivecpu_execute(g[d], main, clk_value)
    BY <2>1, <2>3, ExecuteIs DEF InTrack, MayRun
  <2> QED BY <1>1, <2>2, <2>3 DEF Can
<1> QED BY <1>2, <1>3 DEF DriveStates

(* When a drive's own clock is set back the drive is upset.                *)
LEMMA GuardIs ==
  ASSUME NEW x \in DriveState
  PROVE  /\ clk_guard_prevent_overflow(x) \in DriveState
         /\ \A now : InTrack(x, now) => InTrack(clk_guard_prevent_overflow(x), now)
<1>1. CASE x.clk < MaxClk
  BY <1>1 DEF clk_guard_prevent_overflow
<1>2. CASE ~(x.clk < MaxClk)
  <2> DEFINE y == clk_guard_prevent_overflow(x)
             u == Upset(x)
  <2>1. u \in DriveState /\ u.upset /\ u.clk = x.clk
    <3>1. u \in DriveState
      BY Kept DEF Upset
    <3> QED BY <3>1 DEF Upset, DriveState
  <2>2. x.clk - OwnSub \in Clock
    BY <1>2, Limits, Widths DEF DriveState, Clock
  <2>3. y = [u EXCEPT !.clk = x.clk - OwnSub]
    BY <1>2, <2>1 DEF clk_guard_prevent_overflow
  <2> HIDE DEF y, u
  <2>4. y \in DriveState
    BY <2>1, <2>2, <2>3, Kept
  <2>5. y.upset
    BY <2>1, <2>3 DEF DriveState
  <2> QED BY <2>4, <2>5 DEF InTrack, y
<1> QED BY <1>1, <1>2

(* The first n drives know that the machine's clock was set back by sub to *)
(* main, the others do not yet.                                            *)
Told(g, n, main, sub) ==
  \A d \in Drives : InTrack(g[d], IF d < n THEN main ELSE main + sub)

(* What the guard of a drive's own clock leaves.                           *)
LEMMA SetBackIs ==
  ASSUME NEW x \in DriveState, NEW main \in Clock, NEW sub \in Clock, main + sub \in Clock,
         NEW y, y = IF sub = 0 THEN x
                    ELSE [x EXCEPT !.last_clk = IF x.enable THEN Minus(x.last_clk, sub) ELSE main]
  PROVE  /\ y \in DriveState
         /\ ~(x.enable /\ x.last_clk < sub) /\ InTrack(x, main + sub) => InTrack(y, main)
         /\ x.upset => y.upset
<1>1. x.last_clk \in Clock /\ x.lead \in Int /\ x.accum \in Nat /\ x.last_clk \in Nat
      /\ main \in Nat /\ sub \in Nat
  BY Widths DEF DriveState, Clock
<1>2. CASE sub = 0
  <2>1. main + sub = main
    BY <1>1, <1>2
  <2> QED BY <1>2, <2>1
<1>3. CASE sub # 0
  <2> DEFINE last == IF x.enable THEN Minus(x.last_clk, sub) ELSE main
  <2>1. last \in Clock
    BY <1>1, MinusIs
  <2>2. y = [x EXCEPT !.last_clk = last]
    BY <1>3
  <2>3. y \in DriveState
    <3> HIDE DEF last
    <3>1. [x EXCEPT !.last_clk = last] \in DriveState
      BY <2>1, Kept
    <3> QED BY <2>2, <3>1
  <2>4. y.enable = x.enable /\ y.upset = x.upset /\ y.clk = x.clk /\ y.stop_clk = x.stop_clk
        /\ y.accum = x.accum /\ y.lead = x.lead /\ y.speed = x.speed /\ y.last_clk = last
    <3> HIDE DEF last
    <3> QED BY <2>2 DEF DriveState
  <2>5. ASSUME x.enable, ~(x.last_clk < sub), Tracks(x, main + sub)
        PROVE  Tracks(y, main)
    <3>1. y.last_clk = x.last_clk - sub
      BY <1>1, <2>4, <2>5, MinusIs
    <3>2. main - y.last_clk = (main + sub) - x.last_clk /\ y.last_clk <= main
      BY <1>1, <2>5, <3>1 DEF Tracks
    <3>3. Lag(y) = Lag(x) /\ Factor(y) = Factor(x)
      BY <2>4 DEF Lag, Factor
    <3>4. Slack(y, main) = Slack(x, main + sub)
      <4>1. Factor(y) * (main - y.last_clk) = Factor(x) * ((main + sub) - x.last_clk)
        BY <3>2, <3>3
      <4>2. Scale * Lag(y) = Scale * Lag(x) /\ y.lead + y.accum = x.lead + x.accum
        BY <2>4, <3>3
      <4>3. Slack(y, main) = (y.lead + y.accum) + Factor(y) * (main - y.last_clk) - Scale * Lag(y)
        BY DEF Slack
      <4>4. Slack(x, main + sub)
              = (x.lead + x.accum) + Factor(x) * ((main + sub) - x.last_clk) - Scale * Lag(x)
        BY DEF Slack
      <4> QED BY <4>1, <4>2, <4>3, <4>4
    <3> QED BY <2>5, <3>2, <3>3, <3>4 DEF Tracks
  <2> QED BY <2>3, <2>4, <2>5 DEF InTrack
<1> QED BY <1>2, <1>3

(* One drive is told.  If it had to be run first, all of them are upset.   *)
LEMMA PreventIs ==
  ASSUME NEW g \in DriveStates, NEW d \in Drives,
         NEW main \in Clock, NEW sub \in Clock, main + sub \in Clock,
         NEW h \in drivecpu_prevent_clk_overflow(g, d, main, sub)
  PROVE  h \in DriveStates /\ (Told(g, d, main, sub) => Told(h, d + 1, main, sub))
<1> DEFINE late == g[d].enable /\ g[d].last_clk < sub
           AllUpset(i) == [e \in Drives |-> Upset(i[e])]
           synced == IF late
                     THEN {AllUpset(i) : i \in drive_cpu_execute_all(g, main, main + sub)}
                     ELSE {g}
           SetBack(x) == IF sub = 0 THEN x
                         ELSE [x EXCEPT !.last_clk = IF x.enable THEN Minus(x.last_clk, sub) ELSE main]
<1>1. PICK k \in synced : h = [k EXCEPT ![d] = clk_guard_prevent_overflow(SetBack(k[d]))]
  BY DEF drivecpu_prevent_clk_overflow
<1>2. k \in DriveStates /\ (~late => k = g) /\ (late => \A e \in Drives : k[e].upset)
  <2>1. CASE late
    <3>1. PICK i \in Executed(g, main, main + sub, Drives) : k = AllUpset(i)
      BY <1>1, <2>1 DEF drive_cpu_execute_all
    <3>2. i \in DriveStates
      BY <3>1, ExecutedIs
    <3>3. \A e \in Drives : Upset(i[e]) \in DriveState /\ Upset(i[e]).upset
      <4> TAKE e \in Drives
      <4>1. i[e] \in DriveState
        BY <3>2 DEF DriveStates
      <4>2. Upset(i[e]) \in DriveState
        BY <4>1, Kept DEF Upset
      <4>3. Upset(i[e]).upset
        BY <4>1 DEF Upset, DriveState
      <4> QED BY <4>2, <4>3
    <3> QED BY <2>1, <3>1, <3>3 DEF DriveStates
  <2>2. CASE ~late
    BY <1>1, <2>2
  <2> QED BY <2>1, <2>2
<1> DEFINE y == SetBack(k[d])
           z == clk_guard_prevent_overflow(y)
<1> HIDE DEF synced, late
<1>3. k[d] \in DriveState /\ k \in [Drives -> DriveState]
  BY <1>2 DEF DriveStates
<1>4. /\ y \in DriveState
      /\ ~(k[d].enable /\ k[d].last_clk < sub) /\ InTrack(k[d], main + sub) => InTrack(y, main)
      /\ k[d].upset => y.upset
  BY <1>3, SetBackIs
<1> HIDE DEF y, SetBack
<1>5. z \in DriveState /\ (InTrack(y, main) => InTrack(z, main))
  BY <1>4, GuardIs
<1>6. h = [k EXCEPT ![d] = z]
  BY <1>1 DEF y
<1> HIDE DEF z
<1>7. h \in DriveStates /\ h[d] = z /\ \A e \in Drives : e # d => h[e] = k[e]
  BY <1>3, <1>5, <1>6 DEF DriveStates
<1>8. ASSUME Told(g, d, main, sub), NEW e \in Drives
      PROVE  InTrack(h[e], IF e < d + 1 THEN main ELSE main + sub)
  <2>1. CASE e # d
    <3>1. e < d + 1 <=> e < d
      BY <2>1, Widths DEF Drives
    <3>2. CASE late
      BY <1>2, <1>7, <2>1, <3>2 DEF InTrack
    <3>3. CASE ~late
      BY <1>2, <1>7, <1>8, <2>1, <3>1, <3>3 DEF Told
    <3> QED BY <3>2, <3>3
  <2>2. CASE e = d
    <3>1. e < d + 1 /\ ~(d < d)
      BY <2>2, Widths DEF Drives
    <3>2. InTrack(y, main)
      <4>1. CASE late
        BY <1>2, <1>4, <4>1 DEF InTrack
      <4>2. CASE ~late
        <5>1. InTrack(k[d], main + sub)
          BY <1>2, <1>8, <3>1, <4>2 DEF Told
        <5> QED BY <1>2, <1>4, <4>2, <5>1 DEF late
      <4> QED BY <4>1, <4>2
    <3> QED BY <1>5, <1>7, <2>2, <3>1, <3>2
  <2> QED BY <2>1, <2>2
<1> QED BY <1>7, <1>8 DEF Told

(* All of them are.                                                        *)
LEMMA PreventAllIs ==
  ASSUME NEW gs \in SUBSET DriveStates, NEW main \in Clock, NEW sub \in Clock, main + sub \in Clock,
         NEW h \in drive_cpu_prevent_clk_overflow_all(gs, main, sub)
  PROVE  h \in DriveStates /\ ((\A g \in gs : Told(g, 0, main, sub)) => Told(h, N, main, sub))
<1> DEFINE V == SUBSET DriveStates
           Then(G, n) == UNION {drivecpu_prevent_clk_overflow(g, n - 1, main, sub) : g \in G}
           Step(q, n) == IF n = 0 THEN gs ELSE Then(q[n - 1], n)
           f == CHOOSE q : q = [n \in 0..N |-> Step(q, n)]
<1>1. h \in f[N]
  BY DEF drive_cpu_prevent_clk_overflow_all
<1>2. \A n \in 1..N : n - 1 \in 0..N /\ n - 1 \in Drives /\ n - 1 < n /\ n - 1 \in Nat /\ n # 0
  BY Widths DEF Drives
<1>3. ASSUME NEW n \in 1..N, NEW G \in V, NEW i \in Then(G, n)
      PROVE  /\ i \in DriveStates
             /\ (\A g \in G : Told(g, n - 1, main, sub)) => Told(i, n, main, sub)
  <2>1. PICK g \in G : i \in drivecpu_prevent_clk_overflow(g, n - 1, main, sub)
    OBVIOUS
  <2>2. g \in DriveStates /\ n - 1 \in Drives
    BY <1>2
  <2> DEFINE p == n - 1
  <2>3. p \in Drives /\ p + 1 = n /\ i \in drivecpu_prevent_clk_overflow(g, p, main, sub)
    BY <2>1, <2>2, Widths
  <2> HIDE DEF p
  <2>4. i \in DriveStates /\ (Told(g, p, main, sub) => Told(i, p + 1, main, sub))
    BY <2>2, <2>3, PreventIs
  <2> QED BY <2>1, <2>3, <2>4 DEF p
<1>4. \A n \in 1..N, G \in V : Then(G, n) \in V
  <2> HIDE DEF Then
  <2> QED BY <1>3
<1> HIDE DEF Then
<1>5. \E q : q = [n \in 0..N |-> Step(q, n)]
  <2> DEFINE prev == [n \in 1..N |-> n - 1]
             step == [w \in (1..N) \X V |-> Then(w[2], w[1])]
  <2>1. prev \in [1..N -> Nat] /\ \A n \in 1..N : prev[n] < n /\ prev[n] = n - 1
    BY <1>2
  <2>2. gs \in V
    OBVIOUS
  <2> HIDE DEF V
  <2>3. step \in [(1..N) \X V -> V]
    BY <1>4
  <2>4. PICK q \in [0..N -> V] : Computed(q, N, gs, prev, step)
    <3> HIDE DEF step, prev
    <3> QED BY <2>1, <2>2, <2>3, Widths, Computable
  <2>5. ASSUME NEW n \in 1..N
        PROVE  q[n] = Step(q, n)
    <3>1. <<n, q[n - 1]>> \in (1..N) \X V
      BY <1>2, <2>4
    <3>2. q[n] = step[<<n, q[n - 1]>>]
      <4> HIDE DEF step, prev
      <4> QED BY <2>1, <2>4 DEF Computed
    <3> QED BY <1>2, <3>1, <3>2
  <2>6. q[0] = Step(q, 0)
    BY <2>4 DEF Computed
  <2> HIDE DEF Step
  <2>7. \A n \in 0..N : q[n] = Step(q, n)
    <3>1. \A n \in 0..N : n = 0 \/ n \in 1..N
      BY Widths
    <3> QED BY <2>5, <2>6, <3>1
  <2>8. q = [n \in 0..N |-> Step(q, n)]
    BY <2>4, <2>7
  <2> QED BY <2>8
<1>6. f = [n \in 0..N |-> Step(f, n)]
  <2> HIDE DEF Step
  <2> QED BY <1>5
<1>7. \A n \in 0..N : f[n] = Step(f, n)
  <2> HIDE DEF f, Step
  <2> QED BY <1>6
<1> HIDE DEF f
<1>8. f[0] = gs
  <2>1. f[0] = Step(f, 0)
    <3> HIDE DEF Step
    <3> QED BY <1>7, Widths
  <2> QED BY <2>1
<1>9. ASSUME NEW n \in 1..N
      PROVE  f[n] = Then(f[n - 1], n)
  <2>1. f[n] = Step(f, n) /\ n # 0
    <3> HIDE DEF Step
    <3> QED BY <1>2, <1>7, Widths
  <2> QED BY <2>1
<1> HIDE DEF Step
<1> DEFINE AllTold == \A g \in gs : Told(g, 0, main, sub)
           T == {n \in 0..N : f[n] \in V /\ (AllTold => \A i \in f[n] : Told(i, n, main, sub))}
<1>10. ASSUME NEW n \in 0..N, \A k \in 0..n-1 : k \in T
       PROVE  n \in T
  <2>1. CASE n = 0
    BY <1>8, <2>1
  <2>2. CASE n # 0
    <3>1. n \in 1..N /\ n - 1 \in 0..n-1
      BY <2>2, Widths
    <3>2. n - 1 \in T
      BY <1>10, <3>1
    <3>3. f[n] = Then(f[n - 1], n) /\ f[n - 1] \in V
      BY <1>9, <3>1, <3>2
    <3>4. f[n] \in V
      <4> HIDE DEF V
      <4> QED BY <1>4, <3>1, <3>3
    <3>5. ASSUME AllTold, NEW i \in f[n]
          PROVE  Told(i, n, main, sub)
      <4>1. \A g \in f[n - 1] : Told(g, n - 1, main, sub)
        BY <3>2, <3>5
      <4> HIDE DEF V
      <4> QED BY <1>3, <3>1, <3>3, <3>5, <4>1
    <3> HIDE DEF V
    <3> QED BY <3>4, <3>5
  <2> QED BY <2>1, <2>2
<1>11. N \in T
  <2> HIDE DEF T
  <2>1. \A n \in 0..N : n \in T
    BY <1>10, Widths, UpTo
  <2> QED BY <2>1, Widths
<1> QED BY <1>1, <1>11

-----------------------------------------------------------------------------
(* What the machine does to one drive.                                     *)
LEMMA CycleIs ==
  ASSUME NEW x \in DriveState, NEW now \in Clock, x.enable, InTrack(x, now)
  PROVE  /\ Ahead(x, 0 - Factor(x)) \in DriveState
         /\ InTrack(Ahead(x, 0 - Factor(x)), now + 1)
<1> DEFINE y == Ahead(x, 0 - Factor(x))
<1>1. x.lead \in Int /\ x.accum \in Nat /\ x.last_clk \in Nat /\ now \in Nat /\ Factor(x) \in Nat
  BY FactorIs, Widths DEF DriveState, Clock
<1>2. y \in DriveState
  <2>1. x.lead + (0 - Factor(x)) \in Int
    BY <1>1
  <2> QED BY <2>1, Kept DEF Ahead
<1>3. /\ y.enable = x.enable /\ y.upset = x.upset /\ y.clk = x.clk /\ y.stop_clk = x.stop_clk
      /\ y.accum = x.accum /\ y.speed = x.speed /\ y.last_clk = x.last_clk
      /\ ~x.upset => y.lead = x.lead + (0 - Factor(x))
  BY DEF Ahead, DriveState
<1> HIDE DEF y
<1>4. ASSUME ~x.upset
      PROVE  Tracks(y, now + 1)
  <2>1. Tracks(x, now)
    BY <1>4 DEF InTrack
  <2>2. Lag(y) = Lag(x) /\ Factor(y) = Factor(x)
    BY <1>3 DEF Lag, Factor
  <2>3. Slack(y, now + 1) = Slack(x, now)
    <3> DEFINE F == Factor(x)
               w == now - x.last_clk
               l == Scale * Lag(x)
    <3>1. w \in Int /\ (now + 1) - y.last_clk = w + 1
      BY <1>1, <1>3
    <3>2. l \in Int
      BY LagIs, Widths
    <3>3. Slack(x, now) = (x.lead + x.accum) + F * w - l
      BY DEF Slack
    <3>4. Slack(y, now + 1) = (y.lead + y.accum) + Factor(y) * ((now + 1) - y.last_clk) - Scale * Lag(y)
      BY DEF Slack
    <3>5. Slack(y, now + 1) = ((x.lead + (0 - F)) + x.accum) + F * (w + 1) - l
      BY <1>3, <1>4, <2>2, <3>1, <3>4
    <3> HIDE DEF F, w, l
    <3>6. F \in Nat
      BY <1>1 DEF F
    <3>7. F * (w + 1) = F * w + F /\ F * w \in Int
      BY <3>1, <3>6
    <3> QED BY <1>1, <3>2, <3>3, <3>5, <3>6, <3>7
  <2>4. y.last_clk <= now + 1
    BY <1>1, <1>3, <2>1 DEF Tracks
  <2> QED BY <2>1, <2>2, <2>3, <2>4 DEF Tracks
<1> QED BY <1>2, <1>3, <1>4 DEF InTrack, y

(* A drive that is switched on or off, given a type, or woken.             *)
LEMMA EnableIs ==
  ASSUME NEW x \in DriveState, NEW main \in Clock
  PROVE  /\ drive_enable(x, main) \in DriveState
         /\ x.last_clk = main => InTrack(drive_enable(x, main), main)
<1> DEFINE s == [x EXCEPT !.stop_clk = x.clk]
           y == drivecpu_wake_up(s, main)
<1>1. s \in DriveState
  <2>1. x.clk \in Clock
    BY DEF DriveState
  <2> QED BY <2>1, Kept
<1>2. s.clk = x.clk /\ s.stop_clk = x.clk /\ s.last_clk = x.last_clk
  BY DEF DriveState
<1> HIDE DEF s
<1>3. y \in DriveState /\ y.clk = y.stop_clk /\ y.last_clk \in {x.last_clk, main}
  BY <1>1, <1>2, WakeUpIs
<1>4. drive_enable(x, main) = Resync(y)
  BY DEF drive_enable, s
<1> HIDE DEF y
<1>5. y.last_clk \in Clock
  BY <1>3 DEF DriveState
<1>6. Resync(y) \in DriveState /\ InTrack(Resync(y), y.last_clk)
  BY <1>3, <1>5, ResyncIs
<1> QED BY <1>3, <1>4, <1>6

(* The clocks of a drive that is reset.                                    *)
LEMMA ResetClkIs ==
  ASSUME NEW x \in DriveState, NEW main \in Clock
  PROVE  /\ drivecpu_reset_clk(x, main) \in DriveState
         /\ drivecpu_reset_clk(x, main).last_clk = main
         /\ drivecpu_reset_clk(x, main).stop_clk = 0
<1>1. 0 \in Clock
  BY Widths DEF Clock
<1>2. [x EXCEPT !.last_clk = main] \in DriveState
  BY Kept
<1>3. [[x EXCEPT !.last_clk = main] EXCEPT !.stop_clk = 0] \in DriveState
  BY <1>1, <1>2, Kept
<1> QED BY <1>3 DEF drivecpu_reset_clk, DriveState

(* A drive that is reset with the machine is not upset by it.              *)
LEMMA ResetIs ==
  ASSUME NEW x \in DriveState, NEW main \in Clock
  PROVE  drivecpu_reset(x, main) \in DriveState /\ InTrack(drivecpu_reset(x, main), main)
<1> DEFINE r == drivecpu_reset_clk(x, main)
           y == [r EXCEPT !.clk = 0, !.reset = TRUE]
<1>1. r \in DriveState /\ r.last_clk = main /\ r.stop_clk = 0
  BY ResetClkIs
<1>2. drivecpu_reset(x, main) = Resync(y)
  BY DEF drivecpu_reset
<1> HIDE DEF r
<1>3. 0 \in Clock
  BY Widths DEF Clock
<1>4. [r EXCEPT !.clk = 0] \in DriveState
  BY <1>1, <1>3, Kept
<1>5. [[r EXCEPT !.clk = 0] EXCEPT !.reset = TRUE] \in DriveState
  BY <1>4, Kept
<1>6. y \in DriveState
  BY <1>5
<1>7. y.last_clk = main /\ y.clk = y.stop_clk
  BY <1>1 DEF DriveState
<1> HIDE DEF y
<1> QED BY <1>2, <1>6, <1>7, ResyncIs

-----------------------------------------------------------------------------
(* The invariant holds at the start and every step keeps it.               *)
LEMMA InitSync == Init => SyncInv
<1> SUFFICES ASSUME Init PROVE SyncInv
  OBVIOUS
<1>1. (CHOOSE m \in Methods : TRUE) \in Methods
  BY MethodsAssumption
<1>2. 0 \in Clock /\ 0 \in 0..Scale-1 /\ 0 \in 0..Frame /\ 0 - 0 < MaxClk
  BY Widths, Limits DEF Clock
<1>3. PoweredUp \in DriveState /\ ~PoweredUp.enable
  BY <1>1, <1>2, Widths DEF PoweredUp, DriveState
<1>4. drive \in [Drives -> DriveState] /\ \A d \in Drives : ~drive[d].enable
  BY <1>3 DEF Init
<1> QED BY <1>2, <1>4 DEF Init, SyncInv, InTrack

(* Every step of the machine keeps the invariant.                          *)
LEMMA StepSync == SyncInv /\ [Next]_vars => SyncInv'
<1> SUFFICES ASSUME SyncInv, [Next]_vars
             PROVE  SyncInv'
  OBVIOUS
<1>1. /\ maincpu_clk \in Clock /\ frame \in 0..Frame /\ maincpu_clk - frame < MaxClk
      /\ drive \in DriveStates /\ maincpu_clk \in Nat /\ frame \in Nat
  BY Widths DEF SyncInv, DriveStates, Clock
<1>2. \A d \in Drives : drive[d] \in DriveState /\ InTrack(drive[d], maincpu_clk)
  BY DEF SyncInv
<1>3. ASSUME UNCHANGED <<maincpu_clk, frame>>, drive' \in DriveStates,
             \A d \in Drives : InTrack(drive'[d], maincpu_clk)
      PROVE  SyncInv'
  BY <1>1, <1>3 DEF SyncInv, DriveStates
<1>4. ASSUME Tick
      PROVE  /\ maincpu_clk' = maincpu_clk + 1 /\ frame' \in 0..Frame /\ maincpu_clk' \in Clock
             /\ maincpu_clk' - frame' < MaxClk /\ Plus(maincpu_clk, 1) = maincpu_clk + 1
             /\ Passed \in DriveStates
             /\ \A d \in Drives : MayRun(Passed[d], maincpu_clk, maincpu_clk + 1)
  <2>1. frame' = frame + 1 /\ frame' \in 0..Frame
    BY <1>1, <1>4, Widths DEF Tick
  <2>2. maincpu_clk + 1 < Mod /\ 1 \in 0..Mod
    BY <1>1, <1>4, Limits, Widths DEF Tick
  <2>3. maincpu_clk' = maincpu_clk + 1 /\ maincpu_clk' \in Clock /\ Plus(maincpu_clk, 1) = maincpu_clk + 1
    BY <1>1, <1>4, <2>2, PlusIs DEF Tick
  <2>4. maincpu_clk' - frame' < MaxClk
    BY <1>1, <2>1, <2>3, Limits
  <2>5. ASSUME NEW d \in Drives
        PROVE  Passed[d] \in DriveState /\ MayRun(Passed[d], maincpu_clk, maincpu_clk + 1)
    <3> DEFINE x == drive[d]
               y == Ahead(x, 0 - Factor(x))
    <3>1. x \in DriveState /\ InTrack(x, maincpu_clk)
      BY <1>2
    <3>2. Passed[d] = IF x.enable THEN y ELSE x
      BY DEF Passed
    <3>3. y.enable = x.enable /\ y.upset = x.upset /\ y.last_clk = x.last_clk
      BY <3>1 DEF Ahead, DriveState
    <3> HIDE DEF x
    <3>4. x.enable => y \in DriveState /\ InTrack(y, maincpu_clk + 1)
      BY <1>1, <3>1, CycleIs
    <3> HIDE DEF y
    <3> QED BY <3>1, <3>2, <3>3, <3>4 DEF MayRun, InTrack, Tracks
  <2>6. Passed \in DriveStates
    BY <2>5 DEF Passed, DriveStates
  <2> QED BY <2>1, <2>3, <2>4, <2>5, <2>6
<1>5. ASSUME Cycle
      PROVE  SyncInv'
  <2>1. Tick /\ drive' = Passed
    BY <1>5 DEF Cycle
  <2> QED BY <1>4, <2>1 DEF SyncInv, DriveStates, MayRun
<1>6. ASSUME Store
       PROVE  SyncInv'
  <2>1. Tick
    BY <1>6 DEF Store
  <2>2. PICK on \in SUBSET Drives : drive' \in Executed(Passed, maincpu_clk, maincpu_clk + 1, on)
    BY <1>4, <1>6, <2>1 DEF Store
  <2>3. maincpu_clk + 1 \in Clock /\ maincpu_clk <= maincpu_clk + 1
    BY <1>1, <1>4, <2>1
  <2>4. drive' \in DriveStates /\ \A d \in Drives : InTrack(drive'[d], maincpu_clk + 1)
    BY <1>1, <1>4, <2>1, <2>2, <2>3, ExecutedIs
  <2> QED BY <1>4, <2>1, <2>4 DEF SyncInv, DriveStates
<1>7. ASSUME Access
       PROVE  SyncInv'
  <2>1. PICK on \in SUBSET Drives : drive' \in Executed(drive, maincpu_clk, maincpu_clk, on)
    BY <1>7 DEF Access
  <2>2. \A d \in Drives : MayRun(drive[d], maincpu_clk, maincpu_clk)
    BY <1>2 DEF MayRun, InTrack, Tracks
  <2>3. drive' \in DriveStates /\ \A d \in Drives : InTrack(drive'[d], maincpu_clk)
    BY <1>1, <2>1, <2>2, ExecutedIs
  <2> QED BY <1>3, <1>7, <2>3 DEF Access
<1>8. ASSUME Vsync
      PROVE  SyncInv'
  <2> DEFINE sub == IF maincpu_clk < MaxClk THEN 0 ELSE MainSub
             main == maincpu_clk - sub
             ran == Executed(drive, maincpu_clk, maincpu_clk, NotSkipping)
  <2>1. /\ sub \in Clock /\ main \in Clock /\ main + sub = maincpu_clk /\ main < MaxClk
        /\ main + sub \in Clock
    BY <1>1, <1>8, Limits, WholeFrames, Widths DEF Vsync, Clock
  <2>2. frame' = 0 /\ maincpu_clk' = main
        /\ drive' \in drive_cpu_prevent_clk_overflow_all(ran, main, sub)
    BY <1>8 DEF Vsync
  <2> HIDE DEF sub, main
  <2>3. ASSUME NEW g \in ran
        PROVE  g \in DriveStates /\ Told(g, 0, main, sub)
    <3> HIDE DEF ran
    <3>3. g \in Executed(drive, maincpu_clk, maincpu_clk, NotSkipping)
      BY <2>3 DEF ran
    <3>4. \A d \in Drives : MayRun(drive[d], maincpu_clk, maincpu_clk)
      BY <1>2 DEF MayRun, InTrack, Tracks
    <3>1. g \in DriveStates /\ \A d \in Drives : InTrack(g[d], maincpu_clk)
      BY <1>1, <3>3, <3>4, ExecutedIs
    <3>2. \A d \in Drives : ~(d < 0)
      BY Widths DEF Drives
    <3> QED BY <2>1, <3>1, <3>2 DEF Told
  <2> HIDE DEF ran
  <2>4. ran \in SUBSET DriveStates /\ \A g \in ran : Told(g, 0, main, sub)
    BY <2>3
  <2>5. drive' \in DriveStates /\ Told(drive', N, main, sub)
    BY <2>1, <2>2, <2>4, PreventAllIs
  <2>6. \A d \in Drives : InTrack(drive'[d], main)
    <3>1. \A d \in Drives : d < N
      BY Widths DEF Drives
    <3> QED BY <2>5, <3>1 DEF Told
  <2>7. 0 \in 0..Frame /\ main - 0 < MaxClk
    BY <2>1, Widths DEF Clock
  <2> QED BY <2>1, <2>2, <2>5, <2>6, <2>7 DEF SyncInv, DriveStates
<1>9. ASSUME SetTrueEmulation
      PROVE  SyncInv'
  <2> DEFINE On(x) == drivecpu_reset_clk([x EXCEPT !.enable = TRUE], maincpu_clk)
  <2>1. ASSUME NEW d \in Drives
        PROVE  /\ drive_enable(On(drive[d]), maincpu_clk) \in DriveState
               /\ InTrack(drive_enable(On(drive[d]), maincpu_clk), maincpu_clk)
    <3>1. [drive[d] EXCEPT !.enable = TRUE] \in DriveState
      BY <1>2, Kept
    <3>2. On(drive[d]) \in DriveState /\ On(drive[d]).last_clk = maincpu_clk
      BY <1>1, <3>1, ResetClkIs
    <3> HIDE DEF On
    <3> QED BY <1>1, <3>2, EnableIs
  <2>2. ASSUME NEW d \in Drives
        PROVE  LET y == Resync([drive[d] EXCEPT !.enable = FALSE]) IN
               y \in DriveState /\ ~y.enable
    <3> DEFINE a == [drive[d] EXCEPT !.enable = FALSE]
               b == [a EXCEPT !.lead = 0]
               c == [b EXCEPT !.upset = FALSE]
    <3>1. a \in DriveState /\ ~a.enable
      <4>1. a \in DriveState
        BY <1>2, Kept
      <4> QED BY <1>2, <4>1 DEF DriveState
    <3>2. b \in DriveState /\ ~b.enable
      <4> HIDE DEF a
      <4>1. b \in DriveState
        BY <3>1, Kept
      <4> QED BY <3>1, <4>1 DEF DriveState
    <3>3. c \in DriveState /\ ~c.enable
      <4> HIDE DEF b
      <4>1. c \in DriveState
        BY <3>2, Kept
      <4> QED BY <3>2, <4>1 DEF DriveState
    <3>4. Resync(a) = c
      BY DEF Resync
    <3> HIDE DEF c
    <3> QED BY <3>3, <3>4
  <2>3. CASE drive' = [d \in Drives |-> drive_enable(On(drive[d]), maincpu_clk)]
    <3>1. drive' \in DriveStates /\ \A d \in Drives : InTrack(drive'[d], maincpu_clk)
      <4> HIDE DEF On
      <4> QED BY <2>1, <2>3 DEF DriveStates
    <3> QED BY <1>3, <1>9, <3>1 DEF SetTrueEmulation
  <2>4. CASE drive' = [d \in Drives |-> Resync([drive[d] EXCEPT !.enable = FALSE])]
    <3>1. drive' \in DriveStates /\ \A d \in Drives : ~drive'[d].enable
      BY <2>2, <2>4 DEF DriveStates
    <3> QED BY <1>3, <1>9, <3>1 DEF SetTrueEmulation, InTrack
  <2> QED BY <1>9, <2>3, <2>4 DEF SetTrueEmulation
<1>10. ASSUME MachineReset
      PROVE  SyncInv'
  <2>1. ResetClk \in Clock /\ 0 \in 0..Frame /\ ResetClk - 0 < MaxClk
    BY Limits, Widths DEF Clock
  <2>2. \A d \in Drives : /\ drivecpu_reset(drive[d], ResetClk) \in DriveState
                          /\ InTrack(drivecpu_reset(drive[d], ResetClk), ResetClk)
    BY <1>2, <2>1, ResetIs
  <2>3. \A d \in Drives : Upset(drive[d]) \in DriveState /\ InTrack(Upset(drive[d]), ResetClk)
    <3> TAKE d \in Drives
    <3>1. drive[d] \in DriveState
      BY <1>2
    <3>2. Upset(drive[d]) \in DriveState
      BY <3>1, Kept DEF Upset
    <3>3. Upset(drive[d]).upset
      BY <3>1 DEF Upset, DriveState
    <3> QED BY <3>2, <3>3 DEF InTrack
  <2>4. drive' \in [Drives -> DriveState] /\ \A d \in Drives : InTrack(drive'[d], ResetClk)
    <3>1. CASE drive' = [d \in Drives |-> drivecpu_reset(drive[d], ResetClk)]
      BY <2>2, <3>1
    <3>2. CASE drive' = [d \in Drives |-> Upset(drive[d])]
      BY <2>3, <3>2
    <3> QED BY <1>10, <3>1, <3>2 DEF MachineReset
  <2> QED BY <1>10, <2>1, <2>4 DEF MachineReset, SyncInv
<1>11. ASSUME NEW d \in Drives, UNCHANGED <<maincpu_clk, frame>>,
             NEW y \in DriveState, drive' = [drive EXCEPT ![d] = y], InTrack(y, maincpu_clk)
      PROVE  SyncInv'
  BY <1>1, <1>2, <1>3, <1>11 DEF DriveStates
<1>12. ASSUME NEW x \in DriveState, NEW y \in DriveState, InTrack(x, maincpu_clk),
              y.enable = x.enable, y.upset = x.upset, y.clk = x.clk, y.stop_clk = x.stop_clk,
              y.accum = x.accum, y.lead = x.lead, y.speed = x.speed, y.last_clk = x.last_clk
       PROVE  InTrack(y, maincpu_clk)
  BY <1>12 DEF InTrack, Tracks, Slack, Lag, Factor
<1>13. ASSUME NEW d \in Drives, NEW m \in Methods, SetIdlingMethod(d, m)
       PROVE  SyncInv'
  <2> DEFINE y == [drive[d] EXCEPT !.idling = m]
  <2>1. y \in DriveState
    BY <1>2, Kept
  <2>2. InTrack(y, maincpu_clk)
    BY <1>2, <1>12, <2>1 DEF DriveState
  <2>3. drive' = [drive EXCEPT ![d] = y]
    BY <1>13 DEF SetIdlingMethod
  <2> HIDE DEF y
  <2> QED BY <1>11, <1>13, <2>1, <2>2, <2>3 DEF SetIdlingMethod
<1>14. ASSUME NEW d \in Drives, TriggerReset(d)
       PROVE  SyncInv'
  <2> DEFINE y == [drive[d] EXCEPT !.reset = TRUE]
  <2>1. y \in DriveState
    BY <1>2, Kept
  <2>2. InTrack(y, maincpu_clk)
    BY <1>2, <1>12, <2>1 DEF DriveState
  <2>3. drive' = [drive EXCEPT ![d] = y]
    BY <1>14 DEF TriggerReset
  <2> HIDE DEF y
  <2> QED BY <1>11, <1>14, <2>1, <2>2, <2>3 DEF TriggerReset
<1>15. ASSUME NEW d \in Drives, NEW s \in Speeds, SetType(d, s)
       PROVE  SyncInv'
  <2> DEFINE e == drive_enable(drive[d], maincpu_clk)
             y == drivecpu_reset([e EXCEPT !.speed = s], maincpu_clk)
  <2>1. e \in DriveState
    BY <1>1, <1>2, EnableIs
  <2>2. drive' = [drive EXCEPT ![d] = y]
    BY <1>15 DEF SetType
  <2>3. [e EXCEPT !.speed = s] \in DriveState
    <3> HIDE DEF e
    <3> QED BY <2>1, Kept
  <2>4. y \in DriveState /\ InTrack(y, maincpu_clk)
    BY <1>1, <2>3, ResetIs
  <2> HIDE DEF y
  <2> QED BY <1>11, <1>15, <2>2, <2>4 DEF SetType
<1>16. ASSUME UNCHANGED vars
       PROVE  SyncInv'
  BY <1>16 DEF SyncInv, vars
<1> QED BY <1>5, <1>8, <1>9, <1>10, <1>13, <1>14, <1>15, <1>16, <1>6, <1>7 DEF Next

(* Whatever the speeds of the drives and however often they are looked at, *)
(* a drive that is not upset is where its clocks and its fraction say.     *)
THEOREM SyncInvariant == Spec => []SyncInv
BY InitSync, StepSync, PTL DEF Spec

(* The machine's clock, the drives' clocks and the fractions of cycles     *)
(* stay within their widths (drivecpu_execute, clk_guard_prevent_overflow).*)
THEOREM TypeCorrect == Spec => []TypeOK
<1>1. SyncInv => TypeOK
  <2> SUFFICES ASSUME SyncInv, NEW d \in Drives
               PROVE  /\ {drive[d].clk, drive[d].last_clk, drive[d].stop_clk} \subseteq Clock
                      /\ drive[d].accum \in 0..Scale-1
                      /\ drive[d].idling \in Methods /\ drive[d].speed \in Speeds
    BY DEF SyncInv, TypeOK
  <2>1. drive[d] \in DriveState
    BY DEF SyncInv
  <2> QED BY <2>1 DEF DriveState
<1> QED BY <1>1, SyncInvariant, PTL

(* Between two cycles the machine is never behind a drive that is not      *)
(* upset, also when stores count for the cycle they begin with             *)
(* (c64cia2.c): what drivecpu_execute converts is the number of cycles     *)
(* that have passed.  A machine reset without its drives upsets them.      *)
THEOREM NeverInFuture == Spec => []NotInFuture
<1>1. SyncInv => NotInFuture
  BY DEF SyncInv, InTrack, Tracks, NotInFuture
<1> QED BY <1>1, SyncInvariant, PTL

(* A drive that has been brought up to now has run as long as the machine, *)
(* to the last instruction, unless one of the five things InStep names has *)
(* happened since it was last put in step (drivecpu_execute).              *)
THEOREM StaysInStep == Spec => []InStep
<1>1. SyncInv => InStep
  <2> SUFFICES ASSUME SyncInv, NEW d \in Drives, Synced(drive[d]), ~drive[d].upset
               PROVE  RunsAlong(drive[d])
    BY DEF InStep
  <2> DEFINE x == drive[d]
             R == ResetClk + MaxInstr
             L == Lag(x)
  <2>1. x \in DriveState /\ Tracks(x, maincpu_clk) /\ x.last_clk = maincpu_clk
    BY DEF SyncInv, InTrack, Synced
  <2>2. maincpu_clk \in Nat
    BY Widths DEF SyncInv, Clock
  <2> HIDE DEF x
  <2>3. x.lead \in Int /\ x.accum \in 0..Scale-1 /\ L \in 0..R-1
    <3>1. ResetClk + MaxInstr - 1 = R - 1
      BY Widths
    <3> QED BY <2>1, <3>1 DEF DriveState, Tracks
  <2>4. (x.lead + x.accum) - Scale * L \in 0..Scale-1
    <3>1. Factor(x) * (maincpu_clk - x.last_clk) = 0
      BY <2>1, <2>2, FactorIs
    <3>2. Slack(x, maincpu_clk) = (x.lead + x.accum) + Factor(x) * (maincpu_clk - x.last_clk) - Scale * L
      BY DEF Slack
    <3>3. Scale * L \in Int
      BY <2>3, Widths
    <3>4. Slack(x, maincpu_clk) = (x.lead + x.accum) - Scale * L
      <4> HIDE DEF L
      <4> QED BY <2>3, <3>1, <3>2, <3>3, Widths
    <3> QED BY <2>1, <3>4 DEF Tracks
  <2>5. Scale * L >= 0 /\ Scale * L <= Scale * R - Scale /\ Scale * L \in Int /\ Scale * R \in Int
    <3>1. L \in Nat /\ R \in Nat /\ L <= R - 1
      BY <2>3, Widths
    <3> HIDE DEF L, R
    <3>2. Scale * L <= Scale * (R - 1) /\ Scale * (R - 1) = Scale * R - Scale
      BY <3>1, Widths
    <3> QED BY <3>1, <3>2, Widths
  <2> HIDE DEF L
  <2>6. -Scale < x.lead /\ x.lead < Scale * R
    <3> HIDE DEF R
    <3> QED BY <2>3, <2>4, <2>5, Widths
  <2> QED BY <2>6 DEF RunsAlong, x
<1> QED BY <1>1, SyncInvariant, PTL
=============================================================================
