--------------------------- MODULE StorageProofs ----------------------------
(***************************************************************************)
(* The two storage drivers.                                                *)
(*                                                                         *)
(* The clock of the SD card, for any rates of the bus clocks, any rates    *)
(* the core may ask for and any width of unsigned int that holds a sum of  *)
(* two: the source is the nearest one, and the card does not run too fast. *)
(*                                                                         *)
(* The ECC path of the NAND driver, for any number of sectors, of programs *)
(* and of flips: what is read without an error is what was written, and    *)
(* what the engine can repair it does repair.                              *)
(***************************************************************************)
EXTENDS SdhciS3c, S3cNand, SetLemmas, SequenceTheorems

(***************************************************************************)
(* SdhciS3c                                                                *)
(***************************************************************************)

Dividers == {1, 2, 4, 8, 16, 32, 64, 128, 256}

LEMMA PowersOfTwo ==
  /\ \A k \in 0..8 : 2^k \in Dividers
  /\ \A d \in Dividers : \E k \in 0..8 : d = 2^k
  /\ \A d \in Dividers \ {256} : \E k \in 0..7 : d = 2^k
<1>1. /\ 2^0 = 1 /\ 2^1 = 2 /\ 2^2 = 4 /\ 2^3 = 8 /\ 2^4 = 16
      /\ 2^5 = 32 /\ 2^6 = 64 /\ 2^7 = 128 /\ 2^8 = 256
  OBVIOUS
<1>2. \A k \in 0..8 : k \in {0, 1, 2, 3, 4, 5, 6, 7, 8}
  OBVIOUS
<1>. QED BY <1>1, <1>2 DEF Dividers

(* A larger divider gives a lower rate, and a lower clock too.             *)
LEMMA DividesDown ==
  ASSUME NEW r \in Nat, NEW d \in Dividers, NEW e \in Dividers, d <= e
  PROVE  r \div e <= r \div d /\ r \div d \in 0..r
BY DEF Dividers

LEMMA SlowerClock ==
  ASSUME NEW r \in Nat, NEW q \in Nat, r <= q, NEW d \in Dividers
  PROVE  r \div d <= q \div d
BY DEF Dividers

(* unsigned int: what fits stays, and what is negative wraps to the top.   *)
LEMMA Wraps ==
  ASSUME NEW n \in Nat, NEW x \in 0..(n - 1)
  PROVE  x % n = x /\ (x # 0 => (0 - x) % n = n - x)
OBVIOUS

(* The loop of sdhci_s3c_consider_clock: if any divider brings the rate    *)
(* down to the wanted one, the one found does, and comes nearest.          *)
LEMMA DividerIsNearest ==
  ASSUME NEW r \in Nat, NEW w \in Nat
  PROVE  /\ Divider(r, w) \in Dividers
         /\ r \div Divider(r, w) <= w \/ Divider(r, w) = 256
         /\ \A e \in Dividers :
              r \div e <= w => /\ r \div Divider(r, w) <= w
                               /\ r \div e <= r \div Divider(r, w)
<1> DEFINE S == {2^k : k \in {j \in 0..7 : r \div 2^j <= w}} \cup {256}
           d == Min(S)
<1>1. S \subseteq Dividers /\ S # {}
  <2>1. ASSUME NEW x \in S PROVE x \in Dividers
    <3>1. CASE x = 256
      BY <3>1 DEF Dividers
    <3>2. CASE x # 256
      <4>1. PICK k \in 0..7 : x = 2^k
        BY <3>2
      <4>2. k \in 0..8
        OBVIOUS
      <4>. QED BY <4>1, <4>2, PowersOfTwo
    <3>. QED BY <3>1, <3>2
  <2>2. 256 \in S
    OBVIOUS
  <2>. QED BY <2>1, <2>2
<1>2. d \in S /\ \A y \in S : d <= y
  <2>1. Dividers \subseteq 1..256
    BY DEF Dividers
  <2>2. S \subseteq 1..256 /\ S # {}
    BY <1>1, <2>1
  <2>3. 1 \in Int /\ 256 \in Int
    OBVIOUS
  <2> HIDE DEF S
  <2>4. Min(S) \in S /\ \A y \in S : Min(S) <= y
    BY <2>2, <2>3, MinOfRange
  <2>. QED BY <2>4
<1>3. d \in Dividers
  BY <1>1, <1>2
<1>4. r \div d <= w \/ d = 256
  BY <1>2
<1>5. ASSUME NEW e \in Dividers, r \div e <= w
      PROVE  r \div d <= w /\ r \div e <= r \div d
  <2>1. e \in S
    BY <1>5, PowersOfTwo
  <2>2. d <= e
    BY <1>2, <2>1
  <2>3. r \div e <= r \div d
    <3> HIDE DEF d
    <3>. QED BY <1>3, <2>2, DividesDown
  <2>4. d = 256 => e = 256
    BY <1>3, <2>2 DEF Dividers
  <2>. QED BY <1>4, <1>5, <2>3, <2>4
<1>. QED
  <2>1. Divider(r, w) = d
    BY DEF Divider
  <2> HIDE DEF d
  <2>. QED BY <1>3, <1>4, <1>5, <2>1

-----------------------------------------------------------------------------
(* Four clocks, some of them missing, but not all.                         *)
Rated ==
  /\ clk_bus \in [Sources -> Rates \cup {0}]
  /\ \E s \in Sources : clk_bus[s] # 0

(* Source t divided by e gives w or less.                                  *)
Reaches(t, e, w) == clk_bus[t] # 0 /\ clk_bus[t] \div e <= w

(* No source comes nearer to w from below than s does.                     *)
Nearest(s, w) ==
  (\E t \in Sources, e \in Dividers : Reaches(t, e, w)) =>
    \E d \in Dividers :
      /\ Reaches(s, d, w)
      /\ \A t \in Sources, e \in Dividers :
           Reaches(t, e, w) => clk_bus[t] \div e <= clk_bus[s] \div d

LEMMA RateTyped ==
  ASSUME Rated, NEW t \in Sources
  PROVE  clk_bus[t] \in Nat /\ (clk_bus[t] # 0 => clk_bus[t] \in Rates)
<1>1. clk_bus[t] \in Rates \cup {0}
  BY DEF Rated
<1>2. Rates \subseteq Nat \ {0}
  BY RatesAssumption
<1>3. CASE clk_bus[t] = 0
  BY <1>3
<1>4. CASE clk_bus[t] \in Rates
  BY <1>2, <1>4
<1>. QED BY <1>1, <1>3, <1>4

(* The unsigned difference tells the clocks that can be slowed to the      *)
(* wanted rate from those that cannot and those that are missing.          *)
LEMMA Difference ==
  ASSUME Rated, NEW w \in Wanted, NEW s \in Sources
  PROVE  LET D == Divider(clk_bus[s], w)
         IN  /\ D \in Dividers
             /\ w < UINT_MAX
             /\ ConsiderClock(s, w) \in Nat
             /\ Reaches(s, D, w) =>
                  ConsiderClock(s, w) = w - clk_bus[s] \div D
             /\ ~Reaches(s, D, w) => ConsiderClock(s, w) > w
<1>0. PICK r \in Rates : r \in Nat /\ r # 0
  <2>1. PICK t \in Sources : clk_bus[t] # 0
    BY DEF Rated
  <2>. QED BY <2>1, RateTyped
<1>1. w \in Nat /\ Word \in Nat /\ r \in Nat \ {0} /\ r + w < Word
  BY <1>0, WantedAssumption, WordAssumption
<1>2. w < UINT_MAX /\ UINT_MAX \in Nat
  BY <1>1 DEF UINT_MAX
<1>3. PICK c : c = clk_bus[s]
  OBVIOUS
<1>4. c \in Nat /\ (c # 0 => c + w < Word)
  BY <1>3, RateTyped, WordAssumption
<1>5. PICK D : D = Divider(c, w)
  OBVIOUS
<1>6. D \in Dividers
  BY <1>1, <1>4, <1>5, DividerIsNearest
<1>7. c \div D \in 0..c
  <2>1. D <= D
    BY <1>6 DEF Dividers
  <2>. QED BY <1>4, <1>6, <2>1, DividesDown
<1>8. CASE c = 0
  <2>1. ConsiderClock(s, w) = UINT_MAX /\ ~Reaches(s, D, w)
    BY <1>3, <1>8 DEF ConsiderClock, Reaches
  <2>. QED BY <1>2, <1>3, <1>5, <1>6, <2>1
<1>9. CASE c # 0
  <2>1. PICK q : q = c \div D
    OBVIOUS
  <2>2. ConsiderClock(s, w) = (w - q) % Word
    BY <1>3, <1>5, <1>9, <2>1 DEF ConsiderClock
  <2>3. Reaches(s, D, w) <=> q <= w
    BY <1>3, <1>9, <2>1 DEF Reaches
  <2>4. q \in 0..c
    BY <1>7, <2>1
  <2>5. CASE q <= w
    <3>1. w - q \in 0..(Word - 1) /\ w - q \in Nat
      BY <1>1, <1>4, <1>9, <2>4, <2>5
    <3>2. (w - q) % Word = w - q
      BY <1>1, <3>1, Wraps
    <3>. QED BY <1>2, <1>3, <1>5, <1>6, <2>1, <2>2, <2>3, <2>5, <3>1, <3>2
  <2>6. CASE ~(q <= w)
    <3>1. q - w \in 0..(Word - 1) /\ q - w # 0
      BY <1>1, <1>4, <1>9, <2>4, <2>6
    <3>2. (0 - (q - w)) % Word = Word - (q - w)
      BY <1>1, <3>1, Wraps
    <3>3. w - q = 0 - (q - w)
      BY <1>1, <2>4
    <3>4. (w - q) % Word = Word - (q - w)
      BY <3>2, <3>3
    <3>5. Word - (q - w) > w /\ Word - (q - w) \in Nat
      BY <1>1, <1>4, <1>9, <2>4, <2>6
    <3>. QED BY <1>2, <1>3, <1>5, <1>6, <2>2, <2>3, <2>6, <3>4, <3>5
  <2>. QED BY <2>5, <2>6
<1>. QED BY <1>8, <1>9

(* The source sdhci_s3c_set_clock chooses.                                 *)
LEMMA BestSourceIsNearest ==
  ASSUME Rated, NEW w \in Wanted
  PROVE  BestSource(w) \in Sources /\ Nearest(BestSource(w), w)
<1> DEFINE delta(s) == ConsiderClock(s, w)
           Deltas == {delta(s) : s \in Sources}
           Least == {s \in Sources : delta(s) = Min(Deltas)}
<1>1. BestSource(w) = IF Min(Deltas) < UINT_MAX THEN Min(Least) ELSE 0
  BY DEF BestSource
<1>2. ASSUME Least # {}
      PROVE  Min(Least) \in Least
  <2>1. Least \subseteq 0..3 /\ 0 \in Int /\ 3 \in Int
    BY DEF Sources
  <2> HIDE DEF Least
  <2>. QED BY <1>2, <2>1, MinOfRange
<1>3. Deltas \subseteq Nat
  BY Difference
<1>4. Min(Deltas) \in Deltas /\ \A y \in Deltas : Min(Deltas) <= y
  <2>1. IsFiniteSet(Sources)
    BY FS_Interval, 0 \in Int, 3 \in Int DEF Sources
  <2>2. Deltas \subseteq {[s \in Sources |-> delta(s)][x] : x \in Sources}
    OBVIOUS
  <2>3. Deltas # {} /\ Deltas \subseteq Int
    BY <1>3 DEF Sources
  <2>4. IsFiniteSet(Deltas)
    <3> HIDE DEF Deltas
    <3>. QED BY <2>1, <2>2, ImageBound
  <2> HIDE DEF Deltas
  <2>. QED BY <2>3, <2>4, MinOfFinite
<1>5. Min(Least) \in Least
  BY <1>2, <1>4
<1>6. BestSource(w) \in Sources
  BY <1>1, <1>5 DEF Sources
<1>7. ASSUME NEW t \in Sources, NEW e \in Dividers, Reaches(t, e, w)
      PROVE  /\ Reaches(BestSource(w), Divider(clk_bus[BestSource(w)], w), w)
             /\ clk_bus[t] \div e <=
                  clk_bus[BestSource(w)] \div Divider(clk_bus[BestSource(w)], w)
  <2>0. w \in Nat
    BY WantedAssumption
  <2>1. PICK c : c = clk_bus[t]
    OBVIOUS
  <2>2. c \in Nat /\ c # 0 /\ c \div e <= w
    BY <1>7, <2>1, RateTyped DEF Reaches
  <2>3. PICK D : D = Divider(c, w)
    OBVIOUS
  <2>4. D \in Dividers /\ c \div D <= w /\ c \div e <= c \div D
    BY <2>0, <2>2, <2>3, DividerIsNearest
  <2>5. Reaches(t, D, w)
    BY <2>1, <2>2, <2>4 DEF Reaches
  <2>6. delta(t) = w - c \div D /\ w < UINT_MAX
    BY <2>1, <2>3, <2>5, Difference
  <2>7. c \div D \in 0..c
    <3>1. D <= D
      BY <2>4 DEF Dividers
    <3>. QED BY <2>2, <2>4, <3>1, DividesDown
  <2>8. PICK least \in Nat : least = Min(Deltas)
    BY <1>3, <1>4
  <2>9. least <= w - c \div D
    BY <1>4, <2>6, <2>8
  <2>10. UINT_MAX \in Int
    BY WordAssumption DEF UINT_MAX
  <2>11. least < UINT_MAX /\ least <= w
    BY <2>0, <2>6, <2>7, <2>9, <2>10
  <2>12. PICK b \in Sources : b = BestSource(w)
    BY <1>6
  <2>13. delta(b) = least
    BY <1>1, <1>5, <2>8, <2>11, <2>12
  <2>14. PICK B : B = Divider(clk_bus[b], w)
    OBVIOUS
  <2>15. Reaches(b, B, w) /\ least = w - clk_bus[b] \div B /\ B \in Dividers
    <3>1. Reaches(b, B, w)
      <4>1. ~(least > w)
        BY <2>0, <2>11
      <4>. QED BY <2>13, <2>14, <4>1, Difference
    <3>. QED BY <2>13, <2>14, <3>1, Difference
  <2>16. clk_bus[b] \div B \in Int
    <3>1. clk_bus[b] \in Nat
      BY RateTyped
    <3>. QED BY <2>15, <3>1 DEF Dividers
  <2>17. c \div D <= clk_bus[b] \div B
    BY <2>0, <2>7, <2>9, <2>15, <2>16
  <2>18. c \div e \in Int
    BY <2>2 DEF Dividers
  <2>19. c \div e <= clk_bus[b] \div B
    BY <2>4, <2>7, <2>16, <2>17, <2>18
  <2>. QED BY <2>1, <2>12, <2>14, <2>15, <2>19
<1>8. Divider(clk_bus[BestSource(w)], w) \in Dividers
  BY <1>6, Difference
<1>. QED BY <1>6, <1>7, <1>8 DEF Nearest

-----------------------------------------------------------------------------
(***************************************************************************)
(* What SetClock, the divider and the resets keep.  The divider in the     *)
(* register is for max_clk, which is never less than the rate of the       *)
(* source that was chosen: dividing the larger rate far enough divides the *)
(* smaller one far enough too.                                             *)
(***************************************************************************)
ClockTyped ==
  /\ Rated
  /\ cur_clk \in Sources
  /\ clock \in Wanted \cup {0}
  /\ max_clk \in Nat

(* The divider d brings the rate r down to w, or is the last one.          *)
Slows(d, r, w) ==
  /\ d \in Dividers
  /\ r \div d <= w \/ d = 256

ClockInv ==
  /\ ClockTyped
  /\ clk_bus[cur_clk] <= max_clk
  /\ clock # 0 => Nearest(cur_clk, clock)
  /\ pc = "idle" /\ div # 0 => clock # 0 /\ Slows(div, max_clk, clock)

LEMMA ClockInit == Init => ClockInv
<1> SUFFICES ASSUME Init PROVE ClockInv
  OBVIOUS
<1>1. Rated /\ cur_clk = 0 /\ clock = 0 /\ div = 0 /\ max_clk = GetMaxClk
  BY DEF Init, Rated
<1>2. GetMaxClk \in Nat /\ clk_bus[0] <= GetMaxClk
  <2> DEFINE R == {clk_bus[s] : s \in Sources}
  <2>1. IsFiniteSet(R)
    <3>1. IsFiniteSet(Sources)
      BY FS_Interval, 0 \in Int, 3 \in Int DEF Sources
    <3>2. R \subseteq {clk_bus[s] : s \in Sources}
      OBVIOUS
    <3> HIDE DEF R
    <3>. QED BY <3>1, <3>2, ImageBound
  <2>2. R \subseteq Nat /\ clk_bus[0] \in R
    BY <1>1, RateTyped DEF Sources
  <2>3. Max(R) \in R /\ \A y \in R : Max(R) >= y
    <3> HIDE DEF R
    <3>1. R \subseteq Int /\ R # {}
      BY <2>2
    <3>. QED BY <2>1, <3>1, MaxOfFinite
  <2>4. GetMaxClk = Max(R)
    BY DEF GetMaxClk
  <2> HIDE DEF R
  <2>. QED BY <2>2, <2>3, <2>4
<1>. QED BY <1>1, <1>2 DEF ClockInv, ClockTyped, Sources

LEMMA ClockNext == ClockInv /\ [Next]_vars => ClockInv'
<1> SUFFICES ASSUME ClockInv, [Next]_vars PROVE ClockInv'
  OBVIOUS
<1>1. Rated /\ ClockTyped
  BY DEF ClockInv, ClockTyped
<1>2. clk_bus' = clk_bus
  BY DEF Next, SetClock, CoreDivides, SetIos, Reset, vars, ourhost
<1>3. Rated'
  BY <1>1, <1>2 DEF Rated
<1>4. ASSUME NEW wanted \in Wanted \cup {0}, SetClock(wanted) PROVE ClockInv'
  <2>1. clock' = wanted /\ pc' = "divide"
    BY <1>4 DEF SetClock
  <2>2. CASE wanted = 0
    <3>1. UNCHANGED <<cur_clk, max_clk>>
      BY <1>4, <2>2 DEF SetClock
    <3>. QED BY <1>2, <1>3, <2>1, <2>2, <3>1 DEF ClockInv, ClockTyped
  <2>3. CASE wanted # 0
    <3>1. BestSource(wanted) \in Sources /\ Nearest(BestSource(wanted), wanted)
      BY <1>1, <2>3, BestSourceIsNearest
    <3>2. cur_clk' = BestSource(wanted)
      BY <1>4, <2>3 DEF SetClock
    <3>3. Nearest(cur_clk, clock)'
      BY <1>2, <2>1, <3>1, <3>2 DEF Nearest, Reaches
    <3>4. max_clk' \in Nat /\ clk_bus'[cur_clk'] <= max_clk'
      <4>1. CASE BestSource(wanted) = cur_clk
        BY <1>2, <1>4, <3>2, <4>1 DEF SetClock, ClockInv, ClockTyped
      <4>2. CASE BestSource(wanted) # cur_clk
        <5>1. max_clk' = clk_bus[cur_clk']
          BY <1>4, <2>3, <4>2 DEF SetClock
        <5>2. clk_bus[cur_clk'] \in Nat
          BY <1>1, <3>1, <3>2, RateTyped
        <5>. QED BY <1>2, <5>1, <5>2
      <4>. QED BY <4>1, <4>2
    <3>. QED BY <1>3, <2>1, <3>1, <3>2, <3>3, <3>4 DEF ClockInv, ClockTyped
  <2>. QED BY <2>2, <2>3
<1>5. CASE CoreDivides
  <2>1. UNCHANGED <<cur_clk, clock, max_clk>>
    BY <1>5 DEF CoreDivides, ourhost
  <2>2. Nearest(cur_clk, clock) => Nearest(cur_clk, clock)'
    BY <1>2, <2>1 DEF Nearest, Reaches
  <2>3. CASE clock = 0
    <3>1. div' = 0
      BY <1>5, <2>3 DEF CoreDivides
    <3>. QED BY <1>2, <1>3, <2>1, <2>2, <3>1 DEF ClockInv, ClockTyped
  <2>4. CASE clock # 0
    <3>1. div' = Divider(max_clk, clock)
      BY <1>5, <2>4 DEF CoreDivides
    <3>2. max_clk \in Nat /\ clock \in Nat
      BY <1>1, <2>4, WantedAssumption DEF ClockTyped
    <3>3. Slows(div', max_clk, clock)
      BY <3>1, <3>2, DividerIsNearest DEF Slows
    <3>. QED BY <1>2, <1>3, <2>1, <2>2, <2>4, <3>3 DEF ClockInv, ClockTyped, Slows
  <2>. QED BY <2>3, <2>4
<1>6. CASE Reset
  <2>1. UNCHANGED <<cur_clk, max_clk>> /\ clock' = 0 /\ div' = 0
    BY <1>6 DEF Reset, ourhost
  <2>. QED BY <1>2, <1>3, <2>1 DEF ClockInv, ClockTyped
<1>7. CASE \/ \E on \in BOOLEAN, width \in {1, 4, 8} : SetIos(on, width)
           \/ UNCHANGED vars
  <2>1. UNCHANGED <<cur_clk, clock, max_clk, pc, div>>
    BY <1>7 DEF SetIos, ourhost, host, regs, vars
  <2>2. Nearest(cur_clk, clock) => Nearest(cur_clk, clock)'
    BY <1>2, <2>1 DEF Nearest, Reaches
  <2>. QED BY <1>2, <1>3, <2>1, <2>2 DEF ClockInv, ClockTyped, Slows
<1>. QED BY <1>4, <1>5, <1>6, <1>7 DEF Next

LEMMA ClockInvariant == Spec => []ClockInv
BY ClockInit, ClockNext, PTL DEF Spec

-----------------------------------------------------------------------------
(* Attained and Reaches say the same.                                      *)
LEMMA AttainedIsReached ==
  ASSUME NEW s, NEW w
  PROVE  Attained(s, w) = {clk_bus[s] \div d : d \in {x \in Dividers : Reaches(s, x, w)}}
<1>1. ASSUME NEW f \in Attained(s, w)
      PROVE  \E d \in Dividers : Reaches(s, d, w) /\ f = clk_bus[s] \div d
  <2>1. PICK k \in 0..8 : f = clk_bus[s] \div 2^k /\ clk_bus[s] # 0 /\ f <= w
    BY DEF Attained
  <2>2. PICK d \in Dividers : d = 2^k
    BY PowersOfTwo
  <2>. QED BY <2>1, <2>2 DEF Reaches
<1>2. ASSUME NEW d \in Dividers, Reaches(s, d, w)
      PROVE  clk_bus[s] \div d \in Attained(s, w)
  <2>1. PICK k \in 0..8 : d = 2^k
    BY PowersOfTwo
  <2>. QED BY <1>2, <2>1 DEF Attained, Reaches
<1>. QED BY <1>1, <1>2

(* The source in use comes as near to the wanted rate as any of the four   *)
(* can, although the differences are unsigned and wrap.                    *)
THEOREM NearestIsChosen == Spec => []NearestSource
<1>1. ClockInv => NearestSource
  <2> SUFFICES ASSUME ClockInv, clock # 0, Attainable(clock) # {}
               PROVE  Max(Attainable(clock)) \in Attained(cur_clk, clock)
    BY DEF NearestSource
  <2>1. PICK w \in Wanted : w = clock
    BY DEF ClockInv, ClockTyped
  <2>2. PICK s \in Sources : s = cur_clk
    BY DEF ClockInv, ClockTyped
  <2>3. Nearest(s, w) /\ Rated
    BY <2>1, <2>2 DEF ClockInv, ClockTyped
  <2>4. \A f \in Attainable(w) : \E t \in Sources, e \in Dividers :
           Reaches(t, e, w) /\ f = clk_bus[t] \div e
    BY AttainedIsReached DEF Attainable
  <2>5. PICK d \in Dividers :
           /\ Reaches(s, d, w)
           /\ \A t \in Sources, e \in Dividers :
                Reaches(t, e, w) => clk_bus[t] \div e <= clk_bus[s] \div d
    BY <2>1, <2>3, <2>4 DEF Nearest
  <2>6. PICK m : m = clk_bus[s] \div d
    OBVIOUS
  <2>7. m \in Attained(s, w) /\ m \in Attainable(w)
    BY <2>5, <2>6, AttainedIsReached DEF Attainable
  <2>8. \A f \in Attainable(w) : f \in Int /\ f <= m
    <3>1. ASSUME NEW t \in Sources, NEW e \in Dividers
          PROVE  clk_bus[t] \div e \in Int
      <4>1. clk_bus[t] \in Nat
        BY <2>3, RateTyped
      <4>. QED BY <4>1 DEF Dividers
    <3>. QED BY <2>4, <2>5, <2>6, <3>1
  <2>9. Max(Attainable(w)) = m
    <3>1. \A x \in Attainable(w) : (\A y \in Attainable(w) : x >= y) <=> x = m
      BY <2>7, <2>8
    <3>2. Max(Attainable(w)) \in Attainable(w)
           /\ \A y \in Attainable(w) : Max(Attainable(w)) >= y
      BY <2>7, <3>1 DEF Max
    <3>. QED BY <3>1, <3>2
  <2>. QED BY <2>1, <2>2, <2>7, <2>9
<1>. QED BY <1>1, ClockInvariant, PTL

(* Where the divider and the source belong together, the card does not run *)
(* faster than asked for, also with a max_clk that is not the source's.    *)
THEOREM CardIsNotTooFast == Spec => []CardNotTooFast
<1>1. ClockInv => CardNotTooFast
  <2> SUFFICES ASSUME ClockInv, pc = "idle", div # 0, select = cur_clk,
                      Attainable(clock) # {}
               PROVE  clk_bus[cur_clk] \div div <= clock
    BY DEF CardNotTooFast
  <2>1. PICK w \in Wanted : w = clock
    BY DEF ClockInv, ClockTyped
  <2>2. PICK s \in Sources : s = cur_clk
    BY DEF ClockInv, ClockTyped
  <2>3. PICK c \in Nat : c = clk_bus[s]
    BY RateTyped DEF ClockInv, ClockTyped
  <2>4. PICK m \in Nat : m = max_clk
    BY DEF ClockInv, ClockTyped
  <2>5. PICK d \in Dividers : d = div
    BY DEF ClockInv, Slows
  <2>6. c <= m /\ w \in Nat
    BY <2>2, <2>3, <2>4, WantedAssumption DEF ClockInv
  <2>7. c \div d <= m \div d /\ c \div d \in Int /\ m \div d \in Int
    BY <2>6, SlowerClock DEF Dividers
  <2>8. m \div d <= w \/ d = 256
    BY <2>1, <2>4, <2>5 DEF ClockInv, Slows
  <2>9. CASE d = 256
    <3>1. PICK t \in Sources, e \in Dividers : Reaches(t, e, w)
      BY <2>1, AttainedIsReached DEF Attainable
    <3>2. PICK b \in Dividers : Reaches(s, b, w)
      BY <2>1, <2>2, <3>1 DEF ClockInv, Nearest
    <3>3. c \div b <= w /\ b <= d /\ c \div b \in Int
      BY <2>3, <2>9, <3>2 DEF Reaches, Dividers
    <3>4. c \div d <= c \div b
      BY <3>3, DividesDown
    <3>. QED BY <2>1, <2>2, <2>3, <2>5, <2>6, <2>7, <3>3, <3>4
  <2>. QED BY <2>1, <2>2, <2>3, <2>5, <2>6, <2>7, <2>8, <2>9
<1>. QED BY <1>1, ClockInvariant, PTL

-----------------------------------------------------------------------------
(***************************************************************************)
(* S3cNand                                                                 *)
(***************************************************************************)
(* The recursion of MapThenSumSet over the parts of the sectors.           *)
LEMMA SumOfFlips ==
  ASSUME NEW c \in [Sectors -> Nat], NEW sum,
         sum = [S \in SUBSET Sectors |->
                  IF S = {} THEN 0
                  ELSE LET x == CHOOSE y \in S : TRUE IN c[x] + sum[S \ {x}]]
  PROVE  /\ \A S \in SUBSET Sectors : sum[S] \in Nat
         /\ \A S \in SUBSET Sectors : \A s \in S : c[s] <= sum[S]
<1> DEFINE Good(S) == sum[S] \in Nat /\ \A s \in S : c[s] <= sum[S]
           Bad == {S \in SUBSET Sectors : ~Good(S)}
<1> SUFFICES ASSUME Bad # {} PROVE FALSE
  OBVIOUS
<1>1. FiniteSubsetsOf(Sectors) = SUBSET Sectors
  <2>1. IsFiniteSet(Sectors)
    BY NandAssumption, FS_Interval DEF Sectors
  <2>. QED BY <2>1, FS_FiniteSubsetsOfFinite
<1>2. PICK S \in Bad : \A T \in Bad : ~(<<T, S>> \in StrictSubsetOrdering(Sectors))
  <2>1. Bad \subseteq FiniteSubsetsOf(Sectors)
    BY <1>1
  <2> HIDE DEF Bad
  <2>. QED BY <2>1, FS_StrictSubsetOrderingWellFounded, WFMin
<1>3. S \in SUBSET Sectors /\ ~Good(S)
  BY <1>2
<1>4. S # {}
  <2> SUFFICES ASSUME S = {} PROVE FALSE
    OBVIOUS
  <2>1. sum[S] = 0
    BY <1>3
  <2>. QED BY <1>3, <2>1
<1>5. PICK x \in S : x = CHOOSE y \in S : TRUE
  BY <1>4
<1>6. sum[S] = c[x] + sum[S \ {x}]
  BY <1>3, <1>4, <1>5
<1>7. S \ {x} \in SUBSET Sectors /\ S \ {x} # S
  BY <1>3, <1>5
<1>8. Good(S \ {x})
  <2> SUFFICES ASSUME S \ {x} \in Bad PROVE FALSE
    BY <1>7
  <2>1. <<S \ {x}, S>> \in StrictSubsetOrdering(Sectors)
    BY <1>3, <1>7 DEF StrictSubsetOrdering
  <2> HIDE DEF Bad
  <2>. QED BY <1>2, <2>1
<1>9. \A s \in S : c[s] \in Nat
  BY <1>3
<1>. QED
  <2>1. c[x] \in Nat /\ sum[S \ {x}] \in Nat
    BY <1>5, <1>8, <1>9
  <2>2. ASSUME NEW s \in S PROVE c[s] <= sum[S]
    <3>1. CASE s = x
      BY <1>6, <2>1, <3>1
    <3>2. CASE s # x
      <4>1. c[s] <= sum[S \ {x}] /\ c[s] \in Nat
        BY <1>8, <1>9, <3>2
      <4>. QED BY <1>6, <2>1, <4>1
    <3>. QED BY <3>1, <3>2
  <2>. QED BY <1>3, <1>6, <2>1, <2>2

(* The recursion has a solution: one that is right for the sets of up to   *)
(* k sectors, put into the equation once, is right for those of k + 1.     *)
LEMMA SumExists ==
  ASSUME NEW c \in [Sectors -> Nat]
  PROVE  \E sum : sum = [S \in SUBSET Sectors |->
                  IF S = {} THEN 0
                  ELSE LET x == CHOOSE y \in S : TRUE IN c[x] + sum[S \ {x}]]
<1> DEFINE step(f, S) == IF S = {} THEN 0
                         ELSE LET x == CHOOSE y \in S : TRUE IN c[x] + f[S \ {x}]
           next(f) == [S \in SUBSET Sectors |-> step(f, S)]
           Right(f, k) == \A S \in SUBSET Sectors : Cardinality(S) <= k => f[S] = step(f, S)
           Wrong == {k \in 0..NumSectors : ~\E f : f = [S \in SUBSET Sectors |-> f[S]] /\ Right(f, k)}
<1>1. IsFiniteSet(Sectors) /\ Cardinality(Sectors) = NumSectors
  BY NandAssumption, FS_Interval DEF Sectors
<1>2. ASSUME NEW S \in SUBSET Sectors
      PROVE  IsFiniteSet(S) /\ Cardinality(S) \in Nat /\ Cardinality(S) <= NumSectors
  BY <1>1, FS_Subset, FS_CardinalityType
<1>3. ASSUME NEW S \in SUBSET Sectors, NEW x \in S
      PROVE  Cardinality(S \ {x}) = Cardinality(S) - 1
  BY <1>2, FS_RemoveElement
<1>4. Wrong = {}
  <2> SUFFICES ASSUME Wrong # {} PROVE FALSE
    OBVIOUS
  <2>1. PICK k \in Wrong : \A y \in Wrong : k <= y
    <3>1. Wrong \subseteq 0..NumSectors /\ 0 \in Int /\ NumSectors \in Int
      BY NandAssumption
    <3> HIDE DEF Wrong
    <3>. QED BY <3>1, MinOfRange
  <2>2. k \in 0..NumSectors /\ k \in Nat
    OBVIOUS
  <2>3. CASE k = 0
    <3> DEFINE f == [S \in SUBSET Sectors |-> 0]
    <3>1. Right(f, 0)
      <4> SUFFICES ASSUME NEW S \in SUBSET Sectors, Cardinality(S) <= 0 PROVE f[S] = step(f, S)
        OBVIOUS
      <4>1. Cardinality(S) = 0
        BY <1>2
      <4>2. S = {}
        BY <1>2, <4>1, FS_EmptySet
      <4>. QED BY <4>2
    <3>2. f = [S \in SUBSET Sectors |-> f[S]]
      OBVIOUS
    <3> HIDE DEF f, Right
    <3>. QED BY <2>3, <3>1, <3>2
  <2>4. CASE k # 0
    <3>1. k - 1 \in 0..NumSectors /\ ~(k <= k - 1)
      <4> HIDE DEF Wrong
      <4>. QED BY <2>2, <2>4, NandAssumption
    <3>2. k - 1 \notin Wrong
      <4> HIDE DEF Wrong
      <4>. QED BY <2>1, <3>1
    <3>3. PICK f : f = [S \in SUBSET Sectors |-> f[S]] /\ Right(f, k - 1)
      <4> HIDE DEF Right
      <4>. QED BY <3>1, <3>2
    <3>4. Right(next(f), k)
      <4> SUFFICES ASSUME NEW S \in SUBSET Sectors, Cardinality(S) <= k
                   PROVE  next(f)[S] = step(next(f), S)
        OBVIOUS
      <4>1. CASE S = {}
        BY <4>1
      <4>2. CASE S # {}
        <5>1. PICK x \in S : x = CHOOSE y \in S : TRUE
          BY <4>2
        <5>2. S \ {x} \in SUBSET Sectors
          OBVIOUS
        <5>3. Cardinality(S \ {x}) <= k - 1
          BY <1>2, <1>3, <2>2
        <5>4. f[S \ {x}] = step(f, S \ {x})
          <6> HIDE DEF step
          <6>. QED BY <3>3, <5>2, <5>3
        <5>5. next(f)[S \ {x}] = f[S \ {x}]
          <6>1. next(f)[S \ {x}] = step(f, S \ {x})
            <7> HIDE DEF step
            <7>. QED BY <5>2
          <6> HIDE DEF step, next
          <6>. QED BY <5>4, <6>1
        <5>6. next(f)[S] = c[x] + f[S \ {x}]
          BY <4>2, <5>1
        <5>7. step(next(f), S) = c[x] + next(f)[S \ {x}]
          <6> HIDE DEF next
          <6>. QED BY <4>2, <5>1
        <5> HIDE DEF next, step
        <5>. QED BY <5>5, <5>6, <5>7
      <4>. QED BY <4>1, <4>2
    <3>5. next(f) = [S \in SUBSET Sectors |-> next(f)[S]]
      OBVIOUS
    <3> HIDE DEF next, Right
    <3>. QED BY <2>2, <3>4, <3>5
  <2>. QED BY <2>3, <2>4
<1>5. PICK f : f = [S \in SUBSET Sectors |-> f[S]] /\ Right(f, NumSectors)
  <2>1. NumSectors \in 0..NumSectors
    BY NandAssumption
  <2> HIDE DEF Right
  <2>. QED BY <1>4, <2>1
<1>6. \A S \in SUBSET Sectors : f[S] = step(f, S)
  BY <1>2, <1>5
<1>7. f = [S \in SUBSET Sectors |-> step(f, S)]
  <2> HIDE DEF step
  <2>. QED BY <1>5, <1>6
<1>. QED BY <1>7

(* The bits that went bad in the spare area are the ones in the free bytes *)
(* and no fewer than those in any code.                                    *)
LEMMA SpareFlipsBounds ==
  ASSUME NEW p, p.free.flips \in Nat, \A s \in Sectors : p.code[s].flips \in Nat
  PROVE  /\ SpareFlips(p) \in Nat
         /\ p.free.flips <= SpareFlips(p)
         /\ \A s \in Sectors : p.code[s].flips + p.free.flips <= SpareFlips(p)
<1>1. PICK c \in [Sectors -> Nat] : \A s \in Sectors : c[s] = p.code[s].flips
  <2> DEFINE c == [s \in Sectors |-> p.code[s].flips]
  <2>1. c \in [Sectors -> Nat]
    OBVIOUS
  <2>. QED BY <2>1
<1> DEFINE step(f, S) == IF S = {} THEN 0
                         ELSE LET x == CHOOSE y \in S : TRUE IN p.code[x].flips + f[S \ {x}]
           sum == CHOOSE f : f = [S \in SUBSET Sectors |-> step(f, S)]
<1>2. SpareFlips(p) = p.free.flips + sum[Sectors]
  BY DEF SpareFlips, MapThenSumSet, MapThenFoldSet
<1>3. sum = [S \in SUBSET Sectors |->
              IF S = {} THEN 0
              ELSE LET x == CHOOSE y \in S : TRUE IN c[x] + sum[S \ {x}]]
  <2>1. \A f : [S \in SUBSET Sectors |-> step(f, S)] =
               [S \in SUBSET Sectors |-> IF S = {} THEN 0
                  ELSE LET x == CHOOSE y \in S : TRUE IN c[x] + f[S \ {x}]]
    <3> DEFINE other(f, S) == IF S = {} THEN 0
                              ELSE LET x == CHOOSE y \in S : TRUE IN c[x] + f[S \ {x}]
    <3>1. ASSUME NEW f, NEW S \in SUBSET Sectors PROVE step(f, S) = other(f, S)
      <4>1. CASE S = {}
        BY <4>1
      <4>2. CASE S # {}
        <5>1. PICK x \in S : x = CHOOSE y \in S : TRUE
          BY <4>2
        <5>2. x \in Sectors
          OBVIOUS
        <5>. QED BY <1>1, <4>2, <5>1, <5>2
      <4>. QED BY <4>1, <4>2
    <3>2. \A f : [S \in SUBSET Sectors |-> step(f, S)] = [S \in SUBSET Sectors |-> other(f, S)]
      <4> HIDE DEF step, other
      <4>. QED BY <3>1
    <3>. QED BY <3>2
  <2>2. PICK f : f = [S \in SUBSET Sectors |->
                  IF S = {} THEN 0
                  ELSE LET x == CHOOSE y \in S : TRUE IN c[x] + f[S \ {x}]]
    BY SumExists
  <2>3. f = [S \in SUBSET Sectors |-> step(f, S)]
    <3> HIDE DEF step
    <3>. QED BY <2>1, <2>2
  <2>4. sum = [S \in SUBSET Sectors |-> step(sum, S)]
    <3> HIDE DEF step
    <3>. QED BY <2>3
  <2> HIDE DEF sum, step
  <2>. QED BY <2>1, <2>4
<1> HIDE DEF sum
<1>4. sum[Sectors] \in Nat /\ \A s \in Sectors : c[s] <= sum[Sectors]
  BY <1>3, SumOfFlips
<1>. QED BY <1>1, <1>2, <1>4

-----------------------------------------------------------------------------
(* The code of a sector, and what the engine holds after writing it: it    *)
(* starts from nothing each time, so the sector before does not matter.    *)
SectorCode(v) == CodeOf(CalculateEcc(Feed(EnableHwecc(IdleEngine, "write"), v)))

After(buf, n) == IF n = 0 THEN IdleEngine
                 ELSE CalculateEcc(Feed(EnableHwecc(IdleEngine, "write"), buf[n]))

LEMMA EngineRestarts ==
  ASSUME NEW buf, NEW n, NEW v
  PROVE  CalculateEcc(Feed(EnableHwecc(After(buf, n), "write"), v)) =
         CalculateEcc(Feed(EnableHwecc(IdleEngine, "write"), v))
<1>1. After(buf, n).enc
  BY DEF After, IdleEngine, CalculateEcc, Feed, EnableHwecc
<1>2. EnableHwecc(After(buf, n), "write") = EnableHwecc(IdleEngine, "write")
  BY <1>1 DEF EnableHwecc, IdleEngine
<1>. QED BY <1>2

LEMMA EncodedIs ==
  ASSUME NEW buf \in [Sectors -> Values]
  PROVE  /\ Encoded(buf).e = After(buf, NumSectors)
         /\ Encoded(buf).codes = [s \in Sectors |-> SectorCode(buf[s])]
<1> DEFINE next(f, n) ==
             IF n = 0 THEN [e |-> IdleEngine, codes |-> <<>>]
             ELSE LET before == f[n - 1]
                      e == CalculateEcc(Feed(EnableHwecc(before.e, "write"), buf[n]))
                  IN [e |-> e, codes |-> Append(before.codes, CodeOf(e))]
           codes(n) == [s \in 1..n |-> SectorCode(buf[s])]
           f == [n \in 0..NumSectors |-> [e |-> After(buf, n), codes |-> codes(n)]]
           upto == CHOOSE g : g = [n \in 0..NumSectors |-> next(g, n)]
<1>1. NumSectors \in Nat /\ 1..NumSectors = Sectors
  BY NandAssumption DEF Sectors
<1>2. codes(0) = <<>>
  OBVIOUS
<1>3. ASSUME NEW n \in 1..NumSectors
      PROVE  codes(n) = Append(codes(n - 1), SectorCode(buf[n]))
  <2>1. n \in Nat /\ n - 1 \in Nat /\ n - 1 + 1 = n
    BY <1>1
  <2>2. Len(codes(n - 1)) = n - 1
    BY <2>1
  <2>3. \A s \in 1..n : s # n => s \in 1..(n - 1)
    BY <2>1
  <2>. QED BY <2>1, <2>2, <2>3
<1>4. \A n \in 0..NumSectors : f[n] = next(f, n)
  <2> SUFFICES ASSUME NEW n \in 0..NumSectors PROVE f[n] = next(f, n)
    OBVIOUS
  <2>1. CASE n = 0
    BY <1>1, <1>2, <2>1 DEF After
  <2>2. CASE n # 0
    <3>1. n \in 1..NumSectors /\ n - 1 \in 0..NumSectors
      BY <1>1, <2>2
    <3>2. f[n - 1] = [e |-> After(buf, n - 1), codes |-> codes(n - 1)]
      BY <3>1
    <3>3. CalculateEcc(Feed(EnableHwecc(f[n - 1].e, "write"), buf[n])) = After(buf, n)
      <4>1. f[n - 1].e = After(buf, n - 1)
        BY <3>2
      <4>2. CalculateEcc(Feed(EnableHwecc(After(buf, n - 1), "write"), buf[n])) = After(buf, n)
        BY <2>2, EngineRestarts DEF After
      <4> HIDE DEF f
      <4>. QED BY <4>1, <4>2
    <3>4. CodeOf(After(buf, n)) = SectorCode(buf[n])
      BY <2>2 DEF After, SectorCode
    <3>5. next(f, n) = [e |-> After(buf, n),
                        codes |-> Append(f[n - 1].codes, CodeOf(After(buf, n)))]
      <4> HIDE DEF f
      <4>. QED BY <2>2, <3>3
    <3>6. f[n - 1].codes = codes(n - 1)
      BY <3>2
    <3>7. f[n] = [e |-> After(buf, n), codes |-> codes(n)]
      OBVIOUS
    <3> HIDE DEF f, next, codes
    <3>. QED BY <1>3, <3>1, <3>4, <3>5, <3>6, <3>7
  <2>. QED BY <2>1, <2>2
<1>5. f = [n \in 0..NumSectors |-> next(f, n)]
  <2> HIDE DEF next
  <2>. QED BY <1>4
<1>6. upto = [n \in 0..NumSectors |-> next(upto, n)]
  <2> HIDE DEF next, f
  <2>. QED BY <1>5
<1>7. \A n \in 0..NumSectors : upto[n] = next(upto, n)
  <2> HIDE DEF upto, next
  <2>. QED BY <1>6
<1>8. \A n \in 0..NumSectors : upto[n] = f[n]
  <2> DEFINE Differ == {n \in 0..NumSectors : upto[n] # f[n]}
  <2> SUFFICES ASSUME Differ # {} PROVE FALSE
    OBVIOUS
  <2>1. PICK m \in Differ : \A y \in Differ : m <= y
    <3>1. Differ \subseteq 0..NumSectors /\ 0 \in Int /\ NumSectors \in Int
      BY <1>1
    <3> HIDE DEF Differ
    <3>. QED BY <3>1, MinOfRange
  <2> HIDE DEF upto, f
  <2>2. m \in 0..NumSectors /\ upto[m] # f[m]
    OBVIOUS
  <2>3. CASE m = 0
    <3>1. next(upto, m) = next(f, m)
      BY <2>3
    <3> HIDE DEF next
    <3>. QED BY <1>4, <1>7, <2>2, <3>1
  <2>4. CASE m # 0
    <3>1. m - 1 \in 0..NumSectors /\ ~(m <= m - 1)
      <4> HIDE DEF Differ
      <4>. QED BY <1>1, <2>2, <2>4
    <3>2. upto[m - 1] = f[m - 1]
      BY <2>1, <3>1
    <3>3. next(upto, m) = next(f, m)
      BY <3>2
    <3> HIDE DEF next
    <3>. QED BY <1>4, <1>7, <2>2, <3>3
  <2>. QED BY <2>3, <2>4
<1>9. upto[NumSectors] = f[NumSectors] /\ NumSectors \in 0..NumSectors
  <2>1. NumSectors \in 0..NumSectors
    BY <1>1
  <2> HIDE DEF upto, f
  <2>. QED BY <1>8, <2>1
<1>10. Encoded(buf) = upto[NumSectors]
  BY DEF Encoded
<1>11. f[NumSectors] = [e |-> After(buf, NumSectors), codes |-> codes(NumSectors)]
  BY <1>9
<1> HIDE DEF upto, f
<1>. QED BY <1>1, <1>9, <1>10, <1>11

-----------------------------------------------------------------------------
(* The page as a whole: its parts, and flips that can be counted.          *)
IsCell(c) == /\ c = [val |-> c.val, flips |-> c.flips, onMarks |-> c.onMarks]
             /\ c.flips \in Nat /\ c.onMarks \in BOOLEAN

IsPage(p) ==
  /\ p = [data |-> p.data, code |-> p.code, free |-> p.free, secc |-> p.secc]
  /\ p.data = [s \in Sectors |-> p.data[s]] /\ \A s \in Sectors : IsCell(p.data[s])
  /\ p.code = [s \in Sectors |-> p.code[s]] /\ \A s \in Sectors : IsCell(p.code[s])
  /\ IsCell(p.free) /\ IsCell(p.secc)

SameValues(p, q) ==
  /\ \A s \in Sectors : p.data[s].val = q.data[s].val /\ p.code[s].val = q.code[s].val
  /\ p.free.val = q.free.val /\ p.secc.val = q.secc.val

(* What the spare code of the page would be, had it been computed last.    *)
SpareCodeOf(p) ==
  SpareCode(IdleEngine, p.free.val, [s \in Sectors |-> p.code[s].val])

Written == \E i \in DOMAIN programs : programs[i] = "page"

(* The sectors hold what was written and the codes belong to it; until the *)
(* second program the spare area holds one code, and it belongs to it.     *)
PageInv ==
  /\ chip \in Chips
  /\ IsPage(page)
  /\ programs \in Seq({"page", "oob"})
  /\ wrote = [data |-> wrote.data, free |-> wrote.free]
  /\ \A s \in Sectors : page.data[s].val = wrote.data[s]
  /\ IF Written THEN \A s \in Sectors : page.code[s].val = SectorCode(wrote.data[s])
                ELSE \A s \in Sectors : wrote.data[s] = ff /\ page.code[s].val = ff
  /\ nand_type = "SLC" /\ Len(programs) <= 1 =>
       page.free.val = wrote.free /\ page.secc.val = SpareCodeOf(page)
  /\ programs = <<>> => page.free.val = ff /\ page.secc.val = ff /\ wrote.free = ff

LEMMA NandTypes ==
  ASSUME chip \in Chips
  PROVE  nand_type \in {"SLC", "MLC4", "MLC8"}
<1>1. ASSUME NEW id \in Chips PROVE Identify(id).type \in {"SLC", "MLC4", "MLC8"}
  BY DEF Chips, Id, Identify, IsSlc, Setup
<1>. QED BY <1>1 DEF nand_type

LEMMA StrengthIs ==
  /\ nand_type = "SLC"  => Strength = 1
  /\ nand_type = "MLC4" => Strength = 4
  /\ nand_type = "MLC8" => Strength = 8
BY DEF Strength

LEMMA ProgKeeps ==
  ASSUME NEW c, IsCell(c), NEW v
  PROVE  /\ IsCell(Prog(c, v))
         /\ c.val = ff => Prog(c, v).val = v
BY DEF IsCell, Prog

LEMMA HitKeeps ==
  ASSUME NEW p, IsPage(p), NEW s \in Sectors, NEW n \in Nat, NEW m \in BOOLEAN,
         NEW q,
         \/ q = [p EXCEPT !.data[s].flips = @ + n, !.data[s].onMarks = @ \/ m]
         \/ q = [p EXCEPT !.code[s].flips = @ + n]
         \/ q = [p EXCEPT !.free.flips = @ + n]
         \/ q = [p EXCEPT !.secc.flips = @ + n]
  PROVE  IsPage(q) /\ SameValues(p, q)
<1>1. CASE q = [p EXCEPT !.data[s].flips = @ + n, !.data[s].onMarks = @ \/ m]
  <2> DEFINE d == p.data[s]
             e == [val |-> d.val, flips |-> d.flips + n, onMarks |-> d.onMarks \/ m]
             a == [t \in Sectors |-> IF t = s THEN e ELSE p.data[t]]
  <2>1. d = [val |-> d.val, flips |-> d.flips, onMarks |-> d.onMarks] /\ d.flips \in Nat
    BY DEF IsPage, IsCell
  <2>2. p = [data |-> p.data, code |-> p.code, free |-> p.free, secc |-> p.secc]
    BY DEF IsPage
  <2>7. d.onMarks \in BOOLEAN
    BY DEF IsPage, IsCell
  <2>3. q.data = a /\ q = [data |-> q.data, code |-> p.code, free |-> p.free, secc |-> p.secc]
    <3>1. p.data = [t \in Sectors |-> p.data[t]]
      BY DEF IsPage
    <3>2. DOMAIN p.data = Sectors
      BY <3>1
    <3>4. q = [p EXCEPT !.data = [p.data EXCEPT ![s] = e]]
      <4> DEFINE d1 == [val |-> d.val, flips |-> d.flips + n, onMarks |-> d.onMarks]
                 a1 == [p.data EXCEPT ![s] = d1]
                 q1 == [p EXCEPT !.data[s].flips = @ + n]
      <4>1. q = [q1 EXCEPT !.data[s].onMarks = d.onMarks \/ m]
        BY <1>1
      <4>2. q1 = [p EXCEPT !.data = a1]
        <5>1. [d EXCEPT !.flips = @ + n] = d1
          BY <2>1
        <5> HIDE DEF d1
        <5>. QED BY <5>1
      <4>3. q1.data = a1 /\ q1 = [data |-> a1, code |-> p.code, free |-> p.free, secc |-> p.secc]
        <5> HIDE DEF a1, q1
        <5>. QED BY <2>2, <4>2
      <4>4. a1[s] = d1 /\ DOMAIN a1 = Sectors
        <5> HIDE DEF d1
        <5>. QED BY <3>2
      <4>5. [d1 EXCEPT !.onMarks = d1.onMarks \/ m] = e
        <5>1. d1 = [val |-> d.val, flips |-> d.flips + n, onMarks |-> d.onMarks]
          OBVIOUS
        <5>2. d1.onMarks = d.onMarks
          OBVIOUS
        <5> HIDE DEF d1
        <5>. QED BY <5>1, <5>2
      <4>6. q = [q1 EXCEPT !.data = [a1 EXCEPT ![s] = e]]
        <5>1. [q1 EXCEPT !.data[s].onMarks = d.onMarks \/ m] =
              [q1 EXCEPT !.data = [q1.data EXCEPT ![s] =
                                     [q1.data[s] EXCEPT !.onMarks = d.onMarks \/ m]]]
          <6> HIDE DEF q1
          <6>. QED OBVIOUS
        <5>2. [q1.data[s] EXCEPT !.onMarks = d.onMarks \/ m] = e
          <6>1. d1.onMarks = d.onMarks
            OBVIOUS
          <6> HIDE DEF q1, a1, d1, e
          <6>. QED BY <4>3, <4>4, <4>5, <6>1
        <5> HIDE DEF q1, a1, d1, e
        <5>. QED BY <4>1, <4>3, <5>1, <5>2
      <4>7. [a1 EXCEPT ![s] = e] = [p.data EXCEPT ![s] = e]
        <5> HIDE DEF d1, e
        <5>. QED BY <3>2
      <4> DEFINE X == [p.data EXCEPT ![s] = e]
      <4>8. q = [q1 EXCEPT !.data = X]
        <5> HIDE DEF q1, a1, d1, e
        <5>. QED BY <4>6, <4>7
      <4> HIDE DEF X, q1, a1
      <4>9. [q1 EXCEPT !.data = X] = [data |-> X, code |-> p.code, free |-> p.free, secc |-> p.secc]
        BY <4>3
      <4>10. [p EXCEPT !.data = X] = [data |-> X, code |-> p.code, free |-> p.free, secc |-> p.secc]
        BY <2>2
      <4>11. q = [p EXCEPT !.data = X]
        BY <4>8, <4>9, <4>10
      <4>. QED BY <4>11 DEF X
    <3>5. [p.data EXCEPT ![s] = e] = a
      BY <3>2
    <3>. QED BY <2>2, <3>4, <3>5
  <2>4. \A t \in Sectors : IsCell(a[t]) /\ a[t].val = p.data[t].val
    BY <2>1, <2>7 DEF IsPage, IsCell
  <2>5. a = [t \in Sectors |-> a[t]]
    OBVIOUS
  <2> HIDE DEF a
  <2>6. q.data = a /\ q.code = p.code /\ q.free = p.free /\ q.secc = p.secc
    BY <2>3
  <2>. QED BY <2>3, <2>4, <2>5, <2>6 DEF IsPage, SameValues
<1>2. CASE q = [p EXCEPT !.code[s].flips = @ + n]
  <2> DEFINE d == p.code[s]
             e == [val |-> d.val, flips |-> d.flips + n, onMarks |-> d.onMarks]
             a == [t \in Sectors |-> IF t = s THEN e ELSE p.code[t]]
  <2>1. d = [val |-> d.val, flips |-> d.flips, onMarks |-> d.onMarks] /\ d.flips \in Nat
    BY DEF IsPage, IsCell
  <2>2. p = [data |-> p.data, code |-> p.code, free |-> p.free, secc |-> p.secc]
    BY DEF IsPage
  <2>3. q.code = a /\ q = [data |-> p.data, code |-> q.code, free |-> p.free, secc |-> p.secc]
    <3>1. p.code = [t \in Sectors |-> p.code[t]]
      BY DEF IsPage
    <3>2. DOMAIN p.code = Sectors
      BY <3>1
    <3>3. [d EXCEPT !.flips = @ + n] = e
      BY <2>1
    <3>4. q = [p EXCEPT !.code = [p.code EXCEPT ![s] = e]]
      BY <1>2, <2>1, <2>2, <3>1, <3>2, <3>3
    <3>5. [p.code EXCEPT ![s] = e] = a
      BY <3>2
    <3>. QED BY <2>2, <3>4, <3>5
  <2>4. \A t \in Sectors : IsCell(a[t]) /\ a[t].val = p.code[t].val
    BY <2>1 DEF IsPage, IsCell
  <2>5. a = [t \in Sectors |-> a[t]]
    OBVIOUS
  <2> HIDE DEF a
  <2>6. q.code = a /\ q.data = p.data /\ q.free = p.free /\ q.secc = p.secc
    BY <2>3
  <2>. QED BY <2>3, <2>4, <2>5, <2>6 DEF IsPage, SameValues
<1>3. CASE q = [p EXCEPT !.free.flips = @ + n]
  BY <1>3 DEF IsPage, IsCell, SameValues
<1>4. CASE q = [p EXCEPT !.secc.flips = @ + n]
  BY <1>4 DEF IsPage, IsCell, SameValues
<1>. QED BY <1>1, <1>2, <1>3, <1>4

LEMMA WithPageIs ==
  ASSUME NEW buf, NEW codes, NEW free, IsPage(page)
  PROVE  WithPage(buf, codes, free) =
           [data |-> [s \in Sectors |-> Prog(page.data[s], buf[s])],
            code |-> [s \in Sectors |-> Prog(page.code[s], codes[s])],
            free |-> Prog(page.free, free),
            secc |-> page.secc]
<1> DEFINE D == [s \in Sectors |-> Prog(page.data[s], buf[s])]
           C == [s \in Sectors |-> Prog(page.code[s], codes[s])]
           F == Prog(page.free, free)
<1>1. page = [data |-> page.data, code |-> page.code, free |-> page.free, secc |-> page.secc]
  BY DEF IsPage
<1>2. WithPage(buf, codes, free) = [page EXCEPT !.data = D, !.code = C, !.free = F]
  <2>1. /\ page.data = page["data"] /\ page.code = page["code"] /\ page.free = page["free"]
    OBVIOUS
  <2>. QED BY <1>1 DEF WithPage
<1> HIDE DEF D, C, F
<1>3. [page EXCEPT !.data = D, !.code = C, !.free = F] =
        [data |-> D, code |-> C, free |-> F, secc |-> page.secc]
  <2>1. PICK a, b, c, e : page = [data |-> a, code |-> b, free |-> c, secc |-> e]
    BY <1>1
  <2> DEFINE p1 == [page EXCEPT !.data = D]
             p2 == [p1 EXCEPT !.code = C]
             p3 == [p2 EXCEPT !.free = F]
  <2>2. p1 = [data |-> D, code |-> b, free |-> c, secc |-> e]
    BY <2>1
  <2>3. p2 = [data |-> D, code |-> C, free |-> c, secc |-> e]
    <3> HIDE DEF p1
    <3>. QED BY <2>2
  <2>4. p3 = [data |-> D, code |-> C, free |-> F, secc |-> e]
    <3> HIDE DEF p2
    <3>. QED BY <2>3
  <2>5. [page EXCEPT !.data = D, !.code = C, !.free = F] = p3
    OBVIOUS
  <2> HIDE DEF p3
  <2>. QED BY <2>1, <2>4, <2>5
<1>4. WithPage(buf, codes, free) = [data |-> D, code |-> C, free |-> F, secc |-> page.secc]
  BY <1>2, <1>3
<1>. QED BY <1>4 DEF D, C, F

(* The SLC code of erased bytes is erased bytes.                           *)
LEMMA ErasedCode ==
  ASSUME nand_type = "SLC"
  PROVE  /\ SectorCode(ff) = ff
         /\ SpareCode(IdleEngine, ff, NoCodes) = ff
<1>1. Spare(ff, NoCodes) = ff
  BY DEF Spare, NoCodes
<1>. QED
  BY <1>1 DEF SectorCode, SpareCode, CodeOf, CalculateEcc, Feed, EnableHwecc, IdleEngine

(* The engine of SLC keeps no state a spare code could depend on.          *)
LEMMA SpareCodeRestarts ==
  ASSUME NEW buf, NEW free, NEW codes
  PROVE  SpareCode(After(buf, NumSectors), free, codes) = SpareCode(IdleEngine, free, codes)
BY EngineRestarts DEF SpareCode

(* The stored code of what was written belongs to what is read.            *)
LEMMA SlcMatches ==
  ASSUME nand_type = "SLC", NEW v, NEW k, k.val = SectorCode(v)
  PROVE  Match(CalculateEcc(Feed(EnableHwecc(IdleEngine, "read"), v)), k)
BY DEF Match, SectorCode, CodeOf, CalculateEcc, Feed, EnableHwecc, IdleEngine

LEMMA MlcMatches ==
  ASSUME nand_type \in {"MLC4", "MLC8"}, Supported, NEW v, NEW k, k.val = SectorCode(v)
  PROVE  Match(CalculateEcc(Feed(Feed(EnableHwecc(IdleEngine, "read"), v), k.val)), k)
<1>1. SectorCode(v) = <<nand_type, <<v>>>>
  BY DEF Supported, SectorCode, CodeOf, CalculateEcc, Feed, EnableHwecc, IdleEngine
<1>2. Feed(EnableHwecc(IdleEngine, "read"), v) =
        [ecc |-> nand_type, enc |-> FALSE, locked |-> FALSE, fed |-> <<v>>]
  <2>1. EnableHwecc(IdleEngine, "read") =
          [ecc |-> nand_type, enc |-> FALSE, locked |-> FALSE, fed |-> <<>>]
    <3>1. (IF cpu = "S3C6400" /\ nand_type = "MLC8" THEN "MLC4" ELSE nand_type) = nand_type
      BY DEF Supported
    <3>2. (IF nand_type = "SLC" THEN IdleEngine.enc ELSE "read" = "write") = FALSE
      OBVIOUS
    <3>. QED BY <3>1, <3>2 DEF EnableHwecc
  <2>2. Append(<<>>, v) = <<v>>
    OBVIOUS
  <2> DEFINE x == EnableHwecc(IdleEngine, "read")
  <2>3. x = [ecc |-> nand_type, enc |-> FALSE, locked |-> FALSE, fed |-> <<>>]
    BY <2>1
  <2> HIDE DEF x
  <2>4. Feed(x, v) = [ecc |-> nand_type, enc |-> FALSE, locked |-> FALSE, fed |-> Append(<<>>, v)]
    BY <2>3 DEF Feed
  <2>. QED BY <2>2, <2>4 DEF x
<1> DEFINE e == CalculateEcc(Feed(Feed(EnableHwecc(IdleEngine, "read"), v), k.val))
<1>4. ~e.enc /\ Len(e.fed) = 2 /\ e.fed[1] = v /\ e.fed[2] = k.val
  <2>1. PICK w : w = k.val
    OBVIOUS
  <2> DEFINE two == Append(<<v>>, w)
  <2>2. Len(two) = 2 /\ two[1] = v /\ two[2] = w
    <3>1. <<v>> \in Seq({v, w}) /\ Len(<<v>>) = 1 /\ <<v>>[1] = v
      OBVIOUS
    <3>. QED BY <3>1, AppendProperties
  <2> DEFINE x == Feed(EnableHwecc(IdleEngine, "read"), v)
  <2>3. x = [ecc |-> nand_type, enc |-> FALSE, locked |-> FALSE, fed |-> <<v>>]
    BY <1>2
  <2> HIDE DEF x
  <2>4. Feed(x, w) = [ecc |-> nand_type, enc |-> FALSE, locked |-> FALSE, fed |-> two]
    BY <2>3 DEF Feed
  <2> HIDE DEF two
  <2>5. CalculateEcc(Feed(x, w)).fed = two /\ CalculateEcc(Feed(x, w)).enc = FALSE
    BY <2>4 DEF CalculateEcc
  <2>. QED BY <2>1, <2>2, <2>5 DEF x
<1> HIDE DEF e
<1>5. Match(e, k)
  BY <1>1, <1>4 DEF Match
<1>. QED BY <1>5 DEF e

-----------------------------------------------------------------------------
(* What correct_data can make of a sector.  Up to one flip more than it    *)
(* can take, what it does not report it has repaired; up to what it can    *)
(* take, it repairs.                                                       *)
LEMMA CleanMeansRepaired ==
  ASSUME chip \in Chips,
         NEW d, IsCell(d), NEW k, IsCell(k), NEW match,
         match \/ nand_type # "SLC",
         d.flips + k.flips <= Strength + 1,
         ~(nand_type = "MLC4" /\ d.val \in Marked),
         NEW r \in CorrectData(d, k, match), r.stat # -1
  PROVE  r.flips = 0
<1>1. d.flips \in Nat /\ k.flips \in Nat /\ Strength \in Nat
  BY NandTypes, StrengthIs DEF IsCell
<1>2. CASE NoError(d, k)
  <2>1. d.flips + k.flips = 0
    BY <1>2 DEF NoError
  <2>2. r = Result(d.flips, 0)
    BY <1>2 DEF CorrectData
  <2>. QED BY <1>1, <2>1, <2>2 DEF Result
<1>3. CASE ~NoError(d, k)
  <2>1. r \in Decoded(d, k, match)
    BY <1>3 DEF CorrectData
  <2>2. CASE ~match
    BY <2>1, <2>2 DEF Decoded, Result
  <2>3. CASE match
    BY <1>1, <2>1, <2>3 DEF Decoded, Result
  <2>. QED BY <2>2, <2>3
<1>. QED BY <1>2, <1>3

LEMMA FewAreRepaired ==
  ASSUME chip \in Chips,
         NEW d, IsCell(d), NEW k, IsCell(k),
         IF nand_type = "SLC" THEN d.flips <= 1 /\ k.flips = 0
                              ELSE d.flips + k.flips <= Strength,
         NEW r \in CorrectData(d, k, TRUE)
  PROVE  /\ r.stat # -1
         /\ (nand_type = "MLC4" /\ d.val \in Marked) \/ r.flips = 0
<1>1. d.flips \in Nat /\ k.flips \in Nat /\ Strength \in Nat
  BY NandTypes, StrengthIs DEF IsCell
<1>2. CASE NoError(d, k)
  <2>1. r = Result(d.flips, 0)
    BY <1>2 DEF CorrectData
  <2>2. (nand_type = "MLC4" /\ d.val \in Marked) \/ d.flips + k.flips = 0
    BY <1>2 DEF NoError
  <2>. QED BY <1>1, <2>1, <2>2 DEF Result
<1>3. CASE ~NoError(d, k)
  <2>1. r \in Decoded(d, k, TRUE)
    BY <1>3 DEF CorrectData
  <2>. QED BY <1>1, <2>1, StrengthIs DEF Decoded, Result
<1>. QED BY <1>2, <1>3

(* The spare area as the driver has it after its correction.               *)
Corrected(p, q) ==
  /\ IsPage(q) /\ q.data = p.data /\ q.free.val = p.free.val
  /\ \A s \in Sectors : /\ q.code[s].val = p.code[s].val
                        /\ q.code[s].flips \in {0, p.code[s].flips}

LEMMA FixIs ==
  ASSUME NEW p, IsPage(p), NEW q \in Fix(p)
  PROVE  /\ Corrected(p, q)
         /\ q.free.flips = 0 /\ \A s \in Sectors : q.code[s].flips = 0
<1> DEFINE F == [val |-> p.free.val, flips |-> 0, onMarks |-> p.free.onMarks]
           K(s) == [val |-> p.code[s].val, flips |-> 0, onMarks |-> p.code[s].onMarks]
           C == [s \in Sectors |-> K(s)]
           p1 == [p EXCEPT !.free.flips = 0]
           p2 == [p1 EXCEPT !.code = C]
<1>1. p = [data |-> p.data, code |-> p.code, free |-> p.free, secc |-> p.secc]
  BY DEF IsPage
<1>2. [p.free EXCEPT !.flips = 0] = F
  BY DEF IsPage, IsCell
<1>3. \A s \in Sectors : [p.code[s] EXCEPT !.flips = 0] = K(s)
  <2> SUFFICES ASSUME NEW s \in Sectors PROVE [p.code[s] EXCEPT !.flips = 0] = K(s)
    OBVIOUS
  <2>1. PICK k : k = p.code[s]
    OBVIOUS
  <2>2. k = [val |-> k.val, flips |-> k.flips, onMarks |-> k.onMarks]
    BY <2>1 DEF IsPage, IsCell
  <2>3. [k EXCEPT !.flips = 0] = [val |-> k.val, flips |-> 0, onMarks |-> k.onMarks]
    BY <2>2
  <2>. QED BY <2>1, <2>3
<1>4. p1 = [data |-> p.data, code |-> p.code, free |-> F, secc |-> p.secc]
  <2>1. p1 = [p EXCEPT !.free = [p.free EXCEPT !.flips = 0]]
    BY <1>1
  <2> HIDE DEF F, p1
  <2>2. p1 = [p EXCEPT !.free = F]
    BY <1>2, <2>1
  <2>. QED BY <1>1, <2>2
<1>5. p2 = [data |-> p.data, code |-> C, free |-> F, secc |-> p.secc]
  <2> HIDE DEF p1, C, F
  <2>. QED BY <1>4
<1>6. q = p2
  <2>1. [s \in Sectors |-> [p.code[s] EXCEPT !.flips = 0]] = C
    <3> HIDE DEF K
    <3>. QED BY <1>3
  <2> DEFINE X == [s \in Sectors |-> [p.code[s] EXCEPT !.flips = 0]]
  <2>2. q = [p EXCEPT !.free.flips = 0, !.code = X]
    BY DEF Fix
  <2>3. X = C
    BY <2>1
  <2> HIDE DEF X, C
  <2>. QED BY <2>2, <2>3
<1>7. q.data = p.data /\ q.code = C /\ q.free = F /\ q.secc = p.secc
  <2> HIDE DEF p1, C, F
  <2>. QED BY <1>5, <1>6
<1>8. q = [data |-> q.data, code |-> q.code, free |-> q.free, secc |-> q.secc]
  <2> HIDE DEF p1, C, F
  <2>. QED BY <1>5, <1>6, <1>7
<1>9. IsCell(F) /\ F.flips = 0 /\ F.val = p.free.val
  BY DEF IsPage, IsCell
<1>10. \A s \in Sectors : IsCell(C[s]) /\ C[s].flips = 0 /\ C[s].val = p.code[s].val
  BY DEF IsPage, IsCell
<1>11. C = [s \in Sectors |-> C[s]]
  OBVIOUS
<1> HIDE DEF C, F
<1>. QED BY <1>7, <1>8, <1>9, <1>10, <1>11 DEF IsPage, Corrected

LEMMA SpareIsCorrected ==
  ASSUME chip \in Chips, nand_type = "SLC", IsPage(page),
         page.free.val # "jffs2" => page.secc.val = SpareCodeOf(page),
         SpareAreaFlips <= 2,
         NEW q \in ReadSpare(page)
  PROVE  /\ Corrected(page, q)
         /\ page.free.val # "jffs2" /\ SpareAreaFlips <= 1 =>
              q.free.flips = 0 /\ \A s \in Sectors : q.code[s].flips = 0
<1>1. SpareFlips(page) \in Nat /\ page.secc.flips \in Nat
  BY SpareFlipsBounds DEF IsPage, IsCell
<1>2. Corrected(page, page)
  BY DEF Corrected
<1>3. CASE page.free.val = "jffs2"
  BY <1>2, <1>3 DEF ReadSpare
<1>4. CASE page.free.val # "jffs2"
  <2> DEFINE codes == [s \in Sectors |-> page.code[s].val]
             e == CalculateEcc(Feed(EnableHwecc(IdleEngine, "read"), Spare(page.free.val, codes)))
             d == [val |-> mixed, flips |-> SpareFlips(page), onMarks |-> FALSE]
  <2>1. Match(e, page.secc)
    <3>1. page.secc.val = SectorCode(Spare(page.free.val, codes))
      BY <1>4 DEF SpareCodeOf, SpareCode, SectorCode
    <3>. QED BY <3>1, SlcMatches
  <2>2. PICK r \in CorrectData(d, page.secc, Match(e, page.secc)) :
          q \in IF r.flips = d.flips THEN {page} ELSE IF r.flips = 0 THEN Fix(page) ELSE Hit(page)
    BY <1>4 DEF ReadSpare
  <2>3. r \in Decoded(d, page.secc, TRUE)
    <3>1. r \in CorrectData(d, page.secc, TRUE)
      BY <2>1, <2>2
    <3> HIDE DEF d
    <3>. QED BY <3>1 DEF CorrectData, NoError
  <2>4. d.flips = SpareFlips(page) /\ d.flips + page.secc.flips <= 2
    BY DEF SpareAreaFlips
  <2> HIDE DEF d, e
  <2>5. r.flips \in {0, d.flips} /\ (d.flips + page.secc.flips <= 1 => r.flips = 0)
    BY <1>1, <2>3, <2>4, StrengthIs DEF Decoded, Result
  <2>6. CASE r.flips # d.flips
    <3>1. q \in Fix(page)
      BY <2>2, <2>5, <2>6
    <3>. QED BY <3>1, FixIs
  <2>7. CASE r.flips = d.flips
    <3>1. q = page
      BY <2>2, <2>7
    <3>2. ASSUME SpareAreaFlips <= 1
          PROVE  page.free.flips = 0 /\ \A s \in Sectors : page.code[s].flips = 0
      <4>1. SpareFlips(page) = 0
        BY <2>4, <2>5, <2>7, <3>2 DEF SpareAreaFlips
      <4>2. page.free.flips \in Nat /\ \A s \in Sectors : page.code[s].flips \in Nat
        BY DEF IsPage, IsCell
      <4>3. /\ page.free.flips <= 0
            /\ \A s \in Sectors : page.code[s].flips + page.free.flips <= 0
        BY <4>1, <4>2, SpareFlipsBounds
      <4>. QED BY <4>2, <4>3
    <3>. QED BY <1>2, <3>1, <3>2
  <2>. QED BY <2>6, <2>7
<1>. QED BY <1>3, <1>4

(* The stored code of a sector belongs to what is in it once the page is   *)
(* written, and for SLC before that too.                                   *)
LEMMA CodesBelong ==
  ASSUME PageInv, Supported, NEW p, Corrected(page, p), NEW s \in Sectors,
         nand_type = "SLC" \/ Written,
         NEW r \in ReadSector(p, s)
  PROVE  r \in CorrectData(page.data[s], p.code[s], TRUE)
<1> DEFINE v == page.data[s].val
           k == p.code[s]
           e == Feed(EnableHwecc(IdleEngine, "read"), v)
           f == IF nand_type = "SLC" THEN e ELSE Feed(e, k.val)
<1>1. p.data[s] = page.data[s] /\ k.val = page.code[s].val
  BY DEF Corrected
<1>2. k.val = SectorCode(v)
  <2>1. CASE Written
    BY <1>1, <2>1 DEF PageInv
  <2>2. CASE ~Written
    <3>1. nand_type = "SLC" /\ v = ff /\ k.val = ff
      BY <1>1, <2>2 DEF PageInv
    <3>. QED BY <3>1, ErasedCode
  <2>. QED BY <2>1, <2>2
<1>3. r \in CorrectData(page.data[s], k, Match(CalculateEcc(f), k))
  BY <1>1 DEF ReadSector
<1>4. Match(CalculateEcc(f), k)
  <2>1. nand_type \in {"SLC", "MLC4", "MLC8"}
    BY NandTypes DEF PageInv
  <2>2. CASE nand_type = "SLC"
    <3> HIDE DEF k, v
    <3>. QED BY <1>2, <2>2, SlcMatches
  <2>3. CASE nand_type \in {"MLC4", "MLC8"}
    <3> HIDE DEF k, v
    <3>. QED BY <1>2, <2>3, MlcMatches
  <2>. QED BY <2>1, <2>2, <2>3
<1>5. Match(CalculateEcc(f), k) = TRUE
  BY <1>4 DEF Match
<1> HIDE DEF f, k
<1>6. r \in CorrectData(page.data[s], k, TRUE)
  BY <1>3, <1>5
<1>. QED BY <1>6 DEF k

(* What read_page can give back, and what of the spare area it had then.   *)
LEMMA PageReadings ==
  ASSUME PageInv, ReadPage,
         nand_type = "SLC" => SpareIntact /\ SpareAreaFlips <= 2
  PROVE  \E p : /\ Corrected(page, p)
                /\ nand_type = "SLC" => p \in ReadSpare(page)
                /\ \A s \in Sectors : last'.data[s] \in ReadSector(p, s)
                /\ last'.free = p.free
                /\ last'.behind \in IF nand_type = "SLC" THEN {FALSE} ELSE Behind(last'.data)
<1>1. nand_type \in {"SLC", "MLC4", "MLC8"}
  BY NandTypes DEF PageInv
<1>2. CASE nand_type = "SLC"
  <2>1. last' \in ReadPage1bit
    BY <1>2 DEF ReadPage
  <2>2. PICK p \in ReadSpare(page) : last' \in {Reading(p, r, FALSE) : r \in ReadMain(p)}
    BY <2>1 DEF ReadPage1bit
  <2>3. PICK r \in ReadMain(p) : last' = Reading(p, r, FALSE)
    BY <2>2
  <2>4. Corrected(page, p)
    BY <1>2, SpareIsCorrected DEF PageInv, SpareIntact
  <2>. QED BY <1>2, <2>2, <2>3, <2>4 DEF Reading, ReadMain
<1>3. CASE nand_type # "SLC"
  <2>1. last' \in UNION {{Reading(page, r, b) : b \in Behind(r)} : r \in ReadMain(page)}
    BY <1>1, <1>3 DEF ReadPage, ReadPage4bit, ReadPage8bit
  <2>2. PICK r \in ReadMain(page) : last' \in {Reading(page, r, b) : b \in Behind(r)}
    BY <2>1
  <2>6. PICK b \in Behind(r) : last' = Reading(page, r, b)
    BY <2>2
  <2>3. Corrected(page, page)
    BY DEF Corrected, PageInv
  <2>4. last'.free = page.free /\ \A s \in Sectors : last'.data[s] \in ReadSector(page, s)
    BY <2>6 DEF Reading, ReadMain
  <2>5. last'.behind \in Behind(last'.data)
    BY <2>6 DEF Reading
  <2>. QED BY <1>3, <2>3, <2>4, <2>5
<1>. QED BY <1>2, <1>3

-----------------------------------------------------------------------------
(* Nothing but the chip and the cpu decides what a code is.                *)
LEMMA SameChip ==
  ASSUME UNCHANGED <<chip, cpu>>
  PROVE  /\ nand_type' = nand_type
         /\ \A v : SectorCode(v)' = SectorCode(v)
         /\ \A p : SpareCodeOf(p)' = SpareCodeOf(p)
<1>1. nand_type' = nand_type
  BY DEF nand_type
<1>2. \A v : SectorCode(v)' = SectorCode(v)
  BY <1>1 DEF SectorCode, CodeOf, CalculateEcc, Feed, EnableHwecc, IdleEngine
<1>3. \A p : SpareCodeOf(p)' = SpareCodeOf(p)
  BY <1>1 DEF SpareCodeOf, SpareCode, Spare, CodeOf, CalculateEcc, Feed, EnableHwecc, IdleEngine
<1>. QED BY <1>1, <1>2, <1>3

LEMMA BlankIs ==
  /\ IsPage(Blank)
  /\ \A s \in Sectors : Blank.data[s].val = ff /\ Blank.code[s].val = ff
  /\ Blank.free.val = ff /\ Blank.secc.val = ff
  /\ nand_type = "SLC" => SpareCodeOf(Blank) = ff
<1>1. IsCell(Cell(ff)) /\ Cell(ff).val = ff
  BY DEF IsCell, Cell
<1>2. /\ Blank.data = [s \in Sectors |-> Cell(ff)] /\ Blank.code = [s \in Sectors |-> Cell(ff)]
      /\ Blank.free = Cell(ff) /\ Blank.secc = Cell(ff)
      /\ Blank = [data |-> Blank.data, code |-> Blank.code,
                  free |-> Blank.free, secc |-> Blank.secc]
  BY DEF Blank
<1>3. \A s \in Sectors : Blank.data[s] = Cell(ff) /\ Blank.code[s] = Cell(ff)
  BY <1>2
<1>4. IsPage(Blank)
  <2>1. /\ Blank.data = [s \in Sectors |-> Blank.data[s]]
        /\ Blank.code = [s \in Sectors |-> Blank.code[s]]
    BY <1>2, <1>3
  <2>. QED BY <1>1, <1>2, <1>3, <2>1 DEF IsPage
<1>5. ASSUME nand_type = "SLC" PROVE SpareCodeOf(Blank) = ff
  <2>1. [s \in Sectors |-> Blank.code[s].val] = NoCodes
    BY <1>1, <1>3 DEF NoCodes
  <2>2. Blank.free.val = ff
    BY <1>1, <1>2
  <2>. QED BY <1>5, <2>1, <2>2, ErasedCode DEF SpareCodeOf
<1>. QED BY <1>1, <1>2, <1>3, <1>4, <1>5

LEMMA ErasedPage ==
  ASSUME page = Blank, wrote = [data |-> [s \in Sectors |-> ff], free |-> ff],
         programs = <<>>, chip \in Chips
  PROVE  PageInv
<1>1. programs \in Seq({"page", "oob"}) /\ ~Written
  BY DEF Written
<1>. QED BY <1>1, BlankIs DEF PageInv

LEMMA NandStart == NandInit => PageInv
BY ErasedPage DEF NandInit

LEMMA EraseKeeps == PageInv /\ Erase => PageInv'
<1> DEFINE Erased == /\ page = Blank
                     /\ wrote = [data |-> [s \in Sectors |-> ff], free |-> ff]
                     /\ programs = <<>> /\ chip \in Chips
<1>1. PageInv /\ Erase => Erased'
  BY DEF PageInv, Erase
<1>2. Erased => PageInv
  BY ErasedPage
<1> HIDE DEF Erased
<1>. QED BY <1>1, <1>2, PTL

LEMMA BitsFlipKeeps == PageInv /\ BitsFlip => PageInv'
<1> SUFFICES ASSUME PageInv, BitsFlip PROVE PageInv'
  OBVIOUS
<1>1. IsPage(page') /\ SameValues(page, page')
  <2>1. PICK n \in {1, Strength, Strength + 1}, s \in Sectors :
          \/ \E m \in BOOLEAN :
               page' = [page EXCEPT !.data[s].flips = @ + n, !.data[s].onMarks = @ \/ m]
          \/ page' = [page EXCEPT !.code[s].flips = @ + n]
          \/ page' = [page EXCEPT !.free.flips = @ + n]
          \/ nand_type = "SLC" /\ page' = [page EXCEPT !.secc.flips = @ + n]
    BY DEF BitsFlip
  <2>2. n \in Nat
    BY NandTypes, StrengthIs DEF PageInv
  <2>3. PICK p, q : p = page /\ q = page'
    OBVIOUS
  <2>4. IsPage(p)
    BY <2>3 DEF PageInv
  <2>5. PICK m \in BOOLEAN :
          \/ q = [p EXCEPT !.data[s].flips = @ + n, !.data[s].onMarks = @ \/ m]
          \/ q = [p EXCEPT !.code[s].flips = @ + n]
          \/ q = [p EXCEPT !.free.flips = @ + n]
          \/ q = [p EXCEPT !.secc.flips = @ + n]
    BY <2>1, <2>3
  <2>6. IsPage(q) /\ SameValues(p, q)
    BY <2>2, <2>4, <2>5, HitKeeps
  <2>. QED BY <2>3, <2>6
<1>2. UNCHANGED <<chip, cpu, wrote, programs>>
  BY DEF BitsFlip
<1>3. SpareCodeOf(page') = SpareCodeOf(page)
  <2>1. [s \in Sectors |-> page'.code[s].val] = [s \in Sectors |-> page.code[s].val]
    BY <1>1 DEF SameValues
  <2>2. page'.free.val = page.free.val
    BY <1>1 DEF SameValues
  <2>. QED BY <2>1, <2>2 DEF SpareCodeOf
<1>4. SpareCodeOf(page)' = SpareCodeOf(page)
  BY <1>2, <1>3, SameChip
<1>5. Written' <=> Written
  BY <1>2 DEF Written
<1>. QED BY <1>1, <1>2, <1>4, <1>5, SameChip DEF PageInv, SameValues

(* WriteOob leaves the sectors alone, and the spare code it computes is of *)
(* the whole area only while the codes are erased.                         *)
LEMMA WriteOobKeeps ==
  ASSUME PageInv, NEW free \in FreeValues \ {ff}, WriteOob(free)
  PROVE  PageInv'
<1> DEFINE F == Prog(page.free, free)
           X == IF nand_type = "SLC" THEN Prog(page.secc, SpareCode(IdleEngine, free, NoCodes))
                ELSE page.secc
<1>1. page' = [data |-> page.data, code |-> page.code, free |-> F, secc |-> X]
  <2>1. page = [data |-> page.data, code |-> page.code, free |-> page.free, secc |-> page.secc]
    BY DEF PageInv, IsPage
  <2> DEFINE p1 == [page EXCEPT !.free = F]
  <2>2. p1 = [data |-> page.data, code |-> page.code, free |-> F, secc |-> page.secc]
    <3>1. PICK a, b, c, e : page = [data |-> a, code |-> b, free |-> c, secc |-> e]
      BY <2>1
    <3> HIDE DEF F
    <3>. QED BY <3>1
  <2>3. CASE nand_type = "SLC"
    <3>1. page' = [page EXCEPT !.free = F, !.secc = X]
      BY <2>3 DEF WriteOob, WriteOob1bit
    <3>2. page' = [p1 EXCEPT !.secc = X]
      BY <3>1
    <3> HIDE DEF p1, F, X
    <3>. QED BY <2>2, <3>2
  <2>4. CASE nand_type # "SLC"
    <3>1. page' = p1
      BY <2>4 DEF WriteOob, WriteOobStd
    <3>. QED BY <2>2, <2>4, <3>1
  <2>. QED BY <2>3, <2>4
<1>2. /\ IsCell(F) /\ IsCell(X)
      /\ page.free.val = ff => F.val = free
      /\ page.secc.val = ff /\ nand_type = "SLC" => X.val = SpareCode(IdleEngine, free, NoCodes)
  BY ProgKeeps DEF PageInv, IsPage
<1> HIDE DEF F, X
<1>3. page'.data = page.data /\ page'.code = page.code /\ page'.free = F /\ page'.secc = X
  BY <1>1
<1>4. IsPage(page')
  BY <1>1, <1>2, <1>3 DEF PageInv, IsPage
<1>5. programs' = Append(programs, "oob") /\ UNCHANGED <<chip, cpu>>
  BY DEF WriteOob, Programming
<1>6. programs' \in Seq({"page", "oob"}) /\ (Written' <=> Written)
      /\ (Len(programs') <= 1 => programs = <<>>) /\ programs' # <<>>
  <2>1. PICK q \in Seq({"page", "oob"}) : q = programs
    BY DEF PageInv
  <2>2. /\ Append(q, "oob") \in Seq({"page", "oob"}) /\ Len(Append(q, "oob")) = Len(q) + 1
        /\ \A i \in 1..Len(q) : Append(q, "oob")[i] = q[i]
        /\ Append(q, "oob")[Len(q) + 1] = "oob"
    BY AppendProperties
  <2>3. Len(q) \in Nat /\ (Len(q) = 0 => q = <<>>)
    BY EmptySeq
  <2>4. DOMAIN Append(q, "oob") = 1..(Len(q) + 1) /\ DOMAIN q = 1..Len(q)
    BY <2>2
  <2>5. (\E i \in DOMAIN Append(q, "oob") : Append(q, "oob")[i] = "page") <=>
        (\E i \in DOMAIN q : q[i] = "page")
    <3> DEFINE a == Append(q, "oob")
    <3> HIDE DEF a
    <3>1. DOMAIN a = 1..(Len(q) + 1) /\ \A i \in 1..Len(q) : a[i] = q[i]
      BY <2>2, <2>4 DEF a
    <3>2. a[Len(q) + 1] = "oob"
      BY <2>2 DEF a
    <3>3. \A i \in 1..(Len(q) + 1) : i \in 1..Len(q) \/ i = Len(q) + 1
      BY <2>3
    <3>4. \A i \in 1..Len(q) : i \in 1..(Len(q) + 1)
      BY <2>3
    <3>5. (\E i \in DOMAIN a : a[i] = "page") <=> (\E i \in DOMAIN q : q[i] = "page")
      BY <2>4, <3>1, <3>2, <3>3, <3>4
    <3>. QED BY <3>5 DEF a
  <2>6. Append(q, "oob") # <<>> /\ (Len(Append(q, "oob")) <= 1 => q = <<>>)
    BY <2>2, <2>3
  <2>. QED BY <1>5, <2>1, <2>2, <2>5, <2>6 DEF Written
<1>7. wrote' = [data |-> wrote.data, free |-> free]
  <2>1. wrote' = [wrote EXCEPT !.free = free]
    BY DEF WriteOob
  <2>2. PICK a, b : wrote = [data |-> a, free |-> b]
    BY DEF PageInv
  <2>. QED BY <2>1, <2>2
<1>8. ASSUME nand_type = "SLC", Len(programs') <= 1
      PROVE  page'.free.val = free /\ page'.secc.val = SpareCodeOf(page')
  <2>1. programs = <<>>
    BY <1>6, <1>8
  <2>2. ~Written
    BY <2>1 DEF Written
  <2>3. page.free.val = ff /\ page.secc.val = ff /\ \A s \in Sectors : page.code[s].val = ff
    BY <2>1, <2>2 DEF PageInv
  <2>4. [s \in Sectors |-> page'.code[s].val] = NoCodes
    BY <1>3, <2>3 DEF NoCodes
  <2>. QED BY <1>2, <1>3, <1>8, <2>3, <2>4 DEF SpareCodeOf
<1>9. SpareCodeOf(page)' = SpareCodeOf(page')
  BY <1>5, SameChip
<1>. QED BY <1>3, <1>4, <1>5, <1>6, <1>7, <1>8, <1>9, SameChip DEF PageInv

(* A page is programmed over erased sectors, so each holds its own value   *)
(* and its own code, and the spare code is of the codes that are there.    *)
LEMMA WritePageIs ==
  ASSUME chip \in Chips, IsPage(page),
         NEW buf \in [Sectors -> Values], NEW free \in FreeValues, WritePage(buf, free)
  PROVE  page' = [data |-> [s \in Sectors |-> Prog(page.data[s], buf[s])],
                  code |-> [s \in Sectors |-> Prog(page.code[s], SectorCode(buf[s]))],
                  free |-> Prog(page.free, free),
                  secc |-> IF nand_type = "SLC"
                             THEN Prog(page.secc, SpareCode(IdleEngine, free,
                                         [s \in Sectors |-> SectorCode(buf[s])]))
                             ELSE page.secc]
<1> DEFINE codes == [s \in Sectors |-> SectorCode(buf[s])]
           D == [s \in Sectors |-> Prog(page.data[s], buf[s])]
           C == [s \in Sectors |-> Prog(page.code[s], SectorCode(buf[s]))]
           F == Prog(page.free, free)
           W == WithPage(buf, codes, free)
           X == Prog(page.secc, SpareCode(IdleEngine, free, codes))
<1>1. Encoded(buf).codes = codes /\ Encoded(buf).e = After(buf, NumSectors)
  BY EncodedIs
<1>2. W = [data |-> D, code |-> C, free |-> F, secc |-> page.secc]
  <2>1. [s \in Sectors |-> Prog(page.code[s], codes[s])] = C
    OBVIOUS
  <2>2. W = [data |-> D, code |-> [s \in Sectors |-> Prog(page.code[s], codes[s])],
             free |-> F, secc |-> page.secc]
    BY WithPageIs
  <2> HIDE DEF W, D, C, F, codes
  <2>. QED BY <2>1, <2>2
<1>3. CASE nand_type = "SLC"
  <2>1. page' = WritePage1bit(buf, free)
    BY <1>3 DEF WritePage
  <2>2. page' = [WithPage(buf, Encoded(buf).codes, free) EXCEPT
                   !.secc = Prog(@, SpareCode(Encoded(buf).e, free, Encoded(buf).codes))]
    BY <2>1 DEF WritePage1bit
  <2> HIDE DEF codes
  <2>3. page' = [W EXCEPT !.secc = Prog(@, SpareCode(After(buf, NumSectors), free, codes))]
    BY <1>1, <2>2
  <2>4. page' = [W EXCEPT !.secc = Prog(@, SpareCode(IdleEngine, free, codes))]
    BY <2>3, SpareCodeRestarts
  <2> HIDE DEF W, D, C, F
  <2>5. W.secc = page.secc
    BY <1>2
  <2>6. page' = [W EXCEPT !.secc = X]
    BY <2>4, <2>5
  <2> HIDE DEF X
  <2>7. [W EXCEPT !.secc = X] = [data |-> D, code |-> C, free |-> F, secc |-> X]
    BY <1>2
  <2>8. page' = [data |-> D, code |-> C, free |-> F, secc |-> X]
    BY <2>6, <2>7
  <2>. QED BY <1>3, <2>8 DEF D, C, F, X, codes
<1>4. CASE nand_type # "SLC"
  <2>1. page' = WithPage(buf, Encoded(buf).codes, free)
    BY <1>4, NandTypes DEF WritePage, WritePage4bit, WritePage8bit
  <2>2. page' = W
    <3> HIDE DEF codes
    <3>. QED BY <1>1, <2>1
  <2> HIDE DEF W
  <2>. QED BY <1>2, <1>4, <2>2
<1>. QED BY <1>3, <1>4

LEMMA WritePageKeeps ==
  ASSUME PageInv, NEW buf \in [Sectors -> Values], NEW free \in FreeValues,
         WritePage(buf, free)
  PROVE  PageInv'
<1> DEFINE codes == [s \in Sectors |-> SectorCode(buf[s])]
           D == [s \in Sectors |-> Prog(page.data[s], buf[s])]
           C == [s \in Sectors |-> Prog(page.code[s], SectorCode(buf[s]))]
           F == Prog(page.free, free)
           X == IF nand_type = "SLC" THEN Prog(page.secc, SpareCode(IdleEngine, free, codes))
                ELSE page.secc
<1>1. page' = [data |-> D, code |-> C, free |-> F, secc |-> X]
  BY WritePageIs DEF PageInv
<1>2. ~Written
  BY DEF WritePage, Written
<1>3. \A s \in Sectors : page.data[s].val = ff /\ page.code[s].val = ff
  BY <1>2 DEF PageInv
<1>4. /\ D = [s \in Sectors |-> D[s]] /\ C = [s \in Sectors |-> C[s]]
      /\ \A s \in Sectors : /\ D[s] = Prog(page.data[s], buf[s])
                            /\ C[s] = Prog(page.code[s], SectorCode(buf[s]))
  OBVIOUS
<1>5. /\ IsCell(F) /\ IsCell(X)
      /\ page.free.val = ff => F.val = free
      /\ page.secc.val = ff /\ nand_type = "SLC" => X.val = SpareCode(IdleEngine, free, codes)
  <2> HIDE DEF codes
  <2>. QED BY ProgKeeps DEF PageInv, IsPage
<1> HIDE DEF D, C, F, X
<1>6. \A s \in Sectors : /\ IsCell(D[s]) /\ D[s].val = buf[s]
                         /\ IsCell(C[s]) /\ C[s].val = SectorCode(buf[s])
  BY <1>3, <1>4, ProgKeeps DEF PageInv, IsPage
<1>7. page'.data = D /\ page'.code = C /\ page'.free = F /\ page'.secc = X
  BY <1>1
<1>8. IsPage(page')
  BY <1>1, <1>4, <1>5, <1>6, <1>7 DEF IsPage
<1>9. programs' = Append(programs, "page") /\ UNCHANGED <<chip, cpu>>
  BY DEF WritePage, Programming
<1>10. programs' \in Seq({"page", "oob"}) /\ Written'
       /\ (Len(programs') <= 1 => programs = <<>>) /\ programs' # <<>>
  <2>1. PICK q \in Seq({"page", "oob"}) : q = programs
    BY DEF PageInv
  <2>2. /\ Append(q, "page") \in Seq({"page", "oob"}) /\ Len(Append(q, "page")) = Len(q) + 1
        /\ Append(q, "page")[Len(q) + 1] = "page"
    BY AppendProperties
  <2>3. Len(q) \in Nat /\ (Len(q) = 0 => q = <<>>)
    BY EmptySeq
  <2>4. Len(q) + 1 \in DOMAIN Append(q, "page")
    BY <2>2, <2>3
  <2>5. Append(q, "page") # <<>> /\ (Len(Append(q, "page")) <= 1 => q = <<>>)
    BY <2>2, <2>3
  <2>6. \E i \in DOMAIN Append(q, "page") : Append(q, "page")[i] = "page"
    BY <2>2, <2>4
  <2>. QED BY <1>9, <2>1, <2>2, <2>5, <2>6 DEF Written
<1>11. wrote' = [data |-> buf, free |-> IF free = ff THEN wrote.free ELSE free]
  BY DEF WritePage
<1>12. wrote'.data = buf /\ wrote'.free = (IF free = ff THEN wrote.free ELSE free)
       /\ wrote' = [data |-> wrote'.data, free |-> wrote'.free]
  BY <1>11
<1>13. ASSUME nand_type = "SLC", Len(programs') <= 1
       PROVE  page'.free.val = wrote'.free /\ page'.secc.val = SpareCodeOf(page')
  <2>1. programs = <<>>
    BY <1>10, <1>13
  <2>2. page.free.val = ff /\ page.secc.val = ff /\ wrote.free = ff
    BY <2>1 DEF PageInv
  <2>3. [s \in Sectors |-> page'.code[s].val] = codes
    BY <1>6, <1>7
  <2>4. page'.free.val = free /\ page'.secc.val = SpareCode(IdleEngine, free, codes)
    <3> HIDE DEF codes
    <3>. QED BY <1>5, <1>7, <1>13, <2>2
  <2> HIDE DEF codes
  <2>5. SpareCodeOf(page') = SpareCode(IdleEngine, free, codes)
    BY <2>3, <2>4 DEF SpareCodeOf
  <2>. QED BY <1>12, <2>2, <2>4, <2>5
<1>14. SpareCodeOf(page)' = SpareCodeOf(page')
  BY <1>9, SameChip
<1> HIDE DEF codes
<1>15. \A s \in Sectors : page'.data[s].val = wrote'.data[s]
                          /\ page'.code[s].val = SectorCode(wrote.data[s])'
  <2> SUFFICES ASSUME NEW s \in Sectors
               PROVE  page'.data[s].val = wrote'.data[s]
                      /\ page'.code[s].val = SectorCode(wrote.data[s])'
    OBVIOUS
  <2>1. page'.data[s].val = buf[s] /\ page'.code[s].val = SectorCode(buf[s]) /\ wrote'.data[s] = buf[s]
    BY <1>6, <1>7, <1>12
  <2>2. SectorCode(wrote.data[s])' = SectorCode(wrote'.data[s])
    BY <1>9, SameChip
  <2>. QED BY <2>1, <2>2
<1>16. (nand_type = "SLC" /\ Len(programs) <= 1 =>
          page.free.val = wrote.free /\ page.secc.val = SpareCodeOf(page))'
  BY <1>9, <1>13, <1>14, SameChip
<1>. QED BY <1>8, <1>9, <1>10, <1>12, <1>15, <1>16 DEF PageInv

LEMMA NandStep == PageInv /\ [NandNext]_nandVars => PageInv'
<1> SUFFICES ASSUME PageInv, [NandNext]_nandVars PROVE PageInv'
  OBVIOUS
<1>1. CASE Erase
  BY <1>1, EraseKeeps
<1>2. CASE \E buf \in [Sectors -> Values], free \in FreeValues : WritePage(buf, free)
  BY <1>2, WritePageKeeps
<1>3. CASE \E free \in FreeValues \ {ff} : WriteOob(free)
  BY <1>3, WriteOobKeeps
<1>4. CASE ReadPage \/ ReadOob \/ UNCHANGED nandVars
  <2>1. UNCHANGED <<chip, cpu, page, wrote, programs>>
    BY <1>4 DEF ReadPage, ReadOob, nandVars
  <2>2. Written' <=> Written
    BY <2>1 DEF Written
  <2>3. SpareCodeOf(page)' = SpareCodeOf(page)
    BY <2>1, SameChip
  <2>. QED BY <2>1, <2>2, <2>3, SameChip DEF PageInv
<1>5. CASE BitsFlip
  BY <1>5, BitsFlipKeeps
<1>. QED BY <1>1, <1>2, <1>3, <1>4, <1>5 DEF NandNext

LEMMA PageInvariant == NandSpec => []PageInv
BY NandStart, NandStep, PTL DEF NandSpec

-----------------------------------------------------------------------------
(* Only a read leaves something read behind.                               *)
LEMMA NothingIsRead ==
  ASSUME [NandNext]_nandVars
  PROVE  \/ last' = Nothing
         \/ UNCHANGED nandVars
         \/ (ReadPage \/ ReadOob) /\ UNCHANGED <<chip, cpu, page, wrote, programs>>
<1>1. CASE Erase
  BY <1>1 DEF Erase
<1>2. CASE \E buf \in [Sectors -> Values], free \in FreeValues : WritePage(buf, free)
  BY <1>2 DEF WritePage, Programming
<1>3. CASE \E free \in FreeValues \ {ff} : WriteOob(free)
  BY <1>3 DEF WriteOob, Programming
<1>4. CASE ReadPage \/ ReadOob
  BY <1>4 DEF ReadPage, ReadOob
<1>5. CASE BitsFlip
  BY <1>5 DEF BitsFlip
<1>. QED BY <1>1, <1>2, <1>3, <1>4, <1>5 DEF NandNext

LEMMA NothingHasNoSectors == Nothing.data = <<>>
BY DEF Nothing

LEMMA OobHasNoSectors == ReadOob => last'.data = <<>>
BY DEF ReadOob, Reading

LEMMA PageRecords ==
  ASSUME PageInv, NEW s \in Sectors
  PROVE  /\ IsCell(page.data[s]) /\ IsCell(page.code[s])
         /\ Strength \in Nat
BY NandTypes, StrengthIs DEF PageInv, IsPage

LEMMA SpareAreaCounted == PageInv => SpareAreaFlips \in Nat
<1> SUFFICES ASSUME PageInv PROVE SpareAreaFlips \in Nat
  OBVIOUS
<1>1. /\ page.free.flips \in Nat /\ page.secc.flips \in Nat
      /\ \A s \in Sectors : page.code[s].flips \in Nat
  BY DEF PageInv, IsPage, IsCell
<1>2. SpareFlips(page) \in Nat
  BY <1>1, SpareFlipsBounds
<1>. QED BY <1>1, <1>2 DEF SpareAreaFlips

(* Whatever was programmed and went bad, a sector read without an error is *)
(* what was written, up to one flip more than the engine can take.         *)
THEOREM CleanReadHolds == NandSpec => []CleanReadIsTrue
<1>1. NandInit => CleanReadIsTrue
  BY NothingHasNoSectors DEF NandInit, CleanReadIsTrue, PageRead
<1>2. PageInv /\ CleanReadIsTrue /\ [NandNext]_nandVars => CleanReadIsTrue'
  <2> SUFFICES ASSUME PageInv, CleanReadIsTrue, [NandNext]_nandVars
               PROVE  CleanReadIsTrue'
    OBVIOUS
  <2>1. CASE last' = Nothing
    BY <2>1, NothingHasNoSectors DEF CleanReadIsTrue, PageRead
  <2>2. CASE UNCHANGED nandVars
    BY <2>2, SameChip DEF nandVars, CleanReadIsTrue, PageRead, Supported, SpareIntact,
       Flips, Strength, SpareAreaFlips, Overruled
  <2>3. CASE ReadOob
    BY <2>3, OobHasNoSectors DEF CleanReadIsTrue, PageRead
  <2>4. CASE ReadPage /\ UNCHANGED <<chip, cpu, page, wrote, programs>>
    <3>1. ASSUME Supported, SpareIntact, NEW s \in Sectors,
                 last'.data[s].stat # -1, Flips(s) <= Strength + 1,
                 nand_type = "SLC" => SpareAreaFlips <= 2, ~Overruled(s)
          PROVE  page.data[s].val = wrote.data[s] /\ last'.data[s].flips = 0
      <4>1. PICK p : /\ Corrected(page, p)
                     /\ \A t \in Sectors : last'.data[t] \in ReadSector(p, t)
        BY <2>4, <3>1, PageReadings
      <4>2. PICK r : r = last'.data[s]
        OBVIOUS
      <4>3. r \in ReadSector(p, s) /\ r.stat # -1
        BY <3>1, <4>1, <4>2
      <4>4. /\ IsCell(p.code[s]) /\ p.data[s] = page.data[s]
            /\ p.code[s].flips \in {0, page.code[s].flips}
        BY <4>1 DEF Corrected, IsPage
      <4>5. page.data[s].flips + p.code[s].flips <= Strength + 1
        <5>1. /\ page.data[s].flips \in Nat /\ page.code[s].flips \in Nat /\ Strength \in Nat
              /\ page.data[s].flips + page.code[s].flips <= Strength + 1
          BY <3>1, PageRecords DEF Flips, IsCell
        <5>2. PICK a, b, c, n : /\ a = page.data[s].flips /\ b = page.code[s].flips
                                /\ c = p.code[s].flips /\ n = Strength
          OBVIOUS
        <5>3. c \in {0, b}
          BY <4>4, <5>2
        <5>. QED BY <5>1, <5>2, <5>3
      <4>6. \E match : (match \/ nand_type # "SLC") /\ r \in CorrectData(page.data[s], p.code[s], match)
        <5>1. CASE nand_type = "SLC"
          BY <3>1, <4>1, <4>3, <5>1, CodesBelong
        <5>2. CASE nand_type # "SLC"
          BY <4>3, <4>4, <5>2 DEF ReadSector
        <5>. QED BY <5>1, <5>2
      <4>7. r.flips = 0
        BY <3>1, <4>3, <4>4, <4>5, <4>6, PageRecords, CleanMeansRepaired
           DEF Overruled, PageInv
      <4>. QED BY <4>2, <4>7 DEF PageInv
    <3>2. /\ Supported' = Supported /\ SpareIntact' = SpareIntact /\ Strength' = Strength
          /\ nand_type' = nand_type /\ SpareAreaFlips' = SpareAreaFlips
          /\ page' = page /\ wrote' = wrote
          /\ \A s \in Sectors : Flips(s)' = Flips(s) /\ Overruled(s)' = Overruled(s)
      BY <2>4, SameChip DEF Supported, SpareIntact, Strength, SpareAreaFlips, Flips, Overruled
    <3>. QED BY <3>1, <3>2 DEF CleanReadIsTrue, PageRead
  <2>. QED BY <2>1, <2>2, <2>3, <2>4, NothingIsRead
<1>. QED BY <1>1, <1>2, PageInvariant, PTL DEF NandSpec

(* The flips the engine is made for are repaired in every written page of  *)
(* an MLC chip and in every page of an SLC chip, never reported as failed. *)
THEOREM FewFlipsAreRepaired == NandSpec => []FewFlipsRepaired
<1>1. NandInit => FewFlipsRepaired
  BY NothingHasNoSectors DEF NandInit, FewFlipsRepaired, PageRead
<1>2. PageInv /\ FewFlipsRepaired /\ [NandNext]_nandVars => FewFlipsRepaired'
  <2> SUFFICES ASSUME PageInv, FewFlipsRepaired, [NandNext]_nandVars
               PROVE  FewFlipsRepaired'
    OBVIOUS
  <2>1. CASE last' = Nothing
    BY <2>1, NothingHasNoSectors DEF FewFlipsRepaired, PageRead
  <2>2. CASE UNCHANGED nandVars
    BY <2>2, SameChip DEF nandVars, FewFlipsRepaired, PageRead, Supported, SpareIntact,
       Flips, Strength, SpareAreaFlips, Overruled
  <2>3. CASE ReadOob
    BY <2>3, OobHasNoSectors DEF FewFlipsRepaired, PageRead
  <2>4. CASE ReadPage /\ UNCHANGED <<chip, cpu, page, wrote, programs>>
    <3>1. ASSUME Supported, SpareIntact, nand_type # "SLC" => Written, NEW s \in Sectors,
                 IF nand_type = "SLC"
                   THEN /\ page.data[s].flips <= 1 /\ SpareAreaFlips <= 1
                        /\ page.free.val = "jffs2" => page.code[s].flips = 0
                   ELSE Flips(s) <= Strength
          PROVE  /\ last'.data[s].stat # -1
                 /\ Overruled(s) \/ last'.data[s].flips = 0
                 /\ s = NumSectors /\ page.code[s].flips = 0 => ~last'.behind
      <4>1. PICK p : /\ Corrected(page, p) /\ (nand_type = "SLC" => p \in ReadSpare(page))
                     /\ \A t \in Sectors : last'.data[t] \in ReadSector(p, t)
                     /\ last'.behind \in IF nand_type = "SLC" THEN {FALSE}
                                         ELSE Behind(last'.data)
        <5>1. SpareAreaFlips <= 1 => SpareAreaFlips <= 2
          <6>1. SpareAreaFlips \in Nat
            BY SpareAreaCounted
          <6>. QED BY <6>1
        <5>. QED BY <2>4, <3>1, <5>1, PageReadings
      <4>2. PICK r : r = last'.data[s]
        OBVIOUS
      <4>3. r \in CorrectData(page.data[s], p.code[s], TRUE)
        BY <3>1, <4>1, <4>2, CodesBelong
      <4>4. IsCell(p.code[s]) /\ p.code[s].flips \in {0, page.code[s].flips}
        BY <4>1 DEF Corrected, IsPage
      <4>5. IF nand_type = "SLC" THEN page.data[s].flips <= 1 /\ p.code[s].flips = 0
            ELSE page.data[s].flips + p.code[s].flips <= Strength
        <5>1. CASE nand_type = "SLC"
          <6>1. CASE page.free.val = "jffs2"
            BY <3>1, <4>4, <5>1, <6>1
          <6>2. CASE page.free.val # "jffs2"
            <7>1. SpareAreaFlips <= 1 /\ SpareAreaFlips <= 2
              <8>1. SpareAreaFlips \in Nat
                BY SpareAreaCounted
              <8>. QED BY <3>1, <5>1, <8>1
            <7>2. p.code[s].flips = 0
              BY <3>1, <4>1, <5>1, <6>2, <7>1, SpareIsCorrected DEF PageInv, SpareIntact
            <7>. QED BY <3>1, <5>1, <7>2
          <6>. QED BY <6>1, <6>2
        <5>2. CASE nand_type # "SLC"
          <6>1. /\ page.data[s].flips \in Nat /\ page.code[s].flips \in Nat /\ Strength \in Nat
                /\ page.data[s].flips + page.code[s].flips <= Strength
            BY <3>1, <5>2, PageRecords DEF Flips, IsCell
          <6>2. PICK a, b, c, n : /\ a = page.data[s].flips /\ b = page.code[s].flips
                                  /\ c = p.code[s].flips /\ n = Strength
            OBVIOUS
          <6>3. c \in {0, b}
            BY <4>4, <6>2
          <6>4. a + c <= n
            BY <6>1, <6>2, <6>3
          <6>. QED BY <5>2, <6>2, <6>4
        <5>. QED BY <5>1, <5>2
      <4>6. r.stat # -1 /\ ((nand_type = "MLC4" /\ page.data[s].val \in Marked) \/ r.flips = 0)
        BY <4>3, <4>4, <4>5, PageRecords, FewAreRepaired DEF PageInv
      <4>7. s = NumSectors /\ page.code[s].flips = 0 => ~last'.behind
        <5>1. CASE nand_type = "SLC"
          BY <4>1, <5>1
        <5>2. CASE nand_type # "SLC" /\ s = NumSectors /\ page.code[s].flips = 0
          <6>1. Flips(s) <= Strength /\ last'.behind \in Behind(last'.data)
            BY <3>1, <4>1, <5>2
          <6>2. Flips(s) \in Nat /\ Strength \in Nat
            <7>1. IsCell(page.data[s]) /\ IsCell(page.code[s]) /\ Strength \in Nat
              BY PageRecords
            <7>2. page.data[s].flips \in Nat /\ page.code[s].flips \in Nat
              BY <7>1 DEF IsCell
            <7>. QED BY <7>1, <7>2 DEF Flips
          <6>3. ~(Flips(s) > Strength + 1) /\ ~(page.code[s].flips > 0)
            BY <5>2, <6>1, <6>2
          <6>. QED BY <5>2, <6>1, <6>3 DEF Behind
        <5>. QED BY <5>1, <5>2
      <4>. QED BY <4>2, <4>6, <4>7 DEF Overruled
    <3>2. /\ Supported' = Supported /\ SpareIntact' = SpareIntact /\ Strength' = Strength
          /\ nand_type' = nand_type /\ SpareAreaFlips' = SpareAreaFlips
          /\ page' = page /\ programs' = programs
          /\ \A s \in Sectors : Flips(s)' = Flips(s) /\ Overruled(s)' = Overruled(s)
      BY <2>4, SameChip DEF Supported, SpareIntact, Strength, SpareAreaFlips, Flips, Overruled
    <3>. QED BY <3>1, <3>2 DEF FewFlipsRepaired, PageRead, Written
  <2>. QED BY <2>1, <2>2, <2>3, <2>4, NothingIsRead
<1>. QED BY <1>1, <1>2, PageInvariant, PTL DEF NandSpec

(* One flip anywhere in the spare area of an SLC chip costs none of the    *)
(* free bytes, neither with read_page nor with read_oob.                   *)
THEOREM FreeBytesAreRepaired == NandSpec => []FreeBytesRepaired
<1>1. NandInit => FreeBytesRepaired
  BY DEF NandInit, FreeBytesRepaired
<1>2. PageInv /\ FreeBytesRepaired /\ [NandNext]_nandVars => FreeBytesRepaired'
  <2> SUFFICES ASSUME PageInv, FreeBytesRepaired, [NandNext]_nandVars
               PROVE  FreeBytesRepaired'
    OBVIOUS
  <2>1. CASE last' = Nothing
    BY <2>1 DEF FreeBytesRepaired, Nothing
  <2>2. CASE UNCHANGED nandVars
    BY <2>2, SameChip DEF nandVars, FreeBytesRepaired, SpareIntact, SpareAreaFlips, Nothing
  <2>3. CASE (ReadPage \/ ReadOob) /\ UNCHANGED <<chip, cpu, page, wrote, programs>>
    <3>1. ASSUME nand_type = "SLC", SpareIntact, page.free.val # "jffs2", SpareAreaFlips <= 1
          PROVE  last'.free.val = wrote.free /\ last'.free.flips = 0
      <4>1. SpareAreaFlips <= 2
        <5>1. SpareAreaFlips \in Nat
          BY SpareAreaCounted
        <5>. QED BY <3>1, <5>1
      <4>2. PICK p \in ReadSpare(page) : last'.free = p.free
        <5>1. CASE ReadPage
          BY <3>1, <4>1, <5>1, PageReadings
        <5>2. CASE ReadOob
          BY <3>1, <5>2 DEF ReadOob, Reading
        <5>. QED BY <2>3, <5>1, <5>2
      <4>3. page.free.val = wrote.free /\ page.secc.val = SpareCodeOf(page)
        BY <3>1 DEF PageInv, SpareIntact
      <4>4. Corrected(page, p) /\ p.free.flips = 0
        BY <3>1, <4>1, <4>3, SpareIsCorrected DEF PageInv
      <4>. QED BY <4>2, <4>3, <4>4 DEF Corrected
    <3>2. /\ SpareIntact' = SpareIntact /\ SpareAreaFlips' = SpareAreaFlips
          /\ nand_type' = nand_type /\ page' = page /\ wrote' = wrote
      BY <2>3, SameChip DEF SpareIntact, SpareAreaFlips
    <3>. QED BY <3>1, <3>2 DEF FreeBytesRepaired
  <2>. QED BY <2>1, <2>2, <2>3, NothingIsRead
<1>. QED BY <1>1, <1>2, PageInvariant, PTL DEF NandSpec

(* The positions of a layout are runs of bytes.                            *)
LEMMA FirstOfRange ==
  ASSUME NEW a \in Nat, NEW b \in Nat, a <= b
  PROVE  Min(a..b) = a
<1> DEFINE R == a..b
<1>1. a \in R /\ R \subseteq a..b /\ a \in Int /\ b \in Int
  OBVIOUS
<1>2. Min(R) \in R /\ \A y \in R : Min(R) <= y
  <2> HIDE DEF R
  <2>. QED BY <1>1, MinOfRange
<1>3. \A y \in R : a <= y /\ y \in Int
  OBVIOUS
<1>4. PICK m \in Int : m = Min(R)
  BY <1>2, <1>3
<1>5. m = a
  <2> HIDE DEF R
  <2>. QED BY <1>1, <1>2, <1>3, <1>4
<1>. QED BY <1>4, <1>5

(* The code positions of every chip lie where read_page looks for them,    *)
(* inside the spare area and clear of the free bytes.                      *)
THEOREM CodesLieWhereReadLooks == NandSpec => []CodesWhereReadLooks
<1>1. CodesWhereReadLooks
  <2> SUFFICES ASSUME NEW id \in Chips
               PROVE  LET chosen == Identify(id)
                          first  == Min(chosen.layout.eccpos)
                          codes  == first .. first + (id.writesize \div 512) * chosen.bytes - 1
                          end    == id.oobsize - (IF chosen.type = "SLC" THEN chosen.bytes ELSE 0)
                      IN /\ chosen.layout.eccpos = codes
                         /\ \A b \in codes \cup chosen.layout.free : b < end
                         /\ codes \cap chosen.layout.free = {}
    BY DEF CodesWhereReadLooks
  <2> DEFINE Fits(type, bytes, first, last1, from, to) ==
               /\ Identify(id).type = type /\ Identify(id).bytes = bytes
               /\ Identify(id).layout.eccpos = first..last1
               /\ Identify(id).layout.free = from..to
               /\ first \in Nat /\ last1 \in Nat /\ first <= last1
               /\ last1 = first + (id.writesize \div 512) * bytes - 1
               /\ from \in Nat /\ to \in Nat /\ to < first
               /\ last1 < id.oobsize - (IF type = "SLC" THEN bytes ELSE 0)
               /\ id.oobsize \in Nat
  <2>1. \E type, bytes, first, last1, from, to : Fits(type, bytes, first, last1, from, to)
    <3>1. CASE id = Id("samsung", "da", "10", 0, 2048, 64)
      <4>1. Fits("SLC", 4, 40, 55, 2, 39)
        BY <3>1 DEF Id, Identify, IsSlc, Setup, Layout
      <4> HIDE DEF Fits
      <4>. QED BY <4>1
    <3>2. CASE id = Id("samsung", "d5", "84", 0, 8192, 436)
      <4>1. Fits("MLC8", 13, 24, 231, 2, 23)
        BY <3>2 DEF Id, Identify, IsSlc, Setup, Layout
      <4> HIDE DEF Fits
      <4>. QED BY <4>1
    <3>3. CASE id = Id("samsung", "d3", "14", 0, 2048, 64)
      <4>1. Fits("MLC4", 8, 32, 63, 2, 29)
        BY <3>3 DEF Id, Identify, IsSlc, Setup, Layout
      <4> HIDE DEF Fits
      <4>. QED BY <4>1
    <3>4. CASE id \in {Id("samsung", "d5", "94", 0, 4096, 218), Id("samsung", "d5", "14", 0, 4096, 128),
                       Id("samsung", "d7", "d5", 0, 4096, 218), Id("micron", "48", "00", 4096, 4096, 128),
                       Id("micron", "38", "00", 4096, 4096, 128)}
      <4>1. Fits("MLC8", 13, 24, 127, 2, 23)
        BY <3>4 DEF Id, Identify, IsSlc, Setup, Layout
      <4> HIDE DEF Fits
      <4>. QED BY <4>1
    <3>. QED BY <3>1, <3>2, <3>3, <3>4 DEF Chips
  <2>2. PICK type, bytes, first, last1, from, to : Fits(type, bytes, first, last1, from, to)
    BY <2>1
  <2>3. Min(first..last1) = first
    BY <2>2, FirstOfRange
  <2> DEFINE codes == first .. first + (id.writesize \div 512) * bytes - 1
             end   == id.oobsize - (IF type = "SLC" THEN bytes ELSE 0)
  <2>4. Identify(id).layout.eccpos = codes /\ Min(Identify(id).layout.eccpos) = first
    BY <2>2, <2>3
  <2>5. Identify(id).bytes = bytes /\ Identify(id).type = type
    BY <2>2
  <2>6. \A b \in codes \cup Identify(id).layout.free : b < end
    <3>1. ASSUME NEW b \in first..last1 PROVE b < end
      <4>1. last1 < end /\ last1 \in Int /\ first \in Int
        BY <2>2
      <4>2. end \in Int
        BY <2>2 DEF Chips, Id, Identify, IsSlc, Setup
      <4> HIDE DEF end
      <4>. QED BY <4>1, <4>2
    <3>2. ASSUME NEW b \in from..to PROVE b < end
      <4>1. last1 < end /\ last1 \in Int /\ first \in Int /\ from \in Int /\ to \in Int
            /\ to < first /\ first <= last1
        BY <2>2
      <4>2. end \in Int
        BY <2>2 DEF Chips, Id, Identify, IsSlc, Setup
      <4> HIDE DEF end
      <4>. QED BY <4>1, <4>2
    <3>3. codes = first..last1 /\ Identify(id).layout.free = from..to
      BY <2>2
    <3> HIDE DEF codes, end
    <3>. QED BY <3>1, <3>2, <3>3
  <2>7. codes \cap Identify(id).layout.free = {}
    <3>1. codes = first..last1 /\ Identify(id).layout.free = from..to
      BY <2>2
    <3>2. (first..last1) \cap (from..to) = {}
      BY <2>2
    <3>. QED BY <3>1, <3>2
  <2>. QED BY <2>4, <2>5, <2>6, <2>7
<1>. QED BY <1>1, PTL
=============================================================================
