------------------------------ MODULE SdhciS3c -------------------------------
(***************************************************************************)
(* The clock of the SD card in 10_MMC_driver/sdhci-s3c.c: the driver picks *)
(* one of four bus clocks for the rate that is wanted (cur_clk and the     *)
(* field of CONTROL2), and the sdhci core, which is not in the repository, *)
(* programs a divider for the rate the driver left in host->max_clk.  A    *)
(* reset of the controller forgets the source and stops the clock; the     *)
(* driver puts the source back when set_ios is called.  The core holds its *)
(* lock over every callback; the order of set_clock and set_ios is open.   *)
(*                                                                         *)
(* unsigned int is arithmetic modulo Word (2^32 in the code, less in TLC). *)
(***************************************************************************)
EXTENDS Integers, FiniteSets, FiniteSetsExt

CONSTANTS Rates,   \* rates a bus clock may have
          Wanted,  \* rates the core may ask for
          Word     \* one more than UINT_MAX

ASSUME RatesAssumption == IsFiniteSet(Rates) /\ Rates \subseteq Nat \ {0}
ASSUME WantedAssumption == Wanted \subseteq Nat \ {0}
ASSUME WordAssumption == Word \in Nat /\ \A r \in Rates, w \in Wanted : r + w < Word

VARIABLES
  clk_bus,     \* rate of each bus clock, 0 if there is none
  cur_clk,     \* ourhost->cur_clk
  select,      \* the source CONTROL2 selects
  max_clk,     \* host->max_clk
  timeout_clk, \* host->timeout_clk, in units of max_clk
  wide,        \* HOST_CONTROL says 8 bit bus
  clock,       \* host->clock, 0 if off
  div,         \* divider in CLOCK_CONTROL, 0 if the card's clock is off
  pc           \* "idle", or "divide" in the core after ops->set_clock

ourhost == <<clk_bus, cur_clk>>
host    == <<max_clk, timeout_clk, clock, pc>>
regs    == <<select, wide, div>>
vars    == <<ourhost, host, regs>>

Sources == 0..3   \* MAX_BUS_CLK
UINT_MAX == Word - 1

(* The divider found by halving: 1, 2, .. 128, or else 256.                *)
Divider(rate, wanted) ==
  Min({2^k : k \in {j \in 0..7 : rate \div 2^j <= wanted}} \cup {256})

-----------------------------------------------------------------------------
(* The mistake of taking the rate of the last clock for the largest.       *)
GetMaxClkLast == clk_bus[Max({s \in Sources : clk_bus[s] # 0})]

GetMaxClk == Max({clk_bus[s] : s \in Sources})

(* The mistake of comparing the differences as signed numbers.             *)
ConsiderClockSigned(src, wanted) ==
  IF clk_bus[src] = 0 THEN UINT_MAX
  ELSE wanted - clk_bus[src] \div Divider(clk_bus[src], wanted)

ConsiderClock(src, wanted) ==
  IF clk_bus[src] = 0 THEN UINT_MAX
  ELSE (wanted - clk_bus[src] \div Divider(clk_bus[src], wanted)) % Word

(* The first source with the least difference below UINT_MAX, or source 0. *)
BestSource(wanted) ==
  LET delta(s) == ConsiderClock(s, wanted)
      least == Min({delta(s) : s \in Sources})
  IN IF least < UINT_MAX THEN Min({s \in Sources : delta(s) = least}) ELSE 0

(* ops->set_clock as the core calls it, for a rate it does not run at.     *)
SetClock(wanted) ==
  /\ pc = "idle" /\ wanted # clock
  /\ IF wanted = 0 \/ BestSource(wanted) = cur_clk
       THEN UNCHANGED <<cur_clk, max_clk, timeout_clk, select, div>>
       ELSE /\ cur_clk' = BestSource(wanted)
            /\ max_clk' = clk_bus[cur_clk']
            /\ timeout_clk' = GetMaxClk
            /\ select' = cur_clk'
            /\ div' = 0
  /\ clock' = wanted /\ pc' = "divide"
  /\ UNCHANGED <<clk_bus, wide>>

(* The core: the clock goes off and on again with its divider.             *)
CoreDivides ==
  /\ pc = "divide" /\ pc' = "idle"
  /\ div' = IF clock = 0 THEN 0 ELSE Divider(max_clk, clock)
  /\ UNCHANGED <<ourhost, max_clk, timeout_clk, clock, select, wide>>

(* ops->set_ios with check_sclk: only a width of 8 touches HOST_CONTROL,   *)
(* and nothing here takes it back.                                         *)
SetIos(on, width) ==
  /\ pc = "idle"
  /\ select' = cur_clk
  /\ wide' = (wide \/ (on /\ width = 8))
  /\ UNCHANGED <<ourhost, host, div>>

(* The core resets the controller: power off, a card gone, resume.         *)
Reset ==
  /\ pc = "idle"
  /\ select' = 0 /\ wide' = FALSE /\ div' = 0 /\ clock' = 0
  /\ UNCHANGED <<ourhost, max_clk, timeout_clk, pc>>

(* After probe: at least one clock, the core has asked for both maxima.    *)
Init ==
  /\ clk_bus \in [Sources -> Rates \cup {0}]
  /\ \E s \in Sources : clk_bus[s] # 0
  /\ cur_clk = 0 /\ select = 0
  /\ max_clk = GetMaxClk /\ timeout_clk = GetMaxClk
  /\ wide = FALSE /\ clock = 0 /\ div = 0 /\ pc = "idle"

Next ==
  \/ \E wanted \in Wanted \cup {0} : SetClock(wanted)
  \/ CoreDivides \/ Reset
  \/ \E on \in BOOLEAN, width \in {1, 4, 8} : SetIos(on, width)

Spec == Init /\ [][Next]_vars

-----------------------------------------------------------------------------
(* The rates at or below the wanted one that a source can be divided to.   *)
Attained(s, wanted) ==
  {f \in {clk_bus[s] \div 2^k : k \in 0..8} : clk_bus[s] # 0 /\ f <= wanted}

Attainable(wanted) == UNION {Attained(s, wanted) : s \in Sources}

(* If any source can be divided to the wanted rate or less, the one chosen *)
(* is the one that comes nearest, although the differences are unsigned    *)
(* and wrap for a source that cannot, and although nothing is chosen anew  *)
(* while the rate stays the same.                                          *)
NearestSource ==
  clock # 0 /\ Attainable(clock) # {}
    => Max(Attainable(clock)) \in Attained(cur_clk, clock)

(* The card never runs faster than asked for, if it can run slower at all, *)
(* also with a max_clk that is not the rate of the source.  Not so between *)
(* a reset and set_ios: the divider is for cur_clk and the source is 0.    *)
CardNotTooFast ==
  pc = "idle" /\ div # 0 /\ select = cur_clk /\ Attainable(clock) # {}
    => clk_bus[select] \div div <= clock

=============================================================================
