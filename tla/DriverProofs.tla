---------------------------- MODULE DriverProofs ----------------------------
(***************************************************************************)
(* Theorems about S3cTs, the ADC lock that the touchscreen shares, and     *)
(* about DriverLifecycle, load and unload of every driver: whatever fails  *)
(* and whatever comes in between, a driver whose scripts keep to the       *)
(* discipline of DriverDiscipline leaves nothing behind but the named      *)
(* gaps, gives back nothing else, and uses nothing it does not have.       *)
(***************************************************************************)
EXTENDS S3cTs, DriverDiscipline, SequenceTheorems, TLAPS

(***************************************************************************)
(* S3cTs, for any set of clients, any number of samples, with or without   *)
(* suspend and with a stylus that bounces at will.                         *)
(***************************************************************************)
(***************************************************************************)
(* The semaphore count stays a natural number: down() happens only where   *)
(* the count was seen positive.                                            *)
(***************************************************************************)
SemNat == sem \in Nat

LEMMA SemNext == SemNat /\ [Next]_vars => SemNat'
<1> SUFFICES ASSUME SemNat, [Next]_vars PROVE SemNat'
  OBVIOUS
<1> USE DEF SemNat, lockVars, hwVars, touchVars
<1>1. CASE PenMove \/ ConversionEnds \/ s3c_ts_suspend \/ s3c_ts_resume
  BY <1>1 DEF PenMove, ConversionEnds, s3c_ts_suspend, s3c_ts_resume
<1>2. CASE stylus_updown
  BY <1>2 DEF stylus_updown, UpdownLockFailed, UpdownLock
<1>3. CASE stylus_action
  BY <1>3 DEF stylus_action
<1>4. CASE TimerStep
  BY <1>4 DEF TimerStep, TimerFire, TimerRead, TimerDown, TimerUp, TimerUnlockId,
              TimerUnlockUp
<1>5. CASE \E c \in Clients : ClientStep(c)
  BY <1>5 DEF ClientStep, X6410_adc_acquire_io, AcquireSetId, ClientConverts,
              X6410_adc_release_io, ReleaseUp
<1>6. CASE UNCHANGED vars
  BY <1>6 DEF vars
<1>. QED BY <1>1, <1>2, <1>3, <1>4, <1>5, <1>6 DEF Next

LEMMA SemInvariant == Spec => []SemNat
<1>1. Init => SemNat
  BY DEF Init, SemNat
<1>. QED BY <1>1, SemNext, PTL DEF Spec

(***************************************************************************)
(* The lock is never lost.                                                 *)
(***************************************************************************)
ClientsTyped == cpc \in [Clients -> ClientStates]

LeakInv == SemNat /\ ClientsTyped /\ LockNotLeaked

(* A step that changes neither the lock nor the clients, and does not end  *)
(* an unlock, does not disturb the invariant.                              *)
LEMMA LeakFrame ==
  ASSUME LeakInv, UNCHANGED <<lockVars, cpc>>, tpc = "unlock" => tpc' = "unlock"
  PROVE  LeakInv'
BY DEF LeakInv, SemNat, ClientsTyped, LockNotLeaked, TsUses, Users, ADC_locked4TS,
       lockVars

LEMMA LeakNext == LeakInv /\ [Next]_vars => LeakInv'
<1> SUFFICES ASSUME LeakInv, [Next]_vars PROVE LeakInv'
  OBVIOUS
<1>1. SemNat'
  BY SemNext DEF LeakInv
<1> USE DEF LeakInv, SemNat, ClientsTyped, LockNotLeaked, lockVars, hwVars,
            touchVars, ADC_locked4TS, TS, FREE, ADC
<1>2. CASE PenMove \/ ConversionEnds \/ s3c_ts_suspend \/ s3c_ts_resume
  BY <1>2, LeakFrame DEF PenMove, ConversionEnds, s3c_ts_suspend, s3c_ts_resume
<1>3. CASE stylus_updown
  <2>1. tpc' = tpc /\ cpc' = cpc
    BY <1>3 DEF stylus_updown
  <2>2. CASE UpdownLockFailed
    BY <1>1, <2>1, <2>2 DEF UpdownLockFailed, TsUses, Users
  <2>3. CASE UpdownLock
    BY <1>1, <2>1, <2>3 DEF UpdownLock, TsUses, Users
  <2>. QED BY <1>3, <2>2, <2>3 DEF stylus_updown
<1>4. CASE stylus_action
  BY <1>4, LeakFrame DEF stylus_action
<1>5. CASE TimerFire \/ TimerRead \/ TimerDown \/ TimerUp
  <2>1. UNCHANGED <<lockVars, cpc>> /\ tpc # "unlock"
    BY <1>5 DEF TimerFire, TimerRead, TimerDown, TimerUp
  <2>. QED BY <2>1, LeakFrame
<1>6. CASE TimerUnlockId
  BY <1>1, <1>6 DEF TimerUnlockId, TsUses, Users
<1>7. CASE TimerUnlockUp
  BY <1>1, <1>7 DEF TimerUnlockUp
<1>8. CASE \E c \in Clients : ClientStep(c)
  <2>1. PICK c \in Clients : ClientStep(c)
    BY <1>8
  <2>2. ClientsTyped'
    BY <2>1 DEF ClientStep, X6410_adc_acquire_io, AcquireSetId, ClientConverts,
                X6410_adc_release_io, ReleaseUp, ClientGoto, ClientStates
  <2>3. CASE ReleaseUp(c)
    BY <1>1, <2>2, <2>3 DEF ReleaseUp
  <2>4. CASE X6410_adc_acquire_io(c) \/ AcquireSetId(c) \/ ClientConverts(c)
             \/ X6410_adc_release_io(c)
    <3>1. cpc'[c] # "idle"
      BY <2>4 DEF X6410_adc_acquire_io, AcquireSetId, ClientConverts,
                  X6410_adc_release_io, ClientGoto
    <3>2. Users' # {}
      BY <3>1 DEF Users
    <3>. QED BY <1>1, <2>2, <3>2
  <2>. QED BY <2>1, <2>3, <2>4 DEF ClientStep
<1>9. CASE UNCHANGED vars
  BY <1>9, LeakFrame DEF vars
<1>. QED BY <1>2, <1>3, <1>4, <1>5, <1>6, <1>7, <1>8, <1>9 DEF Next, TimerStep

(* However the touchscreen and the clients steal and release the lock, it  *)
(* is never taken for ever: an unavailable semaphore has someone due to    *)
(* release it.                                                             *)
THEOREM LockNeverLeaks == Spec => []LockNotLeaked
<1>1. Init => LeakInv
  BY DEF Init, LeakInv, SemNat, ClientsTyped, LockNotLeaked, ClientStates
<1>2. LeakInv => LockNotLeaked
  BY DEF LeakInv
<1>. QED BY <1>1, <1>2, LeakNext, PTL DEF Spec

(***************************************************************************)
(* Without clients the semaphore is exact.  The strengthening: the id is   *)
(* never ADC, and during the unlock of the timer it is already free (that  *)
(* pen has its type is what keeps the timer's place in its range).         *)
(***************************************************************************)
ExactInv ==
  /\ LockExact
  /\ adc_lock_id \in {FREE, TS}
  /\ tpc = "unlock" => adc_lock_id = FREE
  /\ pen \in {"up", "down"}

LEMMA ExactNext == Clients = {} /\ ExactInv /\ [Next]_vars => ExactInv'
<1> SUFFICES ASSUME Clients = {}, ExactInv, [Next]_vars PROVE ExactInv'
  OBVIOUS
<1> USE DEF ExactInv, LockExact, TsUses, lockVars, hwVars, touchVars,
            ADC_locked4TS, TS, FREE, ADC
<1>1. CASE PenMove \/ ConversionEnds \/ s3c_ts_suspend \/ s3c_ts_resume
  BY <1>1 DEF PenMove, ConversionEnds, s3c_ts_suspend, s3c_ts_resume
<1>2. CASE stylus_updown
  <2> tpc' = tpc /\ pen' = pen
    BY <1>2 DEF stylus_updown
  <2>1. CASE UpdownLockFailed
    BY <2>1 DEF UpdownLockFailed
  <2>2. CASE UpdownLock
    <3>1. CASE ADC_locked4TS
      BY <2>2, <3>1 DEF UpdownLock
    <3>2. CASE ~ADC_locked4TS
      <4>1. tpc # "unlock" /\ sem = 1
        BY <2>2, <3>2 DEF UpdownLock
      <4>2. sem' = 0 /\ adc_lock_id' = TS
        BY <2>2, <3>2, <4>1 DEF UpdownLock
      <4>. QED BY <4>1, <4>2
    <3>. QED BY <3>1, <3>2
  <2>. QED BY <1>2, <2>1, <2>2 DEF stylus_updown
<1>3. CASE stylus_action
  BY <1>3 DEF stylus_action
<1>4. CASE TimerFire \/ TimerRead \/ TimerDown \/ TimerUp
  <2>1. UNCHANGED <<sem, adc_lock_id, pen>>
    BY <1>4 DEF TimerFire, TimerRead, TimerDown, TimerUp
  <2>2. tpc # "unlock" /\ tpc' # "unlock"
    BY <1>4 DEF TimerFire, TimerRead, TimerDown, TimerUp, PenSeen
  <2>. QED BY <2>1, <2>2
<1>5. CASE TimerUnlockId \/ TimerUnlockUp
  BY <1>5 DEF TimerUnlockId, TimerUnlockUp
<1>6. CASE \E c \in Clients : ClientStep(c)
  BY <1>6
<1>7. CASE UNCHANGED vars
  BY <1>7 DEF vars
<1>. QED BY <1>1, <1>2, <1>3, <1>4, <1>5, <1>6, <1>7 DEF Next, TimerStep

(* With no ADC client the touchscreen holds the lock once or not at all.   *)
THEOREM LockIsExactAlone ==
  ASSUME Clients = {}
  PROVE  Spec => []LockExact
<1>1. Init => ExactInv
  BY DEF Init, ExactInv, LockExact, TsUses, ADC_locked4TS, TS, FREE
<1>2. ExactInv /\ [Next]_vars => ExactInv'
  BY ExactNext
<1>3. ExactInv => LockExact
  BY DEF ExactInv
<1>. QED BY <1>1, <1>2, <1>3, PTL DEF Spec

-----------------------------------------------------------------------------
(***************************************************************************)
(* DriverLifecycle, for any scripts that keep to the discipline.           *)
(***************************************************************************)

(***************************************************************************)
(* Scripts: what is left of one when its first step is done.               *)
(***************************************************************************)
LEMMA Tails ==
  ASSUME NEW s \in Seq(Steps), s # <<>>
  PROVE  /\ Len(s) \in Nat \ {0} /\ DOMAIN s = 1..Len(s) /\ 1 \in DOMAIN s
         /\ Head(s) = s[1] /\ s[1] \in Steps
         /\ Tail(s) \in Seq(Steps) /\ Len(Tail(s)) = Len(s) - 1
         /\ DOMAIN Tail(s) = 1..(Len(s) - 1)
         /\ \A i \in 1..(Len(s) - 1) : Tail(s)[i] = s[i + 1] /\ i + 1 \in DOMAIN s
OBVIOUS

LEMMA Shift ==
  ASSUME NEW s \in Seq(Steps), s # <<>>, NEW i \in 1..Len(s)
  PROVE  /\ 1 \in 1..i /\ i + 1 - 1 = i /\ 1..(1 - 1) = {}
         /\ \A j \in 1..i : j # 1 => \E k \in 1..(i - 1) : k + 1 = j /\ Tail(s)[k] = s[j]
         /\ \A k \in 1..(i - 1) : k + 1 \in 1..i /\ Tail(s)[k] = s[k + 1]
<1>1. 1 \in 1..i /\ i + 1 - 1 = i /\ 1..(1 - 1) = {}
  BY Tails
<1>2. \A k \in 1..(i - 1) : k + 1 \in 1..i /\ Tail(s)[k] = s[k + 1]
  BY Tails
<1>3. ASSUME NEW j \in 1..i, j # 1
      PROVE  \E k \in 1..(i - 1) : k + 1 = j /\ Tail(s)[k] = s[j]
  <2>1. j - 1 \in 1..(i - 1) /\ j - 1 + 1 = j
    BY <1>3, Tails
  <2>. QED BY <1>2, <2>1
<1>. QED BY <1>1, <1>2, <1>3

LEMMA TakenTail ==
  ASSUME NEW s \in Seq(Steps), s # <<>>, NEW i \in 1..Len(s)
  PROVE  /\ TakenBefore(s, i + 1) = Takes(s[1]) \cup TakenBefore(Tail(s), i)
         /\ TakenBefore(s, 1) = {}
<1>1. TakenBefore(s, i + 1) = UNION {Takes(s[j]) : j \in 1..i}
  BY Shift DEF TakenBefore
<1>2. TakenBefore(Tail(s), i) = UNION {Takes(Tail(s)[j]) : j \in 1..(i - 1)}
  BY DEF TakenBefore
<1>3. TakenBefore(s, 1) = {}
  BY Shift DEF TakenBefore
<1>. QED BY <1>1, <1>2, <1>3, Shift

LEMMA AskedTail ==
  ASSUME NEW s \in Seq(Steps), s # <<>>, NEW i \in 1..Len(s)
  PROVE  /\ AskedBefore(s, i + 1) = Asks(s[1]) \cup AskedBefore(Tail(s), i)
         /\ AskedBefore(s, 1) = {}
<1>1. AskedBefore(s, i + 1) = UNION {Asks(s[j]) : j \in 1..i}
  BY Shift DEF AskedBefore
<1>2. AskedBefore(Tail(s), i) = UNION {Asks(Tail(s)[j]) : j \in 1..(i - 1)}
  BY DEF AskedBefore
<1>3. AskedBefore(s, 1) = {}
  BY Shift DEF AskedBefore
<1>. QED BY <1>1, <1>2, <1>3, Shift

LEMMA ArmedTail ==
  ASSUME NEW s \in Seq(Steps), s # <<>>, NEW i \in 1..Len(s)
  PROVE  /\ ArmedBefore(s, i + 1) = Works(s[1]) \cup ArmedBefore(Tail(s), i)
         /\ ArmedBefore(s, 1) = {}
<1>1. ArmedBefore(s, i + 1) = UNION {Works(s[j]) : j \in 1..i}
  BY Shift DEF ArmedBefore
<1>2. ArmedBefore(Tail(s), i) = UNION {Works(Tail(s)[j]) : j \in 1..(i - 1)}
  BY DEF ArmedBefore
<1>3. ArmedBefore(s, 1) = {}
  BY Shift DEF ArmedBefore
<1>. QED BY <1>1, <1>2, <1>3, Shift

LEMMA GivenTail ==
  ASSUME NEW s \in Seq(Steps), s # <<>>, NEW i \in 1..Len(s)
  PROVE  /\ GivenBefore(s, i + 1) = Gives(s[1]) \cup GivenBefore(Tail(s), i)
         /\ GivenBefore(s, 1) = {}
<1>1. GivenBefore(s, i + 1) = UNION {Gives(s[j]) : j \in 1..i}
  BY Shift DEF GivenBefore
<1>2. GivenBefore(Tail(s), i) = UNION {Gives(Tail(s)[j]) : j \in 1..(i - 1)}
  BY DEF GivenBefore
<1>3. GivenBefore(s, 1) = {}
  BY Shift DEF GivenBefore
<1>. QED BY <1>1, <1>2, <1>3, Shift

LEMMA SureTail ==
  ASSUME NEW d, NEW s \in Seq(Steps), s # <<>>, NEW i \in 1..Len(s)
  PROVE  /\ SureBefore(d, s, i + 1) = Sure(d, s[1]) \cup SureBefore(d, Tail(s), i)
         /\ SureBefore(d, s, 1) = {}
<1>1. SureBefore(d, s, i + 1) = UNION {Sure(d, s[j]) : j \in 1..i}
  BY Shift DEF SureBefore
<1>2. SureBefore(d, Tail(s), i) = UNION {Sure(d, Tail(s)[j]) : j \in 1..(i - 1)}
  BY DEF SureBefore
<1>3. SureBefore(d, s, 1) = {}
  BY Shift DEF SureBefore
<1>. QED BY <1>1, <1>2, <1>3, Shift

LEMMA GivenMembers ==
  ASSUME NEW s \in Seq(Steps), NEW x
  PROVE  x \in GivenIn(s) <=> \E i \in DOMAIN s : x \in Gives(s[i])
<1>1. Len(s) + 1 - 1 = Len(s) /\ DOMAIN s = 1..Len(s)
  OBVIOUS
<1>2. GivenIn(s) = UNION {Gives(s[i]) : i \in 1..Len(s)}
  BY <1>1 DEF GivenIn, GivenBefore
<1>. QED BY <1>1, <1>2

LEMMA LateTail ==
  ASSUME NEW h, NEW s \in Seq(Steps), s # <<>>, NEW x \in GivenLate(h, s)
  PROVE  /\ x \in GivenIn(s)
         /\ x \in GivenLate(h, Tail(s)) \/ GivenIn(s) \cap h.lines = {}
<1>1. PICK i \in DOMAIN s : x \in Gives(s[i]) /\ \A j \in i..Len(s) : Gives(s[j]) \cap h.lines = {}
  BY DEF GivenLate
<1>2. x \in GivenIn(s)
  BY <1>1, GivenMembers
<1>3. CASE i = 1
  BY <1>1, <1>3, GivenMembers, Tails
<1>4. CASE i # 1
  <2> DEFINE k == i - 1
  <2>1. k \in DOMAIN Tail(s) /\ k + 1 = i
    BY <1>4, Tails
  <2>2. x \in Gives(Tail(s)[k])
    BY <1>1, <2>1, Tails
  <2>3. ASSUME NEW j \in k..Len(Tail(s)) PROVE Gives(Tail(s)[j]) \cap h.lines = {}
    <3>1. j \in 1..(Len(s) - 1) /\ j + 1 \in i..Len(s)
      BY <2>1, Tails
    <3>. QED BY <1>1, <3>1, Tails
  <2>4. k \in {n \in DOMAIN Tail(s) : \A j \in n..Len(Tail(s)) : Gives(Tail(s)[j]) \cap h.lines = {}}
    BY <2>1, <2>3
  <2> HIDE DEF k
  <2>. QED BY <1>2, <2>2, <2>4 DEF GivenLate
<1>. QED BY <1>2, <1>3, <1>4

LEMMA WellFormedTail ==
  ASSUME NEW labels, NEW W, NEW s, WellFormed(s, labels, W), s[1].op # "end"
  PROVE  WellFormed(Tail(s), labels, W) /\ Returns(Tail(s)) = Returns(s) /\ Len(s) > 1
<1>1. s \in Seq(Steps) /\ s # <<>>
  BY DEF WellFormed
<1>2. Len(s) \in Nat \ {0, 1} /\ s[Len(s)].op = "end"
  BY <1>1, Tails DEF WellFormed
<1>3. Len(s) - 1 \in 1..(Len(s) - 1) /\ Len(s) - 1 + 1 = Len(s)
  BY <1>2
<1>4. Tail(s) # <<>> /\ Returns(Tail(s)) = Returns(s)
  <2>1. Len(Tail(s)) = Len(s) - 1 /\ Tail(s)[Len(s) - 1] = s[Len(s) - 1 + 1]
    BY <1>1, <1>3, Tails
  <2>2. Tail(s)[Len(Tail(s))] = s[Len(s)]
    BY <1>3, <2>1
  <2>3. Len(Tail(s)) # 0
    BY <1>2, <2>1
  <2>4. Len(<<>>) = 0
    OBVIOUS
  <2>5. Tail(s) # <<>>
    BY <2>3, <2>4
  <2>. QED BY <2>2, <2>5 DEF Returns
<1>5. ASSUME NEW i \in DOMAIN Tail(s)
      PROVE  /\ Tail(s)[i].op = "end" <=> i = Len(Tail(s))
             /\ Tail(s)[i].op \in OfOne => \E r \in Tail(s)[i].on : Tail(s)[i].on = {r}
             /\ Jumps(Tail(s)[i]) => Tail(s)[i].to \in labels
             /\ IF Tail(s)[i].op \in {"arm", "tryarm", "cancel"}
                  THEN Tail(s)[i].on \subseteq W
                  ELSE (Tail(s)[i].on \cup Takes(Tail(s)[i])) \cap W = {}
  <2>1. /\ i \in 1..(Len(s) - 1) /\ Tail(s)[i] = s[i + 1] /\ i + 1 \in DOMAIN s
        /\ Len(Tail(s)) = Len(s) - 1
    BY <1>1, Tails
  <2>2. i + 1 = Len(s) <=> i = Len(Tail(s))
    BY <1>2, <2>1
  <2>. QED BY <2>1, <2>2 DEF WellFormed
<1>. QED BY <1>1, <1>2, <1>4, <1>5, Tails DEF WellFormed

(***************************************************************************)
(* What a script clears of what there is.                                  *)
(***************************************************************************)
LEMMA InTail ==
  ASSUME NEW s \in Seq(Steps), s # <<>>
  PROVE  /\ GivenIn(s) = Gives(s[1]) \cup GivenIn(Tail(s))
         /\ TakenIn(s) = Takes(s[1]) \cup TakenIn(Tail(s))
         /\ AskedIn(s) = Asks(s[1]) \cup AskedIn(Tail(s))
         /\ ArmedIn(s) = Works(s[1]) \cup ArmedIn(Tail(s))
<1>1. Len(s) \in 1..Len(s) /\ Len(Tail(s)) + 1 = Len(s)
  BY Tails
<1>. QED BY <1>1, GivenTail, TakenTail, AskedTail, ArmedTail
         DEF GivenIn, TakenIn, AskedIn, ArmedIn

LEMMA ClearsTail ==
  ASSUME NEW h, NEW s \in Seq(Steps), s # <<>>, NEW M, NEW L, Clears(h, s, M, L),
         NEW N, N \subseteq (M \ Gives(s[1])) \cup Takes(s[1])
  PROVE  Clears(h, Tail(s), N, L)
<1>1. N \subseteq GivenIn(Tail(s)) \cup L /\ TakenIn(Tail(s)) \subseteq L
  BY InTail DEF Clears
<1>2. ASSUME NEW x \in N, x \in h.lines
      PROVE  Started(h) \subseteq GivenLate(h, Tail(s)) \cup L
  <2>1. CASE x \in Takes(s[1])
    BY <1>2, <2>1, InTail DEF Clears
  <2>2. CASE x \in M
    <3>1. Started(h) \subseteq GivenLate(h, s) \cup L
      BY <1>2, <2>2 DEF Clears
    <3>2. CASE GivenIn(s) \cap h.lines = {}
      BY <1>2, <2>2, <3>2 DEF Clears
    <3>3. CASE GivenIn(s) \cap h.lines # {}
      BY <3>1, <3>3, LateTail
    <3>. QED BY <3>2, <3>3
  <2>. QED BY <2>1, <2>2
<1>. QED BY <1>1, <1>2 DEF Clears

LEMMA ClearsGrown ==
  ASSUME NEW h, NEW s \in Seq(Steps), s # <<>>, NEW M, NEW L, Clears(h, s, M, L),
         M \cap h.lines # {}
  PROVE  Clears(h, s, M \cup Started(h), L)
<1>1. Started(h) \subseteq GivenLate(h, s) \cup L
  BY DEF Clears
<1>2. GivenLate(h, s) \subseteq GivenIn(s)
  BY LateTail
<1>. QED BY <1>1, <1>2 DEF Clears

LEMMA ClearsFewer ==
  ASSUME NEW h, NEW s, NEW M, NEW L, Clears(h, s, M, L), NEW N \in SUBSET M
  PROVE  Clears(h, s, N, L)
BY DEF Clears

LEMMA ClearsAtEnd ==
  ASSUME NEW h, NEW s, NEW M, NEW L, Clears(h, s, M, L), NEW labels, NEW W,
         WellFormed(s, labels, W), s[1].op = "end"
  PROVE  M \subseteq L /\ Returns(s) = s[1].to
<1>1. s \in Seq(Steps) /\ s # <<>> /\ Len(s) = 1
  BY Tails DEF WellFormed
<1>2. GivenIn(s) = {}
  <2>1. \A i \in DOMAIN s : Gives(s[i]) = {}
    BY <1>1, Tails DEF Gives
  <2>. QED BY <1>1, <2>1, GivenMembers
<1>. QED BY <1>1, <1>2 DEF Clears, Returns

LEMMA GrownMonotone ==
  ASSUME NEW h, NEW M, NEW N
  PROVE  /\ M \subseteq N => Grown(h, M) \subseteq Grown(h, N)
         /\ M \subseteq Grown(h, M) /\ Grown(h, Grown(h, M)) \subseteq Grown(h, M) \cup Started(h)
         /\ M \cap h.lines # {} => Grown(h, M) = M \cup Started(h)
BY DEF Grown

-----------------------------------------------------------------------------
(***************************************************************************)
(* The steps of the machine.                                               *)
(***************************************************************************)
Work == WorkOf(Script)

(* What runs is the rest of a script; timers, work and threads are pending,*)
(* everything else is held.                                                *)
ScriptInv ==
  /\ Disciplined(driver)
  /\ phase \in {"out", "load", "in", "unload"}
  /\ phase = "load" => WellFormed(todo, DOMAIN Script.unwind, Work)
  /\ phase = "unload" => WellFormed(todo, {}, Work)
  /\ held \cap Work = {} /\ pending \subseteq Work

(* What this life has got and still has.                                   *)
Mine == (held \cup pending) \ before

(* The step is done and the next one follows.                              *)
Passes ==
  LET st == todo[1] IN
  /\ phase \in {"load", "unload"} /\ st.op # "end"
  /\ todo' = Tail(todo)
  /\ UNCHANGED <<driver, phase, before, outcome>>
  /\ held' \subseteq (held \ Gives(st)) \cup (Takes(st) \ Works(st))
  /\ pending' \subseteq (pending \ Gives(st)) \cup Works(st)
  /\ held \ Loses(st) \subseteq held'
  /\ Asks(st) \subseteq held' \cup failed'
  /\ \/ failed' = failed
     \/ failed' = failed \cup Takes(st) /\ held' = held /\ pending' = pending
  /\ Sure(driver, st) \subseteq held' \/ (driver \notin CheckedDrivers /\ failed' # {})
  /\ freed' \subseteq freed \cup Loses(st)
  /\ stray' \subseteq stray \cup (Puts(st) \ held) \cup ((Frees(st) \cap freed) \ held)
  /\ oops' = IF Uses(st) \subseteq held THEN oops ELSE "null"

(* It goes to a label.                                                     *)
JumpsAway ==
  LET st == todo[1] IN
  /\ phase = "load" /\ Jumps(st)
  /\ todo' = Script.unwind[st.to]
  /\ UNCHANGED <<driver, phase, held, pending, freed, stray, before, outcome, oops>>
  /\ failed' = failed \cup Asks(st) /\ Missing(st) \subseteq failed
  /\ st.op = "get" => failed' # {}

Runs == Acquire \/ AcquireFails \/ CheckOne \/ CheckNone \/ DoIt \/ UseIt \/ GiveBack
        \/ FreeIt \/ FreeOne \/ ArmIt \/ ArmFails \/ CancelIt \/ MaskIt

LEMMA Current ==
  ASSUME ScriptInv, NEW op, Running(op)
  PROVE  /\ todo \in Seq(Steps) /\ todo # <<>>
         /\ WellFormed(todo, DOMAIN Script.unwind, Work)
         /\ phase = "unload" => ~Jumps(todo[1])
         /\ Head(todo) = todo[1] /\ todo[1].op = op /\ phase \in {"load", "unload"}
         /\ op \in OfOne => todo[1].on = {Now} /\ Now \in todo[1].on
         /\ IF op \in {"arm", "tryarm", "cancel"} THEN todo[1].on \subseteq Work
                ELSE (todo[1].on \cup Takes(todo[1])) \cap Work = {}
<1>1. WellFormed(todo, DOMAIN Script.unwind, Work)
  BY DEF ScriptInv, Running, WellFormed
<1>2. todo \in Seq(Steps) /\ todo # <<>>
  BY <1>1 DEF WellFormed
<1>3. Head(todo) = todo[1] /\ todo[1].op = op /\ phase \in {"load", "unload"} /\ 1 \in DOMAIN todo
  BY <1>2, Tails DEF Running
<1>4. phase = "unload" => ~Jumps(todo[1])
  BY <1>3 DEF ScriptInv, WellFormed
<1>5. op \in OfOne => todo[1].on = {Now} /\ Now \in todo[1].on
  <2> SUFFICES ASSUME op \in OfOne PROVE todo[1].on = {Now} /\ Now \in todo[1].on
    OBVIOUS
  <2>1. PICK r \in todo[1].on : todo[1].on = {r}
    BY <1>1, <1>3 DEF WellFormed
  <2>. QED BY <1>3, <2>1 DEF Now
<1>. QED BY <1>1, <1>2, <1>3, <1>4, <1>5 DEF WellFormed

(* What a step of each kind takes and gives.                               *)
Brings(st, T, A, W, U) == Takes(st) = T /\ Asks(st) = A /\ Works(st) = W /\ Uses(st) = U
Costs(st, P, F, L, G)  == Puts(st) = P /\ Frees(st) = F /\ Loses(st) = L /\ Gives(st) = G

LEMMA StepKinds ==
  ASSUME NEW st
  PROVE  /\ st.op = "get" =>
              Brings(st, st.on, st.on, {}, {}) /\ Costs(st, {}, {}, {}, {})
         /\ st.op = "do" =>
              Brings(st, st.on, st.on, {}, {}) /\ Costs(st, {}, {}, {}, {})
         /\ st.op = "check" =>
              Brings(st, {}, {}, {}, {}) /\ Costs(st, {}, {}, {}, {})
         /\ st.op = "none" =>
              Brings(st, {}, {}, {}, {}) /\ Costs(st, {}, {}, {}, {})
         /\ st.op = "use" =>
              Brings(st, {}, {}, {}, st.on) /\ Costs(st, {}, {}, {}, {})
         /\ st.op = "put" =>
              Brings(st, {}, {}, {}, {}) /\ Costs(st, st.on, {}, st.on, st.on)
         /\ st.op = "free" =>
              Brings(st, {}, {}, {}, {}) /\ Costs(st, {}, st.on, st.on, st.on)
         /\ st.op = "oneof" =>
              Brings(st, {}, {}, {}, {}) /\ Costs(st, {}, st.on, st.on, {})
         /\ st.op = "arm" =>
              Brings(st, st.on, {}, st.on, {}) /\ Costs(st, {}, {}, {}, {})
         /\ st.op = "tryarm" =>
              Brings(st, st.on, {}, st.on, {}) /\ Costs(st, {}, {}, {}, {})
         /\ st.op = "cancel" =>
              Brings(st, {}, {}, {}, {}) /\ Costs(st, {}, {}, {}, st.on)
         /\ st.op = "mask" =>
              Brings(st, {Off(r) : r \in st.on}, {}, {}, {}) /\ Costs(st, {}, {}, st.on, st.on)
<1> USE DEF Brings, Costs, Takes, Asks, Works, Uses, Puts, Frees, Loses, Gives
<1>1. st.op = "get" => Brings(st, st.on, st.on, {}, {}) /\ Costs(st, {}, {}, {}, {})
  OBVIOUS
<1>2. st.op = "do" => Brings(st, st.on, st.on, {}, {}) /\ Costs(st, {}, {}, {}, {})
  OBVIOUS
<1>3. st.op = "check" => Brings(st, {}, {}, {}, {}) /\ Costs(st, {}, {}, {}, {})
  OBVIOUS
<1>4. st.op = "none" => Brings(st, {}, {}, {}, {}) /\ Costs(st, {}, {}, {}, {})
  OBVIOUS
<1>5. st.op = "use" => Brings(st, {}, {}, {}, st.on) /\ Costs(st, {}, {}, {}, {})
  OBVIOUS
<1>6. st.op = "put" => Brings(st, {}, {}, {}, {}) /\ Costs(st, st.on, {}, st.on, st.on)
  OBVIOUS
<1>7. st.op = "free" => Brings(st, {}, {}, {}, {}) /\ Costs(st, {}, st.on, st.on, st.on)
  OBVIOUS
<1>8. st.op = "oneof" => Brings(st, {}, {}, {}, {}) /\ Costs(st, {}, st.on, st.on, {})
  OBVIOUS
<1>9. st.op = "arm" => Brings(st, st.on, {}, st.on, {}) /\ Costs(st, {}, {}, {}, {})
  OBVIOUS
<1>10. st.op = "tryarm" => Brings(st, st.on, {}, st.on, {}) /\ Costs(st, {}, {}, {}, {})
  OBVIOUS
<1>11. st.op = "cancel" => Brings(st, {}, {}, {}, {}) /\ Costs(st, {}, {}, {}, st.on)
  OBVIOUS
<1>12. st.op = "mask" => Brings(st, {Off(r) : r \in st.on}, {}, {}, {}) /\ Costs(st, {}, {}, st.on, st.on)
  OBVIOUS
<1> HIDE DEF Brings, Costs, Takes, Asks, Works, Uses, Puts, Frees, Loses, Gives
<1>. QED BY <1>1, <1>2, <1>3, <1>4, <1>5, <1>6, <1>7, <1>8, <1>9, <1>10, <1>11, <1>12

LEMMA RunsPasses ==
  ASSUME ScriptInv, Runs
  PROVE  Passes \/ JumpsAway
<1> USE DEF Passes, JumpsAway, Sure, Same, lifeVars, Resume, OfOne, Brings, Costs
<1>1. CASE Acquire
  <2>1. Running("get")
    BY <1>1 DEF Acquire
  <2>7. /\ Brings(todo[1], todo[1].on, todo[1].on, {}, {})
        /\ Costs(todo[1], {}, {}, {}, {}) /\ todo[1].op = "get"
    BY <2>1, Current, StepKinds
  <2>2. Passes
    BY <1>1, <2>1, <2>7, Current DEF Acquire
  <2>. QED BY <2>2
<1>2. CASE AcquireFails
  <2>1. Running("get")
    BY <1>2 DEF AcquireFails
  <2>7. /\ Brings(todo[1], todo[1].on, todo[1].on, {}, {})
        /\ Costs(todo[1], {}, {}, {}, {}) /\ todo[1].op = "get"
    BY <2>1, Current, StepKinds
  <2>2. CASE todo[1].to = ""
    <3>1. Passes
      BY <1>2, <2>1, <2>2, <2>7, Current DEF AcquireFails, Branch
    <3>. QED BY <3>1
  <2>3. CASE todo[1].to # ""
    <3>2. /\ phase = "load" /\ Jumps(todo[1])
          /\ Missing(todo[1]) = (IF todo[1].op = "none" THEN todo[1].on ELSE {})
      BY <2>3, <2>7, <2>1, Current DEF Jumps, Missing
    <3>1. JumpsAway
      BY <1>2, <2>1, <2>3, <2>7, <3>2, Current DEF AcquireFails, Branch
    <3>. QED BY <3>1
  <2>. QED BY <2>2, <2>3
<1>3. CASE CheckOne
  <2>1. Running("check")
    BY <1>3 DEF CheckOne
  <2>7. /\ Brings(todo[1], {}, {}, {}, {})
        /\ Costs(todo[1], {}, {}, {}, {}) /\ todo[1].op = "check"
    BY <2>1, Current, StepKinds
  <2>5. /\ UNCHANGED <<held, pending, failed, freed, stray, oops>>
        /\ UNCHANGED <<driver, phase, before, outcome>>
    BY <1>3 DEF CheckOne
  <2>2. CASE Resume
    <3>1. Passes
      BY <2>1, <2>2, <2>5, <2>7, Current
    <3>. QED BY <3>1
  <2>3. CASE todo[1].to # "" /\ ~Resume
    <3>2. /\ phase = "load" /\ Jumps(todo[1])
          /\ Missing(todo[1]) = (IF todo[1].op = "none" THEN todo[1].on ELSE {})
      BY <2>3, <2>7, <2>1, Current DEF Jumps, Missing
    <3>1. JumpsAway
      BY <1>3, <2>1, <2>3, <2>5, <2>7, <3>2, Current DEF CheckOne, Branch
    <3>. QED BY <3>1
  <2>4. todo[1].to = "" => Resume
    BY <1>3, <2>1, <2>7, Current DEF CheckOne, Branch
  <2>. QED BY <2>2, <2>3, <2>4
<1>4. CASE CheckNone
  <2>1. Running("none")
    BY <1>4 DEF CheckNone
  <2>7. /\ Brings(todo[1], {}, {}, {}, {})
        /\ Costs(todo[1], {}, {}, {}, {}) /\ todo[1].op = "none"
    BY <2>1, Current, StepKinds
  <2>5. /\ UNCHANGED <<held, pending, failed, freed, stray, oops>>
        /\ UNCHANGED <<driver, phase, before, outcome>>
    BY <1>4 DEF CheckNone
  <2>2. CASE Resume
    <3>1. Passes
      BY <2>1, <2>2, <2>5, <2>7, Current
    <3>. QED BY <3>1
  <2>3. CASE todo[1].to # "" /\ ~Resume
    <3>2. /\ phase = "load" /\ Jumps(todo[1])
          /\ Missing(todo[1]) = (IF todo[1].op = "none" THEN todo[1].on ELSE {})
      BY <2>3, <2>7, <2>1, Current DEF Jumps, Missing
    <3>1. JumpsAway
      BY <1>4, <2>1, <2>3, <2>5, <2>7, <3>2, Current DEF CheckNone, Branch
    <3>. QED BY <3>1
  <2>4. todo[1].to = "" => Resume
    BY <1>4, <2>1, <2>7, Current DEF CheckNone, Branch
  <2>. QED BY <2>2, <2>3, <2>4
<1>5. CASE DoIt
  <2>1. Running("do")
    BY <1>5 DEF DoIt
  <2>7. /\ Brings(todo[1], todo[1].on, todo[1].on, {}, {})
        /\ Costs(todo[1], {}, {}, {}, {}) /\ todo[1].op = "do"
    BY <2>1, Current, StepKinds
  <2>2. Passes
    BY <1>5, <2>1, <2>7, Current DEF DoIt
  <2>. QED BY <2>2
<1>6. CASE UseIt
  <2>1. Running("use")
    BY <1>6 DEF UseIt
  <2>7. /\ Brings(todo[1], {}, {}, {}, todo[1].on)
        /\ Costs(todo[1], {}, {}, {}, {}) /\ todo[1].op = "use"
    BY <2>1, Current, StepKinds
  <2>2. Passes
    BY <1>6, <2>1, <2>7, Current DEF UseIt
  <2>. QED BY <2>2
<1>7. CASE GiveBack
  <2>1. Running("put") /\ Release(todo[1].on)
    BY <1>7, Current DEF GiveBack
  <2>7. /\ Brings(todo[1], {}, {}, {}, {})
        /\ Costs(todo[1], todo[1].on, {}, todo[1].on, todo[1].on) /\ todo[1].op = "put"
    BY <2>1, Current, StepKinds
  <2>2. Passes
    BY <2>1, <2>7, Current DEF Release, ScriptInv
  <2>. QED BY <2>2
<1>8. CASE FreeIt
  <2>1. Running("free") /\ Release(todo[1].on \cap (held \cup freed))
    BY <1>8, Current DEF FreeIt
  <2>7. /\ Brings(todo[1], {}, {}, {}, {})
        /\ Costs(todo[1], {}, todo[1].on, todo[1].on, todo[1].on) /\ todo[1].op = "free"
    BY <2>1, Current, StepKinds
  <2>2. Passes
    BY <2>1, <2>7, Current DEF Release, ScriptInv
  <2>. QED BY <2>2
<1>9. CASE FreeOne
  <2>1. Running("oneof")
    BY <1>9 DEF FreeOne
  <2>7. /\ Brings(todo[1], {}, {}, {}, {})
        /\ Costs(todo[1], {}, todo[1].on, todo[1].on, {}) /\ todo[1].op = "oneof"
    BY <2>1, Current, StepKinds
  <2>2. PICK r \in todo[1].on : Release({r} \cap (held \cup freed))
    BY <1>9, <2>1, <2>7, Current DEF FreeOne
  <2>3. Passes
    BY <2>1, <2>2, <2>7, Current DEF Release, ScriptInv
  <2>. QED BY <2>3
<1>10. CASE ArmIt
  <2>1. PICK op \in {"arm", "tryarm"} : Running(op)
    BY <1>10 DEF ArmIt
  <2>7. /\ Brings(todo[1], todo[1].on, {}, todo[1].on, {})
        /\ Costs(todo[1], {}, {}, {}, {}) /\ todo[1].op = op
    BY <2>1, Current, StepKinds
  <2>2. Passes
    BY <1>10, <2>1, <2>7, Current DEF ArmIt
  <2>. QED BY <2>2
<1>11. CASE ArmFails
  <2>1. Running("tryarm")
    BY <1>11 DEF ArmFails
  <2>7. /\ Brings(todo[1], todo[1].on, {}, todo[1].on, {})
        /\ Costs(todo[1], {}, {}, {}, {}) /\ todo[1].op = "tryarm"
    BY <2>1, Current, StepKinds
  <2>2. Passes
    BY <1>11, <2>1, <2>7, Current DEF ArmFails
  <2>. QED BY <2>2
<1>12. CASE CancelIt
  <2>1. Running("cancel")
    BY <1>12 DEF CancelIt
  <2>7. /\ Brings(todo[1], {}, {}, {}, {})
        /\ Costs(todo[1], {}, {}, {}, todo[1].on) /\ todo[1].op = "cancel"
    BY <2>1, Current, StepKinds
  <2>2. Passes
    BY <1>12, <2>1, <2>7, Current DEF CancelIt, ScriptInv
  <2>. QED BY <2>2
<1>13. CASE MaskIt
  <2>1. Running("mask")
    BY <1>13 DEF MaskIt
  <2>7. /\ Brings(todo[1], {Off(r) : r \in todo[1].on}, {}, {}, {})
        /\ Costs(todo[1], {}, {}, todo[1].on, todo[1].on) /\ todo[1].op = "mask"
    BY <2>1, Current, StepKinds
  <2>2. Passes
    BY <1>13, <2>1, <2>7, Current DEF MaskIt, ScriptInv
  <2>. QED BY <2>2
<1>. QED BY <1>1, <1>2, <1>3, <1>4, <1>5, <1>6, <1>7, <1>8, <1>9, <1>10, <1>11,
            <1>12, <1>13 DEF Runs

(* An interrupt, a timer or a thread comes in between.                     *)
Disturbed ==
  /\ UNCHANGED <<driver, phase, todo, failed, freed, stray, before, outcome>>
  /\ \/ held' = held /\ pending' \subseteq pending
     \/ /\ phase # "out" /\ (held \ before) \cap Handler.lines # {}
        /\ Handler.needs \subseteq held
        /\ held' = held \cup Handler.gives /\ pending' = pending \cup Handler.arms
  /\ oops' = "null" =>
       /\ phase # "out"
       /\ \/ (held \ before) \cap Handler.lines # {} /\ ~(Handler.needs \subseteq held)
          \/ pending \ before # {} /\ ~(Handler.workNeeds \subseteq held)

LEMMA StepCases ==
  ASSUME ScriptInv, LifeNext
  PROVE  /\ oops = "none"
         /\ Passes \/ JumpsAway \/ Load \/ Unload \/ Finish \/ Disturbed
<1>1. oops = "none"
  BY DEF LifeNext
<1>2. CASE Runs
  BY <1>1, <1>2, RunsPasses
<1>3. CASE Interrupt
  <2>1. PICK l \in Handler.lines \cap held :
          /\ oops' = IF Gone(l) THEN "freed"
                     ELSE IF Handler.needs \subseteq held THEN oops ELSE "null"
          /\ IF oops' = "none"
               THEN /\ held' = held \cup Handler.gives
                    /\ pending' = pending \cup Handler.arms
               ELSE UNCHANGED <<held, pending>>
          /\ UNCHANGED <<driver, phase, todo, failed, freed, stray, before, outcome>>
    BY <1>3 DEF Interrupt
  <2>2. CASE Gone(l)
    <3>1. oops' = "freed" /\ held' = held /\ pending' = pending
      BY <2>1, <2>2
    <3>. QED BY <1>1, <2>1, <3>1 DEF Disturbed
  <2>3. CASE ~Gone(l)
    <3>1. phase # "out" /\ l \in (held \ before) \cap Handler.lines
      BY <2>3 DEF Gone
    <3>2. CASE Handler.needs \subseteq held
      <4>1. oops' = "none" /\ held' = held \cup Handler.gives /\ pending' = pending \cup Handler.arms
        BY <1>1, <2>1, <2>3, <3>2
      <4>. QED BY <1>1, <2>1, <3>1, <3>2, <4>1 DEF Disturbed
    <3>3. CASE ~(Handler.needs \subseteq held)
      <4>1. oops' = "null" /\ held' = held /\ pending' = pending
        BY <2>1, <2>3, <3>3
      <4>. QED BY <1>1, <2>1, <3>1, <3>3, <4>1 DEF Disturbed
    <3>. QED BY <3>2, <3>3
  <2>. QED BY <2>2, <2>3
<1>4. CASE Deferred
  <2>1. PICK w \in pending :
          /\ oops' = IF Gone(w) THEN "freed"
                     ELSE IF Handler.workNeeds \subseteq held THEN oops ELSE "null"
          /\ pending' = IF w \in Handler.rearms THEN pending ELSE pending \ {w}
          /\ UNCHANGED <<driver, phase, todo, held, failed, freed, stray, before, outcome>>
    BY <1>4 DEF Deferred
  <2>2. held' = held /\ pending' \subseteq pending
    BY <2>1
  <2>3. oops' = "null" =>
          phase # "out" /\ w \in pending \ before /\ ~(Handler.workNeeds \subseteq held)
    BY <1>1, <2>1 DEF Gone
  <2>. QED BY <1>1, <2>1, <2>2, <2>3 DEF Disturbed
<1>. QED BY <1>1, <1>2, <1>3, <1>4 DEF LifeNext, Runs

LEMMA Labelled ==
  ASSUME NEW s, NEW W, WellFormed(s, {}, W), NEW labels
  PROVE  WellFormed(s, labels, W)
BY DEF WellFormed

(* What the discipline says of the scripts of the driver.                  *)
LEMMA Scripts0 ==
  ASSUME ScriptInv
  PROVE  /\ WellFormed(Script.load, DOMAIN Script.unwind, Work)
         /\ Returns(Script.load) = "in"
         /\ WellFormed(Script.unload, {}, Work)
         /\ \A l \in DOMAIN Script.unwind :
              /\ WellFormed(Script.unwind[l], {}, Work)
              /\ WellFormed(Script.unwind[l], DOMAIN Script.unwind, Work)
         /\ LeavesNothingElse(driver) /\ PutsWhatItGot(driver) /\ UsesWhatItGot(driver)
         /\ Handler.arms \subseteq Work /\ Work \cap (Statics \cup Handler.gives) = {}
<1>1. /\ WellFormed(Script.load, DOMAIN Script.unwind, Work) /\ Returns(Script.load) = "in"
      /\ WellFormed(Script.unload, {}, Work)
      /\ \A l \in DOMAIN Script.unwind : WellFormed(Script.unwind[l], {}, Work)
      /\ LeavesNothingElse(driver) /\ PutsWhatItGot(driver) /\ UsesWhatItGot(driver)
  BY DEF ScriptInv, Disciplined, Script, Work
<1>2. \A l \in DOMAIN Script.unwind : WellFormed(Script.unwind[l], DOMAIN Script.unwind, Work)
  BY <1>1, Labelled
<1>3. Work \cap (Statics \cup Handler.gives) = {}
  BY <1>1 DEF LeavesNothingElse, Script, Work, Handler
<1>4. Handler.arms \subseteq Work
  BY DEF Work, WorkOf, Handler
<1>. QED BY <1>1, <1>2, <1>3, <1>4

LEMMA Jumping ==
  ASSUME ScriptInv, JumpsAway
  PROVE  /\ todo[1].to \in DOMAIN Script.unwind /\ 1 \in DOMAIN todo
         /\ todo' = Script.unwind[todo[1].to]
         /\ WellFormed(todo', {}, Work) /\ WellFormed(todo', DOMAIN Script.unwind, Work)
<1>1. WellFormed(todo, DOMAIN Script.unwind, Work)
  BY DEF ScriptInv, JumpsAway
<1>2. 1 \in DOMAIN todo
  BY <1>1, Tails DEF WellFormed
<1>3. Jumps(todo[1]) /\ todo' = Script.unwind[todo[1].to]
  BY DEF JumpsAway
<1>4. todo[1].to \in DOMAIN Script.unwind
  BY <1>1, <1>2, <1>3 DEF WellFormed
<1>. QED BY <1>2, <1>3, <1>4, Scripts0

LEMMA Apart ==
  ASSUME NEW st, NEW W,
         IF st.op \in {"arm", "tryarm", "cancel"} THEN st.on \subseteq W
                                                  ELSE (st.on \cup Takes(st)) \cap W = {}
  PROVE  (Takes(st) \ Works(st)) \cap W = {} /\ Works(st) \subseteq W
<1>1. CASE st.op \in {"arm", "tryarm"}
  BY <1>1, StepKinds DEF Brings, Costs
<1>2. CASE st.op = "cancel"
  BY <1>2, StepKinds DEF Brings, Costs
<1>3. CASE st.op \notin {"arm", "tryarm", "cancel"}
  BY <1>3 DEF Works
<1>. QED BY <1>1, <1>2, <1>3

LEMMA ScriptNext == ScriptInv /\ [LifeNext]_driverVars => ScriptInv'
<1> SUFFICES ASSUME ScriptInv, [LifeNext]_driverVars PROVE ScriptInv'
  OBVIOUS
<1>0. /\ driver' = driver => Script' = Script /\ Work' = Work /\ Handler' = Handler
      /\ driver' = driver => Disciplined(driver)'
  BY DEF ScriptInv, Script, Work, Handler
<1>1. CASE Passes
  <2>1. driver' = driver /\ phase' = phase
    BY <1>1 DEF Passes
  <2>2. WellFormed(todo, DOMAIN Script.unwind, Work) /\ 1 \in DOMAIN todo
    BY <1>1, Tails DEF Passes, ScriptInv, WellFormed
  <2>3. WellFormed(todo', DOMAIN Script.unwind, Work)
    BY <1>1, <2>2, WellFormedTail DEF Passes
  <2>4. phase = "unload" => WellFormed(todo', {}, Work)
    BY <1>1, WellFormedTail DEF Passes, ScriptInv
  <2>5. (Takes(todo[1]) \ Works(todo[1])) \cap Work = {} /\ Works(todo[1]) \subseteq Work
    BY <2>2, Apart DEF WellFormed
  <2>6. held' \cap Work = {} /\ pending' \subseteq Work
    BY <1>1, <2>5 DEF Passes, ScriptInv
  <2>. QED BY <1>0, <2>1, <2>3, <2>4, <2>6 DEF ScriptInv
<1>2. CASE JumpsAway
  <2>1. driver' = driver /\ phase' = phase /\ held' = held /\ pending' = pending /\ phase = "load"
    BY <1>2 DEF JumpsAway
  <2>. QED BY <1>0, <1>2, <2>1, Jumping DEF ScriptInv
<1>3. CASE Load
  <2>1. driver' = driver /\ phase' = "load" /\ held' = held /\ pending' = pending /\ todo' = Script.load
    BY <1>3 DEF Load, Start
  <2>. QED BY <1>0, <2>1, Scripts0 DEF ScriptInv
<1>4. CASE Unload
  <2>1. driver' = driver /\ phase' = "unload" /\ held' = held /\ pending' = pending /\ todo' = Script.unload
    BY <1>4 DEF Unload, Start
  <2>. QED BY <1>0, <2>1, Scripts0 DEF ScriptInv
<1>5. CASE Finish
  <2>1. driver' = driver /\ pending' = pending /\ held' \subseteq held
    BY <1>5 DEF Finish
  <2>2. phase' \in {"in", "out"}
    <3>1. WellFormed(todo, DOMAIN Script.unwind, Work) /\ Running("end")
      BY <1>5, Current DEF Finish
    <3>2. Len(todo) = 1 /\ Head(todo) = todo[1] /\ Returns(todo) = todo[1].to
      BY <3>1, Tails DEF WellFormed, Running, Returns
    <3>3. Head(todo).to \in {"in", "out"}
      BY <3>1, <3>2 DEF WellFormed
    <3>. QED BY <1>5, <3>3 DEF Finish
  <2>. QED BY <1>0, <2>1, <2>2 DEF ScriptInv
<1>6. CASE Disturbed
  <2>1. driver' = driver /\ phase' = phase /\ todo' = todo
    BY <1>6 DEF Disturbed
  <2>2. held' \cap Work = {} /\ pending' \subseteq Work
    BY <1>6, Scripts0 DEF Disturbed, ScriptInv
  <2>. QED BY <1>0, <2>1, <2>2 DEF ScriptInv
<1>7. CASE UNCHANGED driverVars
  <2>1. /\ driver' = driver /\ phase' = phase /\ todo' = todo
        /\ held' = held /\ pending' = pending
    BY <1>7 DEF driverVars
  <2>. QED BY <1>0, <2>1 DEF ScriptInv
<1>. QED BY <1>1, <1>2, <1>3, <1>4, <1>5, <1>6, <1>7, StepCases

LEMMA ScriptInvariant == LifeSpec /\ KeepsDiscipline => []ScriptInv
<1>1. LifeInit /\ KeepsDiscipline => ScriptInv
  BY DEF LifeInit, KeepsDiscipline, ScriptInv
<1>. QED BY <1>1, ScriptNext, PTL DEF LifeSpec

-----------------------------------------------------------------------------
(***************************************************************************)
(* Nothing is left behind.                                                 *)
(***************************************************************************)
LEMMA AskedOnceTail ==
  ASSUME NEW h, NEW s \in Seq(Steps), s # <<>>, AskedOnce(h, s)
  PROVE  /\ AskedOnce(h, Tail(s))
         /\ \A i \in DOMAIN Tail(s) : Jumps(Tail(s)[i]) =>
              Missing(Tail(s)[i]) \cap Takes(s[1]) \cap TakenBefore(Tail(s), i) = {}
<1>1. ASSUME NEW i \in DOMAIN Tail(s), Jumps(Tail(s)[i]), NEW r \in Missing(Tail(s)[i])
      PROVE  /\ r \notin Started(h) \cup h.lines
             /\ \A j, k \in 1..(i - 1) : r \in Takes(Tail(s)[j]) \cap Takes(Tail(s)[k]) => j = k
             /\ r \in Takes(s[1]) => r \notin TakenBefore(Tail(s), i)
  <2>1. i \in 1..(Len(s) - 1) /\ i + 1 \in DOMAIN s /\ Tail(s)[i] = s[i + 1]
    BY Tails
  <2>2. \A j, k \in 1..(i + 1 - 1) : r \in Takes(s[j]) \cap Takes(s[k]) => j = k
    BY <1>1, <2>1 DEF AskedOnce
  <2>3. \A j \in 1..(i - 1) : j + 1 \in 1..(i + 1 - 1) /\ Tail(s)[j] = s[j + 1]
    BY <2>1, Tails
  <2>4. \A j, k \in 1..(i - 1) : r \in Takes(Tail(s)[j]) \cap Takes(Tail(s)[k]) => j = k
    <3> SUFFICES ASSUME NEW j \in 1..(i - 1), NEW k \in 1..(i - 1),
                        r \in Takes(Tail(s)[j]) \cap Takes(Tail(s)[k])
                 PROVE  j = k
      OBVIOUS
    <3>1. j + 1 = k + 1
      BY <2>2, <2>3
    <3>. QED BY <3>1
  <2>5. ASSUME r \in Takes(s[1]), NEW j \in 1..(i - 1), r \in Takes(Tail(s)[j]) PROVE FALSE
    <3>1. 1 \in 1..(i + 1 - 1)
      BY <2>1
    <3>2. 1 = j + 1
      BY <2>2, <2>3, <2>5, <3>1
    <3>. QED BY <2>5, <3>2
  <2>6. r \notin Started(h) \cup h.lines
    BY <1>1, <2>1 DEF AskedOnce
  <2>7. r \in Takes(s[1]) => r \notin TakenBefore(Tail(s), i)
    <3>1. TakenBefore(Tail(s), i) = UNION {Takes(Tail(s)[j]) : j \in 1..(i - 1)}
      BY DEF TakenBefore
    <3>. QED BY <2>5, <3>1
  <2>. QED BY <2>4, <2>6, <2>7
<1>. QED BY <1>1 DEF AskedOnce

(* What NoneOr looks at: what failed is not there and will not be asked    *)
(* for again, nor will what is there.                                      *)
Absent(s, M, F) ==
  \A i \in DOMAIN s : Jumps(s[i]) => \A r \in Missing(s[i]) :
    /\ r \in F => r \notin M \cup TakenBefore(s, i)
    /\ r \in M => r \notin TakenBefore(s, i)

LEMMA AbsentTail ==
  ASSUME NEW h, NEW s \in Seq(Steps), s # <<>>, AskedOnce(h, s), NEW M, NEW F, Absent(s, M, F),
         NEW N, NEW G, N \subseteq M \cup Takes(s[1]),
         G = F \/ (G = F \cup Takes(s[1]) /\ N \subseteq M)
  PROVE  Absent(Tail(s), N, G)
<1> SUFFICES ASSUME NEW i \in DOMAIN Tail(s), Jumps(Tail(s)[i]), NEW r \in Missing(Tail(s)[i])
             PROVE  /\ r \in G => r \notin N \cup TakenBefore(Tail(s), i)
                    /\ r \in N => r \notin TakenBefore(Tail(s), i)
  BY DEF Absent
<1>1. i \in 1..Len(s) /\ i + 1 \in DOMAIN s /\ Tail(s)[i] = s[i + 1]
  BY Tails
<1>2. /\ r \in F => r \notin M \cup TakenBefore(s, i + 1)
      /\ r \in M => r \notin TakenBefore(s, i + 1)
  BY <1>1 DEF Absent
<1>3. TakenBefore(s, i + 1) = Takes(s[1]) \cup TakenBefore(Tail(s), i)
  BY <1>1, TakenTail
<1>4. r \in Takes(s[1]) => r \notin TakenBefore(Tail(s), i)
  BY AskedOnceTail
<1>. QED BY <1>2, <1>3, <1>4

LEMMA JumpsClearTail ==
  ASSUME NEW d, NEW s \in Seq(Steps), s # <<>>, NEW M, JumpsClear(d, s, M),
         NEW N, N \subseteq M \cup Takes(s[1])
  PROVE  JumpsClear(d, Tail(s), N)
<1> DEFINE h == Scripts[d].handler
<1> SUFFICES ASSUME NEW i \in DOMAIN Tail(s), Jumps(Tail(s)[i])
             PROVE  LET u == Scripts[d].unwind[Tail(s)[i].to]
                        K == Grown(h, (N \cup TakenBefore(Tail(s), i)) \ Missing(Tail(s)[i]))
                    IN IF Returns(u) = "out" THEN Clears(h, u, K, LeftByFailure[d] \cup Statics)
                                             ELSE TakenIn(u) = {} /\ K \subseteq Owned(d)
  BY DEF JumpsClear
<1>1. i \in 1..Len(s) /\ i + 1 \in DOMAIN s /\ Tail(s)[i] = s[i + 1]
  BY Tails
<1> DEFINE u == Scripts[d].unwind[Tail(s)[i].to]
           J == (M \cup TakenBefore(s, i + 1)) \ Missing(Tail(s)[i])
           K == (N \cup TakenBefore(Tail(s), i)) \ Missing(Tail(s)[i])
<1>2. IF Returns(u) = "out" THEN Clears(h, u, Grown(h, J), LeftByFailure[d] \cup Statics)
                            ELSE TakenIn(u) = {} /\ Grown(h, J) \subseteq Owned(d)
  BY <1>1 DEF JumpsClear
<1>3. K \subseteq J
  BY <1>1, TakenTail
<1> HIDE DEF h, u, J, K
<1>4. Grown(h, K) \subseteq Grown(h, J)
  BY <1>3, GrownMonotone
<1>5. Clears(h, u, Grown(h, J), LeftByFailure[d] \cup Statics) =>
        Clears(h, u, Grown(h, K), LeftByFailure[d] \cup Statics)
  BY <1>4, ClearsFewer
<1>. QED BY <1>2, <1>4, <1>5 DEF K, u

LEMMA JumpsClearGrown ==
  ASSUME NEW d, NEW s, NEW M, JumpsClear(d, s, M), AskedOnce(Scripts[d].handler, s),
         M \cap Scripts[d].handler.lines # {}
  PROVE  JumpsClear(d, s, M \cup Started(Scripts[d].handler))
<1> DEFINE h == Scripts[d].handler
<1>1. ASSUME NEW i \in DOMAIN s, Jumps(s[i])
      PROVE  Grown(h, (M \cup Started(h) \cup TakenBefore(s, i)) \ Missing(s[i])) =
             Grown(h, (M \cup TakenBefore(s, i)) \ Missing(s[i]))
  <2>1. Missing(s[i]) \cap (Started(h) \cup h.lines) = {}
    BY <1>1 DEF AskedOnce
  <2>. QED BY <2>1 DEF Grown
<1>. QED BY <1>1 DEF JumpsClear

LEMMA OwnedGrows ==
  ASSUME NEW d, NEW M, M \subseteq Owned(d), M \cap Scripts[d].handler.lines # {}
  PROVE  M \cup Started(Scripts[d].handler) \subseteq Owned(d)
BY DEF Owned, Grown

LEMMA JumpsClearFewer ==
  ASSUME NEW d, NEW s, NEW M, JumpsClear(d, s, M), NEW N \in SUBSET M
  PROVE  JumpsClear(d, s, N)
<1> DEFINE h == Scripts[d].handler
<1>1. ASSUME NEW i \in DOMAIN s, Jumps(s[i])
      PROVE  LET u == Scripts[d].unwind[s[i].to]
                 K == Grown(h, (N \cup TakenBefore(s, i)) \ Missing(s[i]))
             IN IF Returns(u) = "out" THEN Clears(h, u, K, LeftByFailure[d] \cup Statics)
                                      ELSE TakenIn(u) = {} /\ K \subseteq Owned(d)
  <2> DEFINE u == Scripts[d].unwind[s[i].to]
             P == (M \cup TakenBefore(s, i)) \ Missing(s[i])
             Q == (N \cup TakenBefore(s, i)) \ Missing(s[i])
  <2>1. IF Returns(u) = "out" THEN Clears(h, u, Grown(h, P), LeftByFailure[d] \cup Statics)
                              ELSE TakenIn(u) = {} /\ Grown(h, P) \subseteq Owned(d)
    BY <1>1 DEF JumpsClear
  <2>2. Q \subseteq P
    OBVIOUS
  <2> HIDE DEF h, u, P, Q
  <2>3. Grown(h, Q) \subseteq Grown(h, P)
    BY <2>2, GrownMonotone
  <2>4. Clears(h, u, Grown(h, P), LeftByFailure[d] \cup Statics) =>
          Clears(h, u, Grown(h, Q), LeftByFailure[d] \cup Statics)
    BY <2>3, ClearsFewer
  <2>. QED BY <2>1, <2>3, <2>4 DEF u, Q
<1>. QED BY <1>1 DEF JumpsClear

(* What is known to stay with the driver after its lives.                  *)
EverLeft(d) == LeftByFailure[d] \cup LeftByUnload[d]

(* The rest of the running script clears what this life has got so far; of *)
(* a load that will succeed, that is among what the driver may own.        *)
LeaveInv ==
  /\ before \subseteq EverLeft(driver)
  /\ phase = "out" => held \cup pending \subseteq EverLeft(driver)
  /\ FailedLoadLeavesNothingElse /\ UnloadLeavesNothingElse
  /\ phase = "load" =>
       /\ AskedOnce(Handler, todo) /\ Absent(todo, Mine, failed)
       /\ Returns(todo) = "in" => Mine \cup TakenIn(todo) \subseteq Owned(driver)
       /\ Returns(todo) = "out" =>
            Clears(Handler, todo, Mine, LeftByFailure[driver] \cup Statics)
       /\ JumpsClear(driver, todo, Mine)
  /\ phase = "in" => Mine \subseteq Owned(driver)
  /\ phase = "unload" => Clears(Handler, todo, Mine, LeftByUnload[driver] \cup Statics)

(* A script without a jump looks at nothing.                               *)
LEMMA Straight ==
  ASSUME NEW s, NEW W, WellFormed(s, {}, W)
  PROVE  \A i \in DOMAIN s : ~Jumps(s[i])
BY DEF WellFormed

LEMMA LeaveInit == LifeInit => LeaveInv
BY DEF LifeInit, LeaveInv, FailedLoadLeavesNothingElse, UnloadLeavesNothingElse

LEMMA LeavePasses == ScriptInv /\ LeaveInv /\ Passes => LeaveInv'
<1> SUFFICES ASSUME ScriptInv, LeaveInv, Passes PROVE LeaveInv'
  OBVIOUS
<1>1. /\ driver' = driver /\ phase' = phase /\ before' = before /\ outcome' = outcome
      /\ todo' = Tail(todo) /\ phase \in {"load", "unload"} /\ todo[1].op # "end"
  BY DEF Passes
<1>2. Script' = Script /\ Handler' = Handler
  BY <1>1 DEF Script, Handler
<1>3. WellFormed(todo, DOMAIN Script.unwind, Work) /\ todo \in Seq(Steps) /\ todo # <<>>
  BY <1>1 DEF ScriptInv, WellFormed
<1>4. Returns(Tail(todo)) = Returns(todo)
  BY <1>1, <1>3, WellFormedTail
<1>5. /\ Mine' \subseteq (Mine \ Gives(todo[1])) \cup Takes(todo[1])
      /\ failed' = failed \/ (failed' = failed \cup Takes(todo[1]) /\ Mine' = Mine)
  <2>1. Works(todo[1]) \subseteq Takes(todo[1])
    BY DEF Takes
  <2>. QED BY <1>1, <2>1 DEF Passes, Mine
<1>6. CASE phase = "load"
  <2>1. AskedOnce(Handler, todo) /\ Absent(todo, Mine, failed)
    BY <1>6 DEF LeaveInv
  <2>2. AskedOnce(Handler, Tail(todo))
    BY <1>3, <2>1, AskedOnceTail
  <2>3. Absent(Tail(todo), Mine', failed')
    BY <1>3, <1>5, <2>1, AbsentTail
  <2>4. JumpsClear(driver, Tail(todo), Mine')
    <3>1. Mine' \subseteq Mine \cup Takes(todo[1]) /\ JumpsClear(driver, todo, Mine)
      BY <1>5, <1>6 DEF LeaveInv
    <3>. QED BY <1>3, <3>1, JumpsClearTail
  <2>5. Returns(todo) = "in" => Mine' \cup TakenIn(Tail(todo)) \subseteq Owned(driver)
    <3>1. TakenIn(todo) = Takes(todo[1]) \cup TakenIn(Tail(todo))
      BY <1>3, InTail
    <3>. QED BY <1>5, <1>6, <3>1 DEF LeaveInv
  <2>6. Returns(todo) = "out" =>
          Clears(Handler, Tail(todo), Mine', LeftByFailure[driver] \cup Statics)
    BY <1>3, <1>5, <1>6, ClearsTail DEF LeaveInv
  <2>. QED BY <1>1, <1>2, <1>4, <1>6, <2>2, <2>3, <2>4, <2>5, <2>6
           DEF LeaveInv, FailedLoadLeavesNothingElse, UnloadLeavesNothingElse
<1>7. CASE phase = "unload"
  <2>1. Clears(Handler, Tail(todo), Mine', LeftByUnload[driver] \cup Statics)
    BY <1>3, <1>5, <1>7, ClearsTail DEF LeaveInv
  <2>. QED BY <1>1, <1>2, <1>7, <2>1
           DEF LeaveInv, FailedLoadLeavesNothingElse, UnloadLeavesNothingElse
<1>. QED BY <1>1, <1>6, <1>7

LEMMA LeaveJumps == ScriptInv /\ LeaveInv /\ JumpsAway => LeaveInv'
<1> SUFFICES ASSUME ScriptInv, LeaveInv, JumpsAway PROVE LeaveInv'
  OBVIOUS
<1> DEFINE u == Script.unwind[todo[1].to]
<1>1. /\ driver' = driver /\ phase' = phase /\ before' = before /\ outcome' = outcome
      /\ held' = held /\ pending' = pending /\ todo' = u /\ phase = "load" /\ Jumps(todo[1])
      /\ Missing(todo[1]) \subseteq failed
  BY DEF JumpsAway
<1>2. Script' = Script /\ Handler' = Handler /\ Mine' = Mine
  BY <1>1 DEF Script, Handler, Mine
<1>3. WellFormed(u, {}, Work) /\ 1 \in DOMAIN todo
  BY Jumping
<1>4. todo \in Seq(Steps) /\ todo # <<>>
  BY <1>1 DEF ScriptInv, WellFormed
<1>5. \A i \in DOMAIN u : ~Jumps(u[i])
  BY <1>3, Straight
<1>6. AskedOnce(Handler, u) /\ Absent(u, Mine', failed') /\ JumpsClear(driver, u, Mine')
  BY <1>5 DEF AskedOnce, Absent, JumpsClear
<1>7. TakenBefore(todo, 1) = {}
  BY <1>4, Tails, TakenTail
<1>8. Mine \cap Missing(todo[1]) = {}
  BY <1>1, <1>3 DEF LeaveInv, Absent
<1>9. LET N == Grown(Handler, Mine)
      IN IF Returns(u) = "out" THEN Clears(Handler, u, N, LeftByFailure[driver] \cup Statics)
                               ELSE TakenIn(u) = {} /\ N \subseteq Owned(driver)
  <2>1. (Mine \cup TakenBefore(todo, 1)) \ Missing(todo[1]) = Mine
    BY <1>7, <1>8
  <2>2. JumpsClear(driver, todo, Mine)
    BY <1>1 DEF LeaveInv
  <2>. QED BY <1>1, <1>3, <2>1, <2>2 DEF JumpsClear, Script, Handler
<1>10. Mine \subseteq Grown(Handler, Mine)
  BY GrownMonotone
<1>11. Returns(u) = "out" => Clears(Handler, u, Mine, LeftByFailure[driver] \cup Statics)
  BY <1>9, <1>10, ClearsFewer
<1>12. Returns(u) # "out" => Mine \cup TakenIn(u) \subseteq Owned(driver)
  BY <1>9, <1>10
<1> HIDE DEF u
<1>. QED BY <1>1, <1>2, <1>6, <1>11, <1>12
         DEF LeaveInv, FailedLoadLeavesNothingElse, UnloadLeavesNothingElse

LEMMA LeaveLoads == ScriptInv /\ LeaveInv /\ (Load \/ Unload) => LeaveInv'
<1> SUFFICES ASSUME ScriptInv, LeaveInv, Load \/ Unload PROVE LeaveInv'
  OBVIOUS
<1>1. driver' = driver /\ held' = held /\ pending' = pending
  BY DEF Load, Unload, Start
<1>2. Script' = Script /\ Handler' = Handler
  BY <1>1 DEF Script, Handler
<1>3. LeavesNothingElse(driver)
  BY Scripts0
<1>4. CASE Load
  <2>1. phase = "out" /\ phase' = "load" /\ todo' = Script.load /\ before' = held \cup pending /\ failed' = {}
    BY <1>4 DEF Load, Start
  <2>2. Mine' = {}
    BY <1>1, <2>1 DEF Mine
  <2>3. AskedOnce(Handler, Script.load) /\ JumpsClear(driver, Script.load, {})
    BY <1>3 DEF LeavesNothingElse, Script, Handler
  <2>4. Absent(Script.load, {}, {})
    BY DEF Absent
  <2>5. Returns(Script.load) = "in" /\ TakenIn(Script.load) \subseteq Owned(driver)
    BY Scripts0, GrownMonotone DEF Owned, Script
  <2>6. before' \subseteq EverLeft(driver)
    BY <2>1 DEF LeaveInv
  <2>. QED BY <1>1, <1>2, <2>1, <2>2, <2>3, <2>4, <2>5, <2>6
           DEF LeaveInv, FailedLoadLeavesNothingElse, UnloadLeavesNothingElse
<1>5. CASE Unload
  <2>1. phase = "in" /\ phase' = "unload" /\ todo' = Script.unload /\ before' = before
    BY <1>5 DEF Unload, Start
  <2>2. Mine' = Mine /\ Mine \subseteq Owned(driver)
    BY <1>1, <2>1 DEF Mine, LeaveInv
  <2>3. Clears(Handler, Script.unload, Mine, LeftByUnload[driver] \cup Statics)
    BY <1>3, <2>2, ClearsFewer DEF LeavesNothingElse, Script, Handler
  <2>. QED BY <1>1, <1>2, <2>1, <2>2, <2>3
           DEF LeaveInv, FailedLoadLeavesNothingElse, UnloadLeavesNothingElse
<1>. QED BY <1>4, <1>5

LEMMA LeaveFinishes == ScriptInv /\ LeaveInv /\ Finish => LeaveInv'
<1> SUFFICES ASSUME ScriptInv, LeaveInv, Finish PROVE LeaveInv'
  OBVIOUS
<1>1. /\ driver' = driver /\ before' = before /\ pending' = pending /\ held' \subseteq held
      /\ phase' = IF phase = "load" THEN Head(todo).to ELSE "out"
      /\ phase' = "out" => held' = held \ Statics
  BY DEF Finish
<1>2. Script' = Script /\ Handler' = Handler
  BY <1>1 DEF Script, Handler
<1>3. Running("end")
  BY DEF Finish
<1>4. /\ WellFormed(todo, DOMAIN Script.unwind, Work) /\ todo[1].op = "end" /\ Head(todo) = todo[1]
      /\ phase \in {"load", "unload"}
  BY <1>3, Current
<1>5. Returns(todo) = todo[1].to /\ Returns(todo) \in {"in", "out"}
  <2>1. Len(todo) = 1
    BY <1>4, Tails DEF WellFormed
  <2>. QED BY <1>4, <2>1 DEF WellFormed, Returns
<1>6. Mine' \subseteq Mine /\ (phase' = "out" => Mine' \subseteq Mine \ Statics)
  BY <1>1, Scripts0 DEF Mine, ScriptInv
<1>7. \A L : Clears(Handler, todo, Mine, L \cup Statics) /\ phase' = "out" => Mine' \subseteq L
  <2> SUFFICES ASSUME NEW L, Clears(Handler, todo, Mine, L \cup Statics), phase' = "out"
               PROVE  Mine' \subseteq L
    OBVIOUS
  <2>1. Mine \subseteq L \cup Statics
    BY <1>4, ClearsAtEnd
  <2>. QED BY <1>6, <2>1
<1>8. before' \subseteq EverLeft(driver')
  BY <1>1 DEF LeaveInv
<1>9. CASE phase = "load" /\ Returns(todo) = "in"
  <2>1. phase' = "in" /\ outcome' # "failed" /\ outcome' # "unloaded"
    BY <1>1, <1>4, <1>5, <1>9 DEF Finish
  <2>2. Mine' \subseteq Owned(driver)
    BY <1>6, <1>9 DEF LeaveInv
  <2>. QED BY <1>1, <1>8, <2>1, <2>2
           DEF LeaveInv, FailedLoadLeavesNothingElse, UnloadLeavesNothingElse
<1>10. CASE phase = "load" /\ Returns(todo) = "out"
  <2>1. phase' = "out" /\ outcome' = "failed"
    BY <1>1, <1>4, <1>5, <1>10 DEF Finish
  <2>2. Mine' \subseteq LeftByFailure[driver]
    BY <1>7, <1>10, <2>1 DEF LeaveInv
  <2>3. (held \cup pending)' \subseteq EverLeft(driver')
    BY <1>1, <1>8, <2>2 DEF Mine, EverLeft
  <2>. QED BY <1>1, <1>8, <2>1, <2>2, <2>3
           DEF LeaveInv, FailedLoadLeavesNothingElse, UnloadLeavesNothingElse, Mine
<1>11. CASE phase = "unload"
  <2>1. phase' = "out" /\ outcome' = "unloaded"
    BY <1>1, <1>11 DEF Finish
  <2>2. Mine' \subseteq LeftByUnload[driver]
    BY <1>7, <1>11, <2>1 DEF LeaveInv
  <2>3. (held \cup pending)' \subseteq EverLeft(driver')
    BY <1>1, <1>8, <2>2 DEF Mine, EverLeft
  <2>. QED BY <1>1, <1>8, <2>1, <2>2, <2>3
           DEF LeaveInv, FailedLoadLeavesNothingElse, UnloadLeavesNothingElse, Mine
<1>. QED BY <1>4, <1>5, <1>9, <1>10, <1>11

LEMMA LeaveDisturbed == ScriptInv /\ LeaveInv /\ Disturbed => LeaveInv'
<1> SUFFICES ASSUME ScriptInv, LeaveInv, Disturbed PROVE LeaveInv'
  OBVIOUS
<1>1. /\ driver' = driver /\ phase' = phase /\ before' = before /\ outcome' = outcome
      /\ todo' = todo /\ failed' = failed
  BY DEF Disturbed
<1>2. Script' = Script /\ Handler' = Handler
  BY <1>1 DEF Script, Handler
<1>3. CASE held' = held /\ pending' \subseteq pending
  <2>1. Mine' \subseteq Mine
    BY <1>1, <1>3 DEF Mine
  <2>2. phase = "out" => (held \cup pending)' \subseteq EverLeft(driver)
    BY <1>3 DEF LeaveInv
  <2>3. CASE phase = "load"
    <3>1. Absent(todo, Mine', failed)
      BY <2>1, <2>3 DEF LeaveInv, Absent
    <3>2. JumpsClear(driver, todo, Mine')
      <4>1. JumpsClear(driver, todo, Mine)
        BY <2>3 DEF LeaveInv
      <4>. QED BY <2>1, <4>1, JumpsClearFewer
    <3>3. Returns(todo) = "in" => Mine' \cup TakenIn(todo) \subseteq Owned(driver)
      BY <2>1, <2>3 DEF LeaveInv
    <3>4. Returns(todo) = "out" =>
            Clears(Handler, todo, Mine', LeftByFailure[driver] \cup Statics)
      BY <2>1, <2>3, ClearsFewer DEF LeaveInv
    <3>. QED BY <1>1, <1>2, <2>3, <3>1, <3>2, <3>3, <3>4
             DEF LeaveInv, FailedLoadLeavesNothingElse, UnloadLeavesNothingElse
  <2>4. CASE phase = "unload"
    <3>1. Clears(Handler, todo, Mine', LeftByUnload[driver] \cup Statics)
      BY <2>1, <2>4, ClearsFewer DEF LeaveInv
    <3>. QED BY <1>1, <1>2, <2>4, <3>1
             DEF LeaveInv, FailedLoadLeavesNothingElse, UnloadLeavesNothingElse
  <2>5. CASE phase \in {"in", "out"}
    BY <1>1, <1>2, <1>3, <2>1, <2>2, <2>5
       DEF LeaveInv, FailedLoadLeavesNothingElse, UnloadLeavesNothingElse
  <2>. QED BY <2>3, <2>4, <2>5 DEF ScriptInv
<1>4. CASE /\ phase # "out" /\ (held \ before) \cap Handler.lines # {}
           /\ held' = held \cup Handler.gives /\ pending' = pending \cup Handler.arms
  <2> DEFINE N == Mine \cup Started(Handler)
  <2>1. Mine' \subseteq N /\ Mine \cap Handler.lines # {}
    BY <1>1, <1>4 DEF Mine, Started
  <2>2. CASE phase = "load"
    <3>0. AskedOnce(Handler, todo)
      BY <2>2 DEF LeaveInv
    <3>1. Absent(todo, Mine', failed)
      BY <2>1, <2>2, <3>0 DEF LeaveInv, Absent, AskedOnce
    <3>2. JumpsClear(driver, todo, Mine')
      <4>1. JumpsClear(driver, todo, N)
        BY <2>1, <2>2, <3>0, JumpsClearGrown DEF LeaveInv, Handler, Script
      <4>. QED BY <2>1, <4>1, JumpsClearFewer
    <3>3. Returns(todo) = "in" => Mine' \cup TakenIn(todo) \subseteq Owned(driver)
      <4>1. Returns(todo) = "in" => N \subseteq Owned(driver)
        BY <2>1, <2>2, OwnedGrows DEF LeaveInv, Handler, Script
      <4>. QED BY <2>1, <2>2, <4>1 DEF LeaveInv
    <3>4. Returns(todo) = "out" =>
            Clears(Handler, todo, Mine', LeftByFailure[driver] \cup Statics)
      BY <2>1, <2>2, ClearsFewer, ClearsGrown DEF LeaveInv, ScriptInv, WellFormed
    <3>. QED BY <1>1, <1>2, <2>2, <3>0, <3>1, <3>2, <3>3, <3>4
             DEF LeaveInv, FailedLoadLeavesNothingElse, UnloadLeavesNothingElse
  <2>3. CASE phase = "unload"
    <3>1. Clears(Handler, todo, Mine', LeftByUnload[driver] \cup Statics)
      BY <2>1, <2>3, ClearsFewer, ClearsGrown DEF LeaveInv, ScriptInv, WellFormed
    <3>. QED BY <1>1, <1>2, <2>3, <3>1
             DEF LeaveInv, FailedLoadLeavesNothingElse, UnloadLeavesNothingElse
  <2>4. CASE phase = "in"
    <3>1. N \subseteq Owned(driver)
      BY <2>1, <2>4, OwnedGrows DEF LeaveInv, Handler, Script
    <3>. QED BY <1>1, <1>2, <2>1, <2>4, <3>1
             DEF LeaveInv, FailedLoadLeavesNothingElse, UnloadLeavesNothingElse
  <2>. QED BY <1>4, <2>2, <2>3, <2>4 DEF ScriptInv
<1>. QED BY <1>3, <1>4 DEF Disturbed

LEMMA LeaveNext == ScriptInv /\ LeaveInv /\ [LifeNext]_driverVars => LeaveInv'
<1> SUFFICES ASSUME ScriptInv, LeaveInv, [LifeNext]_driverVars PROVE LeaveInv'
  OBVIOUS
<1>1. CASE LifeNext
  BY <1>1, StepCases, LeavePasses, LeaveJumps, LeaveLoads, LeaveFinishes, LeaveDisturbed
<1>2. CASE UNCHANGED driverVars
  <2>1. /\ driver' = driver /\ phase' = phase /\ todo' = todo /\ before' = before
        /\ held' = held /\ pending' = pending /\ failed' = failed /\ outcome' = outcome
    BY <1>2 DEF driverVars
  <2>. QED BY <2>1 DEF LeaveInv, Mine, Handler, Script, FailedLoadLeavesNothingElse,
                       UnloadLeavesNothingElse
<1>. QED BY <1>1, <1>2

LEMMA LeaveInvariant == LifeSpec /\ KeepsDiscipline => []LeaveInv
BY ScriptInvariant, LeaveInit, LeaveNext, PTL DEF LifeSpec

(* Init and probe functions, whichever of their calls fails and whatever   *)
(* comes in between: a load that fails gives back all it took, but for the *)
(* gaps LeftByFailure names.                                               *)
THEOREM FailedLoadsLeaveNothingElse ==
  LifeSpec /\ KeepsDiscipline => []FailedLoadLeavesNothingElse
<1>1. LeaveInv => FailedLoadLeavesNothingElse
  BY DEF LeaveInv
<1>. QED BY <1>1, LeaveInvariant, PTL

(* Exit and remove functions, after any load that succeeded and any        *)
(* interrupts, timers and threads: all that load and its handlers took is  *)
(* given back, but for the gaps LeftByUnload names.                        *)
THEOREM UnloadsLeaveNothingElse ==
  LifeSpec /\ KeepsDiscipline => []UnloadLeavesNothingElse
<1>1. LeaveInv => UnloadLeavesNothingElse
  BY DEF LeaveInv
<1>. QED BY <1>1, LeaveInvariant, PTL

-----------------------------------------------------------------------------
(***************************************************************************)
(* Nothing is given back that is not there.                                *)
(***************************************************************************)
(* With M there or asked for and F given back, s gives back only what is   *)
(* there, but for R.                                                       *)
SafePuts(s, M, F, R) ==
  /\ GivesOnce(s, R) /\ PutsOnly(s, M \cup R)
  /\ \A i \in DOMAIN s : Frees(s[i]) \cap F \subseteq R

LEMMA SafeTail ==
  ASSUME NEW s \in Seq(Steps), s # <<>>, NEW M, NEW F, NEW R, SafePuts(s, M, F, R),
         NEW N, M \ Loses(s[1]) \subseteq N, NEW G, G \subseteq F \cup Loses(s[1])
  PROVE  SafePuts(Tail(s), N, G, R)
<1>1. ASSUME NEW i \in DOMAIN Tail(s)
      PROVE  /\ i + 1 \in DOMAIN s /\ Tail(s)[i] = s[i + 1] /\ 1 \in DOMAIN s /\ 1 < i + 1
             /\ Loses(s[1]) \cap (Puts(s[i + 1]) \cup Frees(s[i + 1])) \subseteq R
  <2>1. i + 1 \in DOMAIN s /\ Tail(s)[i] = s[i + 1] /\ 1 \in DOMAIN s /\ 1 < i + 1
    BY Tails
  <2>. QED BY <2>1 DEF SafePuts, GivesOnce
<1>2. GivesOnce(Tail(s), R)
  <2> SUFFICES ASSUME NEW i \in DOMAIN Tail(s), NEW j \in DOMAIN Tail(s), i < j
               PROVE  Loses(Tail(s)[i]) \cap (Puts(Tail(s)[j]) \cup Frees(Tail(s)[j])) \subseteq R
    BY DEF GivesOnce
  <2>1. i + 1 < j + 1
    BY Tails
  <2>. QED BY <1>1, <2>1 DEF SafePuts, GivesOnce
<1>3. PutsOnly(Tail(s), N \cup R)
  <2> SUFFICES ASSUME NEW i \in DOMAIN Tail(s) PROVE Puts(Tail(s)[i]) \subseteq N \cup R
    BY DEF PutsOnly
  <2>1. Puts(s[i + 1]) \subseteq M \cup R
    BY <1>1 DEF SafePuts, PutsOnly
  <2>. QED BY <1>1, <2>1
<1>4. ASSUME NEW i \in DOMAIN Tail(s) PROVE Frees(Tail(s)[i]) \cap G \subseteq R
  <2>1. Frees(s[i + 1]) \cap F \subseteq R
    BY <1>1 DEF SafePuts
  <2>. QED BY <1>1, <2>1
<1>. QED BY <1>2, <1>3, <1>4 DEF SafePuts

LEMMA SafeMore ==
  ASSUME NEW s, NEW M, NEW F, NEW R, SafePuts(s, M, F, R), NEW N, M \subseteq N \cup R
  PROVE  SafePuts(s, N, F, R)
BY DEF SafePuts, PutsOnly

LEMMA SafeNothing ==
  ASSUME NEW s, NEW M, NEW F, NEW R, GivesNothing(s)
  PROVE  SafePuts(s, M, F, R)
<1>1. \A i \in DOMAIN s : Loses(s[i]) = {} /\ Puts(s[i]) = {} /\ Frees(s[i]) = {}
  BY DEF GivesNothing, Loses
<1>. QED BY <1>1 DEF SafePuts, GivesOnce, PutsOnly

LEMMA NothingTail ==
  ASSUME NEW s \in Seq(Steps), s # <<>>, GivesNothing(s)
  PROVE  GivesNothing(Tail(s)) /\ Loses(s[1]) = {}
BY Tails DEF GivesNothing

LEMMA FatalTail ==
  ASSUME NEW h, NEW s \in Seq(Steps), s # <<>>, NEW M, Fatal(h, s, M), Uses(s[1]) \subseteq M,
         NEW N, N \subseteq M \cup Takes(s[1])
  PROVE  Fatal(h, Tail(s), N)
<1>1. PICK k \in DOMAIN s :
        /\ Uses(s[k]) # {} /\ Uses(s[k]) \cap (M \cup h.gives) = {}
        /\ \A j \in 1..(k - 1) : Loses(s[j]) = {} /\ Takes(s[j]) \cap Uses(s[k]) = {}
  BY DEF Fatal
<1>2. k # 1
  BY <1>1
<1> DEFINE n == k - 1
<1>3. n \in DOMAIN Tail(s) /\ Tail(s)[n] = s[k] /\ 1 \in 1..(k - 1)
  BY <1>2, Tails
<1>4. Uses(Tail(s)[n]) # {} /\ Uses(Tail(s)[n]) \cap (N \cup h.gives) = {}
  BY <1>1, <1>3
<1>5. ASSUME NEW j \in 1..(n - 1)
      PROVE  Loses(Tail(s)[j]) = {} /\ Takes(Tail(s)[j]) \cap Uses(Tail(s)[n]) = {}
  <2>1. j \in 1..(Len(s) - 1) /\ j + 1 \in 1..(k - 1)
    BY <1>3, Tails
  <2>. QED BY <1>1, <1>3, <2>1, Tails
<1> HIDE DEF n
<1>. QED BY <1>3, <1>4, <1>5 DEF Fatal

LEMMA FatalFirst ==
  ASSUME NEW h, NEW s \in Seq(Steps), s # <<>>, NEW M, Fatal(h, s, M)
  PROVE  Puts(s[1]) = {} /\ Frees(s[1]) = {}
<1>1. PICK k \in DOMAIN s :
        /\ Uses(s[k]) # {} /\ Uses(s[k]) \cap (M \cup h.gives) = {}
        /\ \A j \in 1..(k - 1) : Loses(s[j]) = {} /\ Takes(s[j]) \cap Uses(s[k]) = {}
  BY DEF Fatal
<1>2. CASE k = 1
  BY <1>1, <1>2 DEF Uses, Puts, Frees
<1>3. CASE k # 1
  <2>1. 1 \in 1..(k - 1)
    BY <1>3, Tails
  <2>. QED BY <1>1, <2>1 DEF Loses
<1>. QED BY <1>2, <1>3

LEMMA FatalFewer ==
  ASSUME NEW h, NEW s, NEW M, Fatal(h, s, M), NEW N, N \subseteq M \cup h.gives
  PROVE  Fatal(h, s, N)
BY DEF Fatal

LEMMA JumpsPutTail ==
  ASSUME NEW d, NEW s \in Seq(Steps), s # <<>>, NEW M, NEW E, JumpsPut(d, s, M, E),
         NEW N, M \cup Asks(s[1]) \subseteq N, NEW F, F \subseteq E \cup Takes(s[1])
  PROVE  JumpsPut(d, Tail(s), N, F)
<1> DEFINE D == Scripts[d]
           R == GivenBackTwice[d]
<1> SUFFICES ASSUME NEW i \in DOMAIN Tail(s), Jumps(Tail(s)[i])
             PROVE  LET u == D.unwind[Tail(s)[i].to] IN
                    /\ GivesOnce(u, R)
                    /\ PutsOnly(u, N \cup AskedBefore(Tail(s), i + 1) \cup R)
                    /\ Returns(u) = "in" => \/ GivesNothing(D.unload)
                                            \/ Fatal(D.handler, D.unload, F \cup TakenBefore(Tail(s), i))
  BY DEF JumpsPut
<1> DEFINE u == D.unwind[Tail(s)[i].to]
<1>1. i \in 1..Len(s) /\ i + 1 \in DOMAIN s /\ Tail(s)[i] = s[i + 1] /\ i + 1 \in 1..Len(s)
  BY Tails
<1>2. /\ GivesOnce(u, R)
      /\ PutsOnly(u, M \cup AskedBefore(s, i + 1 + 1) \cup R)
      /\ Returns(u) = "in" => \/ GivesNothing(D.unload)
                              \/ Fatal(D.handler, D.unload, E \cup TakenBefore(s, i + 1))
  BY <1>1 DEF JumpsPut
<1>3. AskedBefore(s, i + 1 + 1) = Asks(s[1]) \cup AskedBefore(Tail(s), i + 1)
  BY <1>1, AskedTail
<1>4. TakenBefore(s, i + 1) = Takes(s[1]) \cup TakenBefore(Tail(s), i)
  BY <1>1, TakenTail
<1> HIDE DEF D, u, R
<1>5. PutsOnly(u, N \cup AskedBefore(Tail(s), i + 1) \cup R)
  BY <1>2, <1>3 DEF PutsOnly
<1>6. F \cup TakenBefore(Tail(s), i) \subseteq E \cup TakenBefore(s, i + 1)
  BY <1>4
<1>7. Fatal(D.handler, D.unload, E \cup TakenBefore(s, i + 1)) =>
        Fatal(D.handler, D.unload, F \cup TakenBefore(Tail(s), i))
  BY <1>6, FatalFewer
<1>. QED BY <1>2, <1>5, <1>7 DEF u

LEMMA JumpsPutMore ==
  ASSUME NEW d, NEW s, NEW M, NEW E, JumpsPut(d, s, M, E),
         NEW N, M \subseteq N, NEW F, F \subseteq E \cup Scripts[d].handler.gives
  PROVE  JumpsPut(d, s, N, F)
<1> DEFINE D == Scripts[d]
           R == GivenBackTwice[d]
<1> SUFFICES ASSUME NEW i \in DOMAIN s, Jumps(s[i])
             PROVE  LET u == D.unwind[s[i].to] IN
                    /\ GivesOnce(u, R)
                    /\ PutsOnly(u, N \cup AskedBefore(s, i + 1) \cup R)
                    /\ Returns(u) = "in" => \/ GivesNothing(D.unload)
                                            \/ Fatal(D.handler, D.unload, F \cup TakenBefore(s, i))
  BY DEF JumpsPut
<1> DEFINE u == D.unwind[s[i].to]
<1>2. /\ GivesOnce(u, R)
      /\ PutsOnly(u, M \cup AskedBefore(s, i + 1) \cup R)
      /\ Returns(u) = "in" => \/ GivesNothing(D.unload)
                              \/ Fatal(D.handler, D.unload, E \cup TakenBefore(s, i))
  BY DEF JumpsPut
<1>6. F \cup TakenBefore(s, i) \subseteq E \cup TakenBefore(s, i) \cup D.handler.gives
  OBVIOUS
<1> HIDE DEF D, u, R
<1>5. PutsOnly(u, N \cup AskedBefore(s, i + 1) \cup R)
  BY <1>2 DEF PutsOnly
<1>7. Fatal(D.handler, D.unload, E \cup TakenBefore(s, i)) =>
        Fatal(D.handler, D.unload, F \cup TakenBefore(s, i))
  BY <1>6, FatalFewer
<1>. QED BY <1>2, <1>5, <1>7 DEF u

Twice == GivenBackTwice[driver]

(* What the rest of the script gives back is there by then; so is what the *)
(* unload after a load that will succeed gives back, unless that unload    *)
(* oopses first.                                                           *)
PutInv ==
  /\ ReleasesMatchAcquisitions
  /\ oops = "none" =>
     /\ phase = "load" =>
          /\ SafePuts(todo, held \cup failed, freed, Twice)
          /\ \A i \in DOMAIN todo : Jumps(todo[i]) => freed = {} /\ GivesNothing(todo)
          /\ JumpsPut(driver, todo, held \cup failed, held)
          /\ Returns(todo) = "in" =>
               \/ GivesNothing(Script.unload)
               \/ Fatal(Handler, Script.unload, TakenIn(todo) \cup held)
               \/ /\ GivesNothing(todo)
                  /\ SafePuts(Script.unload, held \cup failed \cup AskedIn(todo), freed, Twice)
     /\ phase = "in" =>
          \/ Fatal(Handler, Script.unload, held)
          \/ SafePuts(Script.unload, held \cup failed, freed, Twice)
     /\ phase = "unload" =>
          \/ Fatal(Handler, todo, held)
          \/ SafePuts(todo, held \cup failed, freed, Twice)

LEMMA PutInit == LifeInit => PutInv
BY DEF LifeInit, PutInv, ReleasesMatchAcquisitions

LEMMA PutPasses == ScriptInv /\ oops = "none" /\ PutInv /\ Passes => PutInv'
<1> SUFFICES ASSUME ScriptInv, oops = "none", PutInv, Passes PROVE PutInv'
  OBVIOUS
<1> DEFINE st == todo[1]
           rest == Tail(todo)
<1>1. /\ driver' = driver /\ phase' = phase /\ todo' = rest
      /\ phase \in {"load", "unload"} /\ st.op # "end"
      /\ held \ Loses(st) \subseteq held' /\ Asks(st) \subseteq held' \cup failed'
      /\ failed \subseteq failed' /\ held' \subseteq held \cup Takes(st)
      /\ freed' \subseteq freed \cup Loses(st)
      /\ stray' \subseteq stray \cup (Puts(st) \ held) \cup ((Frees(st) \cap freed) \ held)
      /\ oops' = "none" => Uses(st) \subseteq held
  BY DEF Passes
<1>2. Script' = Script /\ Handler' = Handler /\ Twice' = Twice
  BY <1>1 DEF Script, Handler, Twice
<1>3. WellFormed(todo, DOMAIN Script.unwind, Work) /\ todo \in Seq(Steps) /\ todo # <<>>
  BY <1>1 DEF ScriptInv, WellFormed
<1>4. Returns(rest) = Returns(todo)
  BY <1>1, <1>3, WellFormedTail
<1>5. 1 \in DOMAIN todo /\ \A i \in DOMAIN rest : i + 1 \in DOMAIN todo /\ rest[i] = todo[i + 1]
  BY <1>3, Tails
<1>6. ReleasesMatchAcquisitions'
  <2>1. (Puts(st) \ held) \cup ((Frees(st) \cap freed) \ held) \subseteq failed \cup Twice
    <3>1. CASE SafePuts(todo, held \cup failed, freed, Twice)
      BY <1>5, <3>1 DEF SafePuts, PutsOnly
    <3>2. CASE Fatal(Handler, todo, held)
      BY <1>3, <3>2, FatalFirst
    <3>. QED BY <1>1, <3>1, <3>2 DEF PutInv
  <2>2. stray \subseteq failed \cup Twice
    BY DEF PutInv, ReleasesMatchAcquisitions, Twice
  <2>3. stray' \subseteq failed' \cup Twice'
    BY <1>1, <1>2, <2>1, <2>2
  <2>. QED BY <2>3 DEF ReleasesMatchAcquisitions, Twice
<1>7. SafePuts(todo, held \cup failed, freed, Twice) =>
        SafePuts(rest, held' \cup failed', freed', Twice)
  <2>1. (held \cup failed) \ Loses(st) \subseteq held' \cup failed'
    BY <1>1
  <2>. QED BY <1>1, <1>3, <2>1, SafeTail
<1>8. CASE oops' # "none"
  BY <1>6, <1>8 DEF PutInv
<1>9. CASE oops' = "none" /\ phase = "load"
  <2>1. SafePuts(rest, held' \cup failed', freed', Twice)
    BY <1>7, <1>9 DEF PutInv
  <2>2. ASSUME GivesNothing(todo)
        PROVE  GivesNothing(rest) /\ Loses(st) = {} /\ held \subseteq held' /\ freed' \subseteq freed
    BY <1>1, <1>3, <2>2, NothingTail
  <2>3. ASSUME NEW i \in DOMAIN rest, Jumps(rest[i])
        PROVE  freed' = {} /\ GivesNothing(rest) /\ Loses(st) = {}
    <3>1. freed = {} /\ GivesNothing(todo)
      BY <1>5, <1>9, <2>3 DEF PutInv
    <3>. QED BY <2>2, <3>1
  <2>4. JumpsPut(driver, rest, held' \cup failed', held')
    <3>1. CASE \E i \in DOMAIN rest : Jumps(rest[i])
      <4>1. held \cup failed \cup Asks(st) \subseteq held' \cup failed'
        BY <1>1, <2>3, <3>1
      <4>2. JumpsPut(driver, todo, held \cup failed, held)
        BY <1>9 DEF PutInv
      <4> HIDE DEF rest
      <4>3. JumpsPut(driver, Tail(todo), held' \cup failed', held')
        BY <1>1, <1>3, <4>1, <4>2, JumpsPutTail
      <4>. QED BY <4>3 DEF rest
    <3>2. CASE ~\E i \in DOMAIN rest : Jumps(rest[i])
      BY <3>2 DEF JumpsPut
    <3>. QED BY <3>1, <3>2
  <2>5. ASSUME Returns(rest) = "in"
        PROVE  \/ GivesNothing(Script.unload)
               \/ Fatal(Handler, Script.unload, TakenIn(rest) \cup held')
               \/ /\ GivesNothing(rest)
                  /\ SafePuts(Script.unload, held' \cup failed' \cup AskedIn(rest), freed', Twice)
    <3>1. TakenIn(todo) = Takes(st) \cup TakenIn(rest) /\ AskedIn(todo) = Asks(st) \cup AskedIn(rest)
      BY <1>3, InTail
    <3>2. CASE Fatal(Handler, Script.unload, TakenIn(todo) \cup held)
      <4>1. TakenIn(rest) \cup held' \subseteq TakenIn(todo) \cup held
        BY <1>1, <3>1
      <4>2. Fatal(Handler, Script.unload, TakenIn(rest) \cup held')
        BY <3>2, <4>1, FatalFewer
      <4>. QED BY <4>2
    <3>3. CASE /\ GivesNothing(todo)
               /\ SafePuts(Script.unload, held \cup failed \cup AskedIn(todo), freed, Twice)
      <4>1. held \cup failed \cup AskedIn(todo) \subseteq held' \cup failed' \cup AskedIn(rest)
        BY <1>1, <2>2, <3>1, <3>3
      <4>2. SafePuts(Script.unload, held' \cup failed' \cup AskedIn(rest), freed, Twice)
        BY <3>3, <4>1, SafeMore
      <4>3. SafePuts(Script.unload, held' \cup failed' \cup AskedIn(rest), freed', Twice)
        BY <2>2, <3>3, <4>2 DEF SafePuts
      <4>. QED BY <2>2, <3>3, <4>3
    <3>. QED BY <1>4, <1>9, <2>5, <3>2, <3>3 DEF PutInv
  <2>. QED BY <1>1, <1>2, <1>6, <1>9, <2>1, <2>3, <2>4, <2>5 DEF PutInv
<1>10. CASE oops' = "none" /\ phase = "unload"
  <2>1. CASE Fatal(Handler, todo, held)
    <3>1. Fatal(Handler, rest, held')
      BY <1>1, <1>3, <1>10, <2>1, FatalTail
    <3>. QED BY <1>1, <1>2, <1>6, <1>10, <3>1 DEF PutInv
  <2>2. CASE SafePuts(todo, held \cup failed, freed, Twice)
    BY <1>1, <1>2, <1>6, <1>7, <1>10, <2>2 DEF PutInv
  <2>. QED BY <1>10, <2>1, <2>2 DEF PutInv
<1>. QED BY <1>1, <1>8, <1>9, <1>10

LEMMA PutJumps == ScriptInv /\ LeaveInv /\ oops = "none" /\ PutInv /\ JumpsAway => PutInv'
<1> SUFFICES ASSUME ScriptInv, LeaveInv, oops = "none", PutInv, JumpsAway PROVE PutInv'
  OBVIOUS
<1> DEFINE u == Script.unwind[todo[1].to]
<1>1. /\ driver' = driver /\ phase' = phase /\ stray' = stray /\ freed' = freed /\ oops' = oops
      /\ held' = held /\ todo' = u /\ phase = "load" /\ Jumps(todo[1])
      /\ failed' = failed \cup Asks(todo[1])
  BY DEF JumpsAway
<1>2. Script' = Script /\ Handler' = Handler /\ Twice' = Twice
  BY <1>1 DEF Script, Handler, Twice
<1>3. WellFormed(u, {}, Work) /\ 1 \in DOMAIN todo
  BY Jumping
<1>4. todo \in Seq(Steps) /\ todo # <<>>
  BY <1>1 DEF ScriptInv, WellFormed
<1>5. \A i \in DOMAIN u : ~Jumps(u[i])
  BY <1>3, Straight
<1>6. freed = {}
  BY <1>1, <1>3 DEF PutInv
<1>7. AskedBefore(todo, 1 + 1) = Asks(todo[1]) /\ TakenBefore(todo, 1) = {}
  <2>1. 1 \in 1..Len(todo)
    BY <1>4, Tails
  <2>2. AskedBefore(todo, 1 + 1) = Asks(todo[1]) \cup AskedBefore(Tail(todo), 1)
    BY <1>4, <2>1, AskedTail
  <2>3. AskedBefore(Tail(todo), 1) = {}
    <3>1. 1..(1 - 1) = {}
      OBVIOUS
    <3>. QED BY <3>1 DEF AskedBefore
  <2>. QED BY <1>4, <2>1, <2>2, <2>3, TakenTail
<1>8. JumpsPut(driver, todo, held \cup failed, held)
  BY <1>1 DEF PutInv
<1>9. /\ GivesOnce(u, Twice)
      /\ PutsOnly(u, held \cup failed \cup AskedBefore(todo, 1 + 1) \cup Twice)
      /\ Returns(u) = "in" =>
           \/ GivesNothing(Script.unload)
           \/ Fatal(Handler, Script.unload, held \cup TakenBefore(todo, 1))
  BY <1>1, <1>3, <1>8 DEF JumpsPut, Script, Handler, Twice
<1>10. Returns(u) = "in" => TakenIn(u) = {}
  BY <1>1, <1>3 DEF LeaveInv, JumpsClear, Script
<1> HIDE DEF u
<1>11. SafePuts(u, held' \cup failed', freed', Twice)
  BY <1>1, <1>6, <1>7, <1>9 DEF SafePuts, PutsOnly
<1>12. JumpsPut(driver, u, held' \cup failed', held')
  BY <1>5 DEF JumpsPut
<1>13. Returns(u) = "in" =>
         \/ GivesNothing(Script.unload)
         \/ Fatal(Handler, Script.unload, TakenIn(u) \cup held')
  <2>1. held \cup TakenBefore(todo, 1) = held /\ (TakenIn(u) = {} => TakenIn(u) \cup held' = held)
    BY <1>1, <1>7
  <2>. QED BY <1>9, <1>10, <2>1
<1>14. ReleasesMatchAcquisitions'
  BY <1>1, <1>2 DEF PutInv, ReleasesMatchAcquisitions, Twice
<1>. QED BY <1>1, <1>2, <1>5, <1>11, <1>12, <1>13, <1>14 DEF PutInv

LEMMA PutLoads == ScriptInv /\ LeaveInv /\ oops = "none" /\ PutInv /\ (Load \/ Unload) => PutInv'
<1> SUFFICES ASSUME ScriptInv, LeaveInv, oops = "none", PutInv, Load \/ Unload PROVE PutInv'
  OBVIOUS
<1>1. driver' = driver /\ held' = held /\ oops' = oops
  BY DEF Load, Unload, Start
<1>2. Script' = Script /\ Handler' = Handler /\ Twice' = Twice
  BY <1>1 DEF Script, Handler, Twice
<1>3. PutsWhatItGot(driver)
  BY Scripts0
<1>4. CASE Load
  <2>1. /\ phase = "out" /\ phase' = "load" /\ todo' = Script.load
        /\ failed' = {} /\ freed' = {} /\ stray' = {}
    BY <1>4 DEF Load, Start
  <2>2. /\ GivesNothing(Script.load) /\ GivesOnce(Script.unload, Twice)
        /\ PutsOnly(Script.unload, AskedIn(Script.load) \cup Twice)
        /\ JumpsPut(driver, Script.load, {}, EverLeft(driver))
    BY <1>3 DEF PutsWhatItGot, Script, Twice, EverLeft
  <2>3. held \subseteq EverLeft(driver)
    BY <2>1 DEF LeaveInv
  <2>4. JumpsPut(driver, Script.load, held, held)
    BY <2>2, <2>3, JumpsPutMore
  <2>5. SafePuts(Script.load, held, {}, Twice)
    BY <2>2, SafeNothing
  <2>6. SafePuts(Script.unload, held \cup AskedIn(Script.load), {}, Twice)
    BY <2>2 DEF SafePuts, PutsOnly
  <2>7. held' \cup failed' = held /\ held' \cup failed' \cup AskedIn(Script.load) = held \cup AskedIn(Script.load)
    BY <1>1, <2>1
  <2>8. ReleasesMatchAcquisitions'
    BY <2>1 DEF ReleasesMatchAcquisitions
  <2>. QED BY <1>1, <1>2, <2>1, <2>2, <2>4, <2>5, <2>6, <2>7, <2>8 DEF PutInv
<1>5. CASE Unload
  <2>1. /\ phase = "in" /\ phase' = "unload" /\ todo' = Script.unload
        /\ failed' = failed /\ freed' = freed /\ stray' = stray
    BY <1>5 DEF Unload, Start
  <2>2. ReleasesMatchAcquisitions'
    BY <1>1, <1>2, <2>1 DEF PutInv, ReleasesMatchAcquisitions, Twice
  <2>. QED BY <1>1, <1>2, <2>1, <2>2 DEF PutInv
<1>. QED BY <1>4, <1>5

LEMMA PutFinishes == ScriptInv /\ LeaveInv /\ oops = "none" /\ PutInv /\ Finish => PutInv'
<1> SUFFICES ASSUME ScriptInv, LeaveInv, oops = "none", PutInv, Finish PROVE PutInv'
  OBVIOUS
<1>1. /\ driver' = driver /\ oops' = oops /\ failed' = failed /\ freed' = freed /\ stray' = stray
      /\ phase' = IF phase = "load" THEN Head(todo).to ELSE "out"
      /\ phase' # "out" => held' = held
  BY DEF Finish
<1>2. Script' = Script /\ Handler' = Handler /\ Twice' = Twice
  BY <1>1 DEF Script, Handler, Twice
<1>3. Running("end")
  BY DEF Finish
<1>4. /\ WellFormed(todo, DOMAIN Script.unwind, Work) /\ todo[1].op = "end" /\ Head(todo) = todo[1]
      /\ phase \in {"load", "unload"} /\ todo \in Seq(Steps) /\ todo # <<>>
  BY <1>3, Current
<1>5. Len(todo) = 1
  BY <1>4, Tails DEF WellFormed
<1>6. Returns(todo) = Head(todo).to /\ Returns(todo) \in {"in", "out"}
  BY <1>4, <1>5 DEF WellFormed, Returns
<1>7. ReleasesMatchAcquisitions'
  BY <1>1, <1>2 DEF PutInv, ReleasesMatchAcquisitions, Twice
<1>8. CASE phase' = "out"
  BY <1>7, <1>8 DEF PutInv
<1>9. CASE phase = "load" /\ Returns(todo) = "in"
  <2>1. phase' = "in" /\ held' = held
    BY <1>1, <1>6, <1>9
  <2>2. AskedIn(todo) = {}
    <3>1. Asks(todo[1]) = {} /\ 1 \in 1..Len(todo) /\ 1 \in DOMAIN todo /\ Len(todo) + 1 - 1 = 1
      BY <1>4, <1>5, Tails DEF Asks
    <3>2. \A j \in 1..(Len(todo) + 1 - 1) : Asks(todo[j]) = {}
      BY <1>4, <1>5, <3>1
    <3>. QED BY <3>2 DEF AskedIn, AskedBefore
  <2>3. Fatal(Handler, Script.unload, TakenIn(todo) \cup held) => Fatal(Handler, Script.unload, held)
    BY FatalFewer
  <2>4. GivesNothing(Script.unload) => SafePuts(Script.unload, held \cup failed, freed, Twice)
    BY SafeNothing
  <2>5. held \cup failed \cup AskedIn(todo) = held \cup failed
    BY <2>2
  <2>6. \/ Fatal(Handler, Script.unload, held)
        \/ SafePuts(Script.unload, held \cup failed, freed, Twice)
    BY <1>9, <2>3, <2>4, <2>5 DEF PutInv
  <2>. QED BY <1>1, <1>2, <1>7, <2>1, <2>6 DEF PutInv
<1>. QED BY <1>1, <1>4, <1>6, <1>8, <1>9

LEMMA PutDisturbed == ScriptInv /\ oops = "none" /\ PutInv /\ Disturbed => PutInv'
<1> SUFFICES ASSUME ScriptInv, oops = "none", PutInv, Disturbed PROVE PutInv'
  OBVIOUS
<1>1. /\ driver' = driver /\ phase' = phase /\ todo' = todo /\ failed' = failed
      /\ freed' = freed /\ stray' = stray
      /\ held \subseteq held' /\ held' \subseteq held \cup Handler.gives
  BY DEF Disturbed
<1>2. Script' = Script /\ Handler' = Handler /\ Twice' = Twice
  BY <1>1 DEF Script, Handler, Twice
<1>3. ReleasesMatchAcquisitions'
  BY <1>1, <1>2 DEF PutInv, ReleasesMatchAcquisitions, Twice
<1>4. \A s : SafePuts(s, held \cup failed, freed, Twice) =>
               SafePuts(s, held' \cup failed', freed, Twice)
  BY <1>1, SafeMore
<1>5. \A s : Fatal(Handler, s, held) => Fatal(Handler, s, held')
  BY <1>1, FatalFewer
<1>6. CASE phase = "load"
  <2>1. JumpsPut(driver, todo, held \cup failed, held) =>
          JumpsPut(driver, todo, held' \cup failed', held')
    <3>1. held \cup failed \subseteq held' \cup failed'
      BY <1>1
    <3>. QED BY <1>1, <3>1, JumpsPutMore DEF Handler, Script
  <2>2. Fatal(Handler, Script.unload, TakenIn(todo) \cup held) =>
          Fatal(Handler, Script.unload, TakenIn(todo) \cup held')
    <3>1. TakenIn(todo) \cup held' \subseteq TakenIn(todo) \cup held \cup Handler.gives
      BY <1>1
    <3>. QED BY <3>1, FatalFewer
  <2>3. SafePuts(Script.unload, held \cup failed \cup AskedIn(todo), freed, Twice) =>
          SafePuts(Script.unload, held' \cup failed' \cup AskedIn(todo), freed, Twice)
    <3>1. held \cup failed \cup AskedIn(todo) \subseteq held' \cup failed' \cup AskedIn(todo)
      BY <1>1
    <3>. QED BY <3>1, SafeMore
  <2>. QED BY <1>1, <1>2, <1>3, <1>4, <1>6, <2>1, <2>2, <2>3 DEF PutInv
<1>7. CASE phase # "load"
  BY <1>1, <1>2, <1>3, <1>4, <1>5, <1>7 DEF PutInv
<1>. QED BY <1>6, <1>7

LEMMA PutNext == ScriptInv /\ LeaveInv /\ PutInv /\ [LifeNext]_driverVars => PutInv'
<1> SUFFICES ASSUME ScriptInv, LeaveInv, PutInv, [LifeNext]_driverVars PROVE PutInv'
  OBVIOUS
<1>1. CASE LifeNext
  BY <1>1, StepCases, PutPasses, PutJumps, PutLoads, PutFinishes, PutDisturbed
<1>2. CASE UNCHANGED driverVars
  <2>1. /\ driver' = driver /\ phase' = phase /\ todo' = todo /\ held' = held /\ oops' = oops
        /\ failed' = failed /\ freed' = freed /\ stray' = stray
    BY <1>2 DEF driverVars
  <2>. QED BY <2>1 DEF PutInv, Handler, Script, Twice, ReleasesMatchAcquisitions
<1>. QED BY <1>1, <1>2

(* In no life does a driver give back what it does not have, but for what  *)
(* a call it did not test failed to get and the four double releases that  *)
(* GivenBackTwice names.                                                   *)
THEOREM OnlyWhatIsThere == LifeSpec /\ KeepsDiscipline => []ReleasesMatchAcquisitions
<1>1. PutInv => ReleasesMatchAcquisitions
  BY DEF PutInv
<1>. QED BY <1>1, ScriptInvariant, LeaveInvariant, PutInit, PutNext, PTL DEF LifeSpec

-----------------------------------------------------------------------------
(***************************************************************************)
(* Nothing is used that is not there.                                      *)
(***************************************************************************)
LEMMA CoversMore ==
  ASSUME NEW d, NEW s, NEW M, NEW L, NEW W, Covers(d, s, M, L, W),
         NEW N, M \subseteq N, NEW K \in SUBSET L, NEW V \in SUBSET W
  PROVE  Covers(d, s, N, K, V)
<1> DEFINE h == Scripts[d].handler
<1>1. ASSUME NEW i \in DOMAIN s
      PROVE  /\ Uses(s[i]) \subseteq M \cup SureBefore(d, s, i)
             /\ \A j \in 1..(i - 1) : Loses(s[j]) \cap Uses(s[i]) = {}
             /\ Takes(s[i]) \cap h.lines # {} => h.needs \subseteq M \cup SureBefore(d, s, i)
             /\ Works(s[i]) # {} => h.workNeeds \subseteq M \cup SureBefore(d, s, i)
             /\ Loses(s[i]) \cap h.needs # {} => L \cap h.lines \subseteq GivenBefore(s, i)
             /\ Loses(s[i]) \cap h.workNeeds # {} =>
                  W \subseteq GivenBefore(s, i) /\ (L \cap h.lines = {} \/ h.arms = {})
  BY DEF Covers
<1>2. ASSUME NEW i \in DOMAIN s
      PROVE  /\ Uses(s[i]) \subseteq N \cup SureBefore(d, s, i)
             /\ \A j \in 1..(i - 1) : Loses(s[j]) \cap Uses(s[i]) = {}
             /\ Takes(s[i]) \cap h.lines # {} => h.needs \subseteq N \cup SureBefore(d, s, i)
             /\ Works(s[i]) # {} => h.workNeeds \subseteq N \cup SureBefore(d, s, i)
             /\ Loses(s[i]) \cap h.needs # {} => K \cap h.lines \subseteq GivenBefore(s, i)
             /\ Loses(s[i]) \cap h.workNeeds # {} =>
                  V \subseteq GivenBefore(s, i) /\ (K \cap h.lines = {} \/ h.arms = {})
  <2> HIDE DEF h
  <2>. QED BY <1>1
<1>. QED BY <1>2 DEF Covers

LEMMA CoversGrown ==
  ASSUME NEW d, NEW s, NEW M, NEW L, NEW W, Covers(d, s, M, L, W),
         L \cap Scripts[d].handler.lines # {},
         Scripts[d].handler.gives \cap Scripts[d].handler.lines = {}
  PROVE  Covers(d, s, M, L \cup Scripts[d].handler.gives, W \cup Scripts[d].handler.arms)
<1> DEFINE h == Scripts[d].handler
<1>1. ASSUME NEW i \in DOMAIN s
      PROVE  /\ Loses(s[i]) \cap h.needs # {} =>
                  (L \cup h.gives) \cap h.lines \subseteq GivenBefore(s, i)
             /\ Loses(s[i]) \cap h.workNeeds # {} =>
                  /\ W \cup h.arms \subseteq GivenBefore(s, i)
                  /\ (L \cup h.gives) \cap h.lines = {} \/ h.arms = {}
  BY DEF Covers
<1>. QED BY <1>1 DEF Covers

LEMMA CoversTail ==
  ASSUME NEW d, NEW s \in Seq(Steps), s # <<>>, NEW M, NEW L, NEW W, Covers(d, s, M, L, W),
         NEW N, (M \ Loses(s[1])) \cup Sure(d, s[1]) \subseteq N,
         NEW K, K \subseteq (L \ Gives(s[1])) \cup Takes(s[1]),
         NEW V, V \subseteq (W \ Gives(s[1])) \cup Works(s[1])
  PROVE  Covers(d, Tail(s), N, K, V)
<1> DEFINE h == Scripts[d].handler
           t == Tail(s)
<1>1. 1 \in DOMAIN s /\ \A i \in DOMAIN t : i + 1 \in DOMAIN s /\ t[i] = s[i + 1] /\ i \in 1..Len(s)
  BY Tails
<1>2. \/ GivesNothing(s)
      \/ \A i \in DOMAIN s : Takes(s[i]) \cap h.lines = {} /\ Works(s[i]) = {}
  BY DEF Covers
<1>3. \/ GivesNothing(t)
      \/ \A i \in DOMAIN t : Takes(t[i]) \cap h.lines = {} /\ Works(t[i]) = {}
  BY <1>1, <1>2 DEF GivesNothing
<1>4. ASSUME NEW i \in DOMAIN t
      PROVE  /\ Uses(t[i]) \subseteq N \cup SureBefore(d, t, i)
             /\ \A j \in 1..(i - 1) : Loses(t[j]) \cap Uses(t[i]) = {}
             /\ Takes(t[i]) \cap h.lines # {} => h.needs \subseteq N \cup SureBefore(d, t, i)
             /\ Works(t[i]) # {} => h.workNeeds \subseteq N \cup SureBefore(d, t, i)
             /\ Loses(t[i]) \cap h.needs # {} => K \cap h.lines \subseteq GivenBefore(t, i)
             /\ Loses(t[i]) \cap h.workNeeds # {} =>
                  V \subseteq GivenBefore(t, i) /\ (K \cap h.lines = {} \/ h.arms = {})
  <2>0. i \in 1..Len(s) /\ i + 1 \in DOMAIN s
    BY <1>1
  <2>1. ASSUME NEW k \in DOMAIN s, k = i + 1
        PROVE  /\ Uses(s[k]) \subseteq M \cup SureBefore(d, s, k)
               /\ \A j \in 1..(k - 1) : Loses(s[j]) \cap Uses(s[k]) = {}
               /\ Takes(s[k]) \cap h.lines # {} => h.needs \subseteq M \cup SureBefore(d, s, k)
               /\ Works(s[k]) # {} => h.workNeeds \subseteq M \cup SureBefore(d, s, k)
               /\ Loses(s[k]) \cap h.needs # {} => L \cap h.lines \subseteq GivenBefore(s, k)
               /\ Loses(s[k]) \cap h.workNeeds # {} =>
                    W \subseteq GivenBefore(s, k) /\ (L \cap h.lines = {} \/ h.arms = {})
    BY DEF Covers
  <2>2. /\ SureBefore(d, s, i + 1) = Sure(d, s[1]) \cup SureBefore(d, Tail(s), i)
        /\ GivenBefore(s, i + 1) = Gives(s[1]) \cup GivenBefore(Tail(s), i)
    <3> HIDE DEF h, t
    <3>1. SureBefore(d, s, i + 1) = Sure(d, s[1]) \cup SureBefore(d, Tail(s), i)
      BY <2>0, SureTail
    <3>2. GivenBefore(s, i + 1) = Gives(s[1]) \cup GivenBefore(Tail(s), i)
      BY <2>0, GivenTail
    <3>. QED BY <3>1, <3>2
  <2>3. GivesNothing(s) => Loses(s[1]) = {} /\ Loses(s[i + 1]) = {}
    BY <1>1 DEF GivesNothing
  <2>4. ~GivesNothing(s) =>
          /\ Takes(s[1]) \cap h.lines = {} /\ Works(s[1]) = {}
          /\ Takes(s[i + 1]) \cap h.lines = {} /\ Works(s[i + 1]) = {}
    BY <1>1, <1>2
  <2>5. \A j \in 1..(i - 1) : j + 1 \in 1..(i + 1 - 1) /\ t[j] = s[j + 1]
    BY <1>1, Tails
  <2>6. t[i] = s[i + 1] /\ 1 \in 1..(i + 1 - 1)
    BY <1>1
  <2>12. t = Tail(s)
    OBVIOUS
  <2> HIDE DEF h, t
  <2>7. Uses(t[i]) \subseteq N \cup SureBefore(d, t, i)
    BY <2>0, <2>1, <2>2, <2>12, <2>6
  <2>8. \A j \in 1..(i - 1) : Loses(t[j]) \cap Uses(t[i]) = {}
    BY <2>0, <2>1, <2>5, <2>6
  <2>9. /\ Takes(t[i]) \cap h.lines # {} => h.needs \subseteq N \cup SureBefore(d, t, i)
        /\ Works(t[i]) # {} => h.workNeeds \subseteq N \cup SureBefore(d, t, i)
    BY <2>0, <2>1, <2>2, <2>12, <2>3, <2>4, <2>6
  <2>10. Loses(t[i]) \cap h.needs # {} => K \cap h.lines \subseteq GivenBefore(t, i)
    BY <2>0, <2>1, <2>2, <2>12, <2>3, <2>4, <2>6
  <2>11. Loses(t[i]) \cap h.workNeeds # {} =>
           V \subseteq GivenBefore(t, i) /\ (K \cap h.lines = {} \/ h.arms = {})
    BY <2>0, <2>1, <2>2, <2>12, <2>3, <2>4, <2>6
  <2>. QED BY <2>7, <2>8, <2>9, <2>10, <2>11
<1>. QED BY <1>3, <1>4 DEF Covers

LEMMA CoversFirst ==
  ASSUME NEW d, NEW s \in Seq(Steps), s # <<>>, NEW M, NEW L, NEW W, Covers(d, s, M, L, W)
  PROVE  LET h == Scripts[d].handler IN
         /\ Uses(s[1]) \subseteq M
         /\ Takes(s[1]) \cap h.lines # {} => h.needs \subseteq M /\ GivesNothing(s)
         /\ Works(s[1]) # {} => h.workNeeds \subseteq M /\ GivesNothing(s)
         /\ Loses(s[1]) \cap h.needs # {} => L \cap h.lines = {}
         /\ Loses(s[1]) \cap h.workNeeds # {} => W = {}
<1> DEFINE h == Scripts[d].handler
<1>1. 1 \in DOMAIN s /\ SureBefore(d, s, 1) = {} /\ GivenBefore(s, 1) = {}
  BY Tails, SureTail, GivenTail
<1>2. /\ Uses(s[1]) \subseteq M \cup SureBefore(d, s, 1)
      /\ Takes(s[1]) \cap h.lines # {} => h.needs \subseteq M \cup SureBefore(d, s, 1)
      /\ Works(s[1]) # {} => h.workNeeds \subseteq M \cup SureBefore(d, s, 1)
      /\ Loses(s[1]) \cap h.needs # {} => L \cap h.lines \subseteq GivenBefore(s, 1)
      /\ Loses(s[1]) \cap h.workNeeds # {} => W \subseteq GivenBefore(s, 1)
  BY <1>1 DEF Covers
<1>3. GivesNothing(s) \/ (Takes(s[1]) \cap h.lines = {} /\ Works(s[1]) = {})
  BY <1>1 DEF Covers
<1>. QED BY <1>1, <1>2, <1>3

LEMMA CoversIdle ==
  ASSUME NEW d, NEW s, Idle(Scripts[d].handler, s), NEW M, NEW L, NEW W
  PROVE  Covers(d, s, M, L, W)
BY DEF Idle, Covers, GivesNothing

LEMMA JumpsCoverTail ==
  ASSUME NEW d, NEW s \in Seq(Steps), s # <<>>, NEW L, NEW W, JumpsCover(d, s, L, W),
         NEW K, K \subseteq L \cup Takes(s[1]), NEW V, V \subseteq W \cup Works(s[1])
  PROVE  JumpsCover(d, Tail(s), K, V)
<1> DEFINE D == Scripts[d]
           t == Tail(s)
<1>1. ASSUME NEW i \in DOMAIN t, Jumps(t[i]), Counts(d, t[i])
      PROVE  LET u == D.unwind[t[i].to] IN
             /\ Covers(d, u, {}, K \cup TakenBefore(t, i), V \cup ArmedBefore(t, i))
             /\ Returns(u) = "in" => Idle(D.handler, D.unload)
  <2> DEFINE u == D.unwind[t[i].to]
  <2>1. i \in 1..Len(s) /\ i + 1 \in DOMAIN s /\ t[i] = s[i + 1]
    BY Tails
  <2>2. ASSUME NEW k \in DOMAIN s, k = i + 1
        PROVE  /\ Covers(d, u, {}, L \cup TakenBefore(s, k), W \cup ArmedBefore(s, k))
               /\ Returns(u) = "in" => Idle(D.handler, D.unload)
    BY <1>1, <2>1, <2>2 DEF JumpsCover
  <2>3. /\ TakenBefore(s, i + 1) = Takes(s[1]) \cup TakenBefore(Tail(s), i)
        /\ ArmedBefore(s, i + 1) = Works(s[1]) \cup ArmedBefore(Tail(s), i)
    <3> HIDE DEF D, t, u
    <3>1. TakenBefore(s, i + 1) = Takes(s[1]) \cup TakenBefore(Tail(s), i)
      BY <2>1, TakenTail
    <3>2. ArmedBefore(s, i + 1) = Works(s[1]) \cup ArmedBefore(Tail(s), i)
      BY <2>1, ArmedTail
    <3>. QED BY <3>1, <3>2
  <2>4. t = Tail(s)
    OBVIOUS
  <2> HIDE DEF D, t, u
  <2>5. /\ K \cup TakenBefore(t, i) \subseteq L \cup TakenBefore(s, i + 1)
        /\ V \cup ArmedBefore(t, i) \subseteq W \cup ArmedBefore(s, i + 1)
    BY <2>3, <2>4
  <2>6. /\ Covers(d, u, {}, L \cup TakenBefore(s, i + 1), W \cup ArmedBefore(s, i + 1))
        /\ Returns(u) = "in" => Idle(D.handler, D.unload)
    BY <2>1, <2>2
  <2>7. Covers(d, u, {}, K \cup TakenBefore(t, i), V \cup ArmedBefore(t, i))
    BY <2>5, <2>6, CoversMore
  <2>. QED BY <2>6, <2>7 DEF u
<1>. QED BY <1>1 DEF JumpsCover

LEMMA JumpsCoverFewer ==
  ASSUME NEW d, NEW s, NEW L, NEW W, JumpsCover(d, s, L, W),
         NEW K \in SUBSET L, NEW V \in SUBSET W
  PROVE  JumpsCover(d, s, K, V)
<1> DEFINE D == Scripts[d]
<1>1. ASSUME NEW i \in DOMAIN s, Jumps(s[i]), Counts(d, s[i])
      PROVE  LET u == D.unwind[s[i].to] IN
             /\ Covers(d, u, {}, K \cup TakenBefore(s, i), V \cup ArmedBefore(s, i))
             /\ Returns(u) = "in" => Idle(D.handler, D.unload)
  <2> DEFINE u == D.unwind[s[i].to]
  <2>1. /\ Covers(d, u, {}, L \cup TakenBefore(s, i), W \cup ArmedBefore(s, i))
        /\ Returns(u) = "in" => Idle(D.handler, D.unload)
    BY <1>1 DEF JumpsCover
  <2>2. /\ K \cup TakenBefore(s, i) \subseteq L \cup TakenBefore(s, i)
        /\ V \cup ArmedBefore(s, i) \subseteq W \cup ArmedBefore(s, i)
    OBVIOUS
  <2> HIDE DEF D, u
  <2>3. Covers(d, u, {}, K \cup TakenBefore(s, i), V \cup ArmedBefore(s, i))
    BY <2>1, <2>2, CoversMore
  <2>. QED BY <2>1, <2>3 DEF u
<1>. QED BY <1>1 DEF JumpsCover

LEMMA JumpsCoverGrown ==
  ASSUME NEW d, NEW s, NEW L, NEW W, JumpsCover(d, s, L, W),
         L \cap Scripts[d].handler.lines # {},
         Scripts[d].handler.gives \cap Scripts[d].handler.lines = {}
  PROVE  JumpsCover(d, s, L \cup Scripts[d].handler.gives, W \cup Scripts[d].handler.arms)
<1> DEFINE D == Scripts[d]
           h == D.handler
<1>1. ASSUME NEW i \in DOMAIN s, Jumps(s[i]), Counts(d, s[i])
      PROVE  LET u == D.unwind[s[i].to] IN
             /\ Covers(d, u, {}, L \cup h.gives \cup TakenBefore(s, i), W \cup h.arms \cup ArmedBefore(s, i))
             /\ Returns(u) = "in" => Idle(D.handler, D.unload)
  <2> DEFINE u == D.unwind[s[i].to]
             K == L \cup TakenBefore(s, i)
             V == W \cup ArmedBefore(s, i)
  <2>1. /\ Covers(d, u, {}, K, V)
        /\ Returns(u) = "in" => Idle(D.handler, D.unload)
    BY <1>1 DEF JumpsCover
  <2>2. K \cap Scripts[d].handler.lines # {}
    OBVIOUS
  <2>3. /\ L \cup h.gives \cup TakenBefore(s, i) = K \cup Scripts[d].handler.gives
        /\ W \cup h.arms \cup ArmedBefore(s, i) = V \cup Scripts[d].handler.arms
    OBVIOUS
  <2> HIDE DEF D, u, h, Counts, K, V
  <2>4. Covers(d, u, {}, K \cup Scripts[d].handler.gives, V \cup Scripts[d].handler.arms)
    BY <2>1, <2>2, CoversGrown
  <2>. QED BY <2>1, <2>3, <2>4 DEF u
<1>. QED BY <1>1 DEF JumpsCover

(* No call has failed that the driver would not have noticed.              *)
Trust == driver \notin Early /\ (driver \in CheckedDrivers \/ failed = {}) /\ oops = "none"

Lines == held \ before
Busy  == pending \ before

(* While Trust lasts, all that the rest of the script, the interrupts, the *)
(* timers and the threads use is there.                                    *)
NullInv ==
  /\ NullOnlyWhereUnchecked
  /\ Trust =>
     /\ phase # "out" /\ Lines \cap Handler.lines # {} => Handler.needs \subseteq held
     /\ phase # "out" /\ Busy # {} => Handler.workNeeds \subseteq held
     /\ phase \in {"load", "unload"} => Covers(driver, todo, held, Lines, Busy)
     /\ phase = "in" => Covers(driver, Script.unload, held, Lines, Busy)
     /\ phase = "load" =>
          /\ JumpsCover(driver, todo, Lines, Busy)
          /\ Returns(todo) = "in" =>
               \/ Idle(Handler, Script.unload)
               \/ /\ GivesNothing(todo)
                  /\ Covers(driver, Script.unload, held \cup SureIn(driver, todo),
                            Lines \cup TakenIn(todo), Busy \cup ArmedIn(todo))

LEMMA NeverEarly == Early \cap CheckedDrivers = {}
BY DEF Early, CheckedDrivers

LEMMA NullInit == LifeInit => NullInv
BY DEF LifeInit, NullInv, NullOnlyWhereUnchecked, Lines, Busy

LEMMA SureInTail ==
  ASSUME NEW d, NEW s \in Seq(Steps), s # <<>>
  PROVE  SureIn(d, s) = Sure(d, s[1]) \cup SureIn(d, Tail(s))
<1>1. Len(s) \in 1..Len(s) /\ Len(Tail(s)) + 1 = Len(s)
  BY Tails
<1>2. \A i \in 1..Len(s) :
        SureBefore(d, s, i + 1) = Sure(d, s[1]) \cup SureBefore(d, Tail(s), i)
  BY SureTail
<1>. QED BY <1>1, <1>2 DEF SureIn

LEMMA NullPasses == ScriptInv /\ oops = "none" /\ NullInv /\ Passes => NullInv'
<1> SUFFICES ASSUME ScriptInv, oops = "none", NullInv, Passes PROVE NullInv'
  OBVIOUS
<1> DEFINE st == todo[1]
           rest == Tail(todo)
<1>1. /\ driver' = driver /\ phase' = phase /\ todo' = rest /\ before' = before
      /\ phase \in {"load", "unload"} /\ st.op # "end"
      /\ held \ Loses(st) \subseteq held' /\ failed \subseteq failed'
      /\ Sure(driver, st) \subseteq held' \/ (driver \notin CheckedDrivers /\ failed' # {})
      /\ oops' = IF Uses(st) \subseteq held THEN oops ELSE "null"
  BY DEF Passes
<1>2. Lines' \subseteq (Lines \ Gives(st)) \cup Takes(st) /\ Busy' \subseteq (Busy \ Gives(st)) \cup Works(st)
  BY DEF Passes, Lines, Busy
<1>3. Script' = Script /\ Handler' = Handler
  BY <1>1 DEF Script, Handler
<1>4. WellFormed(todo, DOMAIN Script.unwind, Work) /\ todo \in Seq(Steps) /\ todo # <<>>
  BY <1>1 DEF ScriptInv, WellFormed
<1>5. Returns(rest) = Returns(todo)
  BY <1>1, <1>4, WellFormedTail
<1>6. Trust => Covers(driver, todo, held, Lines, Busy)
  BY <1>1 DEF NullInv
<1>7. Trust =>
        /\ Uses(st) \subseteq held
        /\ Takes(st) \cap Handler.lines # {} => Handler.needs \subseteq held /\ GivesNothing(todo)
        /\ Works(st) # {} => Handler.workNeeds \subseteq held /\ GivesNothing(todo)
        /\ Loses(st) \cap Handler.needs # {} => Lines \cap Handler.lines = {}
        /\ Loses(st) \cap Handler.workNeeds # {} => Busy = {}
  <2> SUFFICES ASSUME Trust
               PROVE  /\ Uses(st) \subseteq held
                      /\ Takes(st) \cap Handler.lines # {} => Handler.needs \subseteq held /\ GivesNothing(todo)
                      /\ Works(st) # {} => Handler.workNeeds \subseteq held /\ GivesNothing(todo)
                      /\ Loses(st) \cap Handler.needs # {} => Lines \cap Handler.lines = {}
                      /\ Loses(st) \cap Handler.workNeeds # {} => Busy = {}
    OBVIOUS
  <2>. QED BY <1>4, <1>6, CoversFirst DEF Handler, Script
<1>8. NullOnlyWhereUnchecked'
  <2>1. CASE Trust
    BY <1>1, <1>7, <2>1 DEF NullOnlyWhereUnchecked, Trust
  <2>2. CASE ~Trust
    BY <1>1, <2>2, NeverEarly DEF NullOnlyWhereUnchecked, Trust, Early
  <2>. QED BY <2>1, <2>2
<1>9. CASE ~Trust'
  BY <1>8, <1>9 DEF NullInv
<1>10. CASE Trust'
  <2>1. Trust /\ Sure(driver, st) \subseteq held'
    BY <1>1, <1>10 DEF Trust
  <2>2. Covers(driver, rest, held', Lines', Busy')
    <3>1. (held \ Loses(st)) \cup Sure(driver, st) \subseteq held'
      BY <1>1, <2>1
    <3>. QED BY <1>2, <1>4, <1>6, <2>1, <3>1, CoversTail
  <2>3. GivesNothing(todo) => GivesNothing(rest) /\ held \subseteq held'
    <3>1. GivesNothing(todo) => GivesNothing(rest) /\ Loses(st) = {}
      BY <1>4, NothingTail
    <3>. QED BY <1>1, <3>1
  <2>4. Lines' \cap Handler.lines # {} => Handler.needs \subseteq held'
    <3>1. CASE Takes(st) \cap Handler.lines # {}
      BY <1>7, <2>1, <2>3, <3>1
    <3>2. CASE Lines \cap Handler.lines # {}
      <4>1. Handler.needs \subseteq held
        BY <1>1, <2>1, <3>2 DEF NullInv
      <4>. QED BY <1>1, <1>7, <2>1, <3>2, <4>1
    <3>. QED BY <1>2, <3>1, <3>2
  <2>5. Busy' # {} => Handler.workNeeds \subseteq held'
    <3>1. CASE Works(st) # {}
      BY <1>7, <2>1, <2>3, <3>1
    <3>2. CASE Busy # {}
      <4>1. Handler.workNeeds \subseteq held
        BY <1>1, <2>1, <3>2 DEF NullInv
      <4>. QED BY <1>1, <1>7, <2>1, <3>2, <4>1
    <3>. QED BY <1>2, <3>1, <3>2
  <2>6. CASE phase = "unload"
    BY <1>1, <1>3, <1>8, <2>2, <2>4, <2>5, <2>6 DEF NullInv
  <2>7. CASE phase = "load"
    <3>1. JumpsCover(driver, rest, Lines', Busy')
      <4>1. JumpsCover(driver, todo, Lines, Busy)
        BY <2>1, <2>7 DEF NullInv
      <4>2. Lines' \subseteq Lines \cup Takes(st) /\ Busy' \subseteq Busy \cup Works(st)
        BY <1>2
      <4>. QED BY <1>4, <4>1, <4>2, JumpsCoverTail
    <3>2. ASSUME Returns(rest) = "in"
          PROVE  \/ Idle(Handler, Script.unload)
                 \/ /\ GivesNothing(rest)
                    /\ Covers(driver, Script.unload, held' \cup SureIn(driver, rest),
                              Lines' \cup TakenIn(rest), Busy' \cup ArmedIn(rest))
      <4>1. CASE Idle(Handler, Script.unload)
        BY <4>1
      <4>2. CASE /\ GivesNothing(todo)
                 /\ Covers(driver, Script.unload, held \cup SureIn(driver, todo),
                           Lines \cup TakenIn(todo), Busy \cup ArmedIn(todo))
        <5>1. /\ TakenIn(todo) = Takes(st) \cup TakenIn(rest)
              /\ ArmedIn(todo) = Works(st) \cup ArmedIn(rest)
          BY <1>4, InTail
        <5>2. SureIn(driver, todo) = Sure(driver, st) \cup SureIn(driver, rest)
          BY <1>4, SureInTail
        <5>3. /\ held \cup SureIn(driver, todo) \subseteq held' \cup SureIn(driver, rest)
              /\ Lines' \cup TakenIn(rest) \subseteq Lines \cup TakenIn(todo)
              /\ Busy' \cup ArmedIn(rest) \subseteq Busy \cup ArmedIn(todo)
          BY <1>2, <2>1, <2>3, <4>2, <5>1, <5>2
        <5>4. Covers(driver, Script.unload, held' \cup SureIn(driver, rest),
                     Lines' \cup TakenIn(rest), Busy' \cup ArmedIn(rest))
          BY <4>2, <5>3, CoversMore
        <5>. QED BY <2>3, <4>2, <5>4
      <4>. QED BY <1>5, <2>1, <2>7, <3>2, <4>1, <4>2 DEF NullInv
    <3>. QED BY <1>1, <1>3, <1>8, <2>2, <2>4, <2>5, <2>7, <3>1, <3>2 DEF NullInv
  <2>. QED BY <1>1, <2>6, <2>7
<1>. QED BY <1>9, <1>10

LEMMA NullJumps == ScriptInv /\ oops = "none" /\ NullInv /\ JumpsAway => NullInv'
<1> SUFFICES ASSUME ScriptInv, oops = "none", NullInv, JumpsAway PROVE NullInv'
  OBVIOUS
<1> DEFINE st == todo[1]
           u == Script.unwind[st.to]
<1>1. /\ driver' = driver /\ phase' = phase /\ oops' = oops /\ before' = before
      /\ held' = held /\ pending' = pending /\ todo' = u /\ phase = "load" /\ Jumps(st)
      /\ failed \subseteq failed' /\ Missing(st) \subseteq failed
      /\ st.op = "get" => failed' # {}
  BY DEF JumpsAway
<1>2. Script' = Script /\ Handler' = Handler /\ Lines' = Lines /\ Busy' = Busy
  BY <1>1 DEF Script, Handler, Lines, Busy
<1>3. WellFormed(u, {}, Work) /\ 1 \in DOMAIN todo
  BY Jumping
<1>4. todo \in Seq(Steps) /\ todo # <<>>
  BY <1>1 DEF ScriptInv, WellFormed
<1>5. \A i \in DOMAIN u : ~Jumps(u[i])
  BY <1>3, Straight
<1>6. TakenBefore(todo, 1) = {} /\ ArmedBefore(todo, 1) = {}
  <2>1. 1 \in 1..Len(todo)
    BY <1>4, Tails
  <2>. QED BY <1>4, <2>1, TakenTail, ArmedTail
<1>7. NullOnlyWhereUnchecked'
  BY <1>1 DEF NullOnlyWhereUnchecked
<1>8. CASE ~Trust'
  BY <1>7, <1>8 DEF NullInv
<1>9. CASE Trust'
  <2>1. Trust
    BY <1>1, <1>9 DEF Trust
  <2>2. Counts(driver, st)
    <3>1. CASE driver \in CheckedDrivers
      BY <3>1 DEF Counts
    <3>2. CASE failed' = {}
      BY <1>1, <3>2 DEF Jumps, Missing, Counts
    <3>. QED BY <1>1, <1>9, <3>1, <3>2 DEF Trust
  <2>3. JumpsCover(driver, todo, Lines, Busy)
    BY <1>1, <2>1 DEF NullInv
  <2>4. /\ Covers(driver, u, {}, Lines \cup TakenBefore(todo, 1), Busy \cup ArmedBefore(todo, 1))
        /\ Returns(u) = "in" => Idle(Handler, Script.unload)
    BY <1>1, <1>3, <2>2, <2>3 DEF JumpsCover, Script, Handler
  <2>5. JumpsCover(driver, u, Lines, Busy)
    BY <1>5 DEF JumpsCover
  <2> HIDE DEF u
  <2>6. Covers(driver, u, held, Lines, Busy)
    <3>1. Lines \cup TakenBefore(todo, 1) = Lines /\ Busy \cup ArmedBefore(todo, 1) = Busy
      BY <1>6
    <3>2. Covers(driver, u, {}, Lines, Busy)
      BY <2>4, <3>1
    <3>3. {} \subseteq held
      OBVIOUS
    <3>. QED BY <3>2, <3>3, CoversMore
  <2>. QED BY <1>1, <1>2, <1>7, <2>1, <2>4, <2>5, <2>6 DEF NullInv
<1>. QED BY <1>8, <1>9

LEMMA NullLoads == ScriptInv /\ oops = "none" /\ NullInv /\ (Load \/ Unload) => NullInv'
<1> SUFFICES ASSUME ScriptInv, oops = "none", NullInv, Load \/ Unload PROVE NullInv'
  OBVIOUS
<1>1. driver' = driver /\ held' = held /\ pending' = pending /\ oops' = oops
  BY DEF Load, Unload, Start
<1>2. Script' = Script /\ Handler' = Handler
  BY <1>1 DEF Script, Handler
<1>3. NullOnlyWhereUnchecked'
  BY <1>1 DEF NullOnlyWhereUnchecked
<1>4. CASE Load
  <2>1. phase' = "load" /\ todo' = Script.load /\ before' = held \cup pending
    BY <1>4 DEF Load, Start
  <2>2. Lines' = {} /\ Busy' = {}
    BY <1>1, <2>1 DEF Lines, Busy
  <2>3. CASE ~Trust'
    BY <1>3, <2>3 DEF NullInv
  <2>4. CASE Trust'
    <3>1. UsesWhatItGot(driver) /\ driver \notin Early
      BY <1>1, <2>4, Scripts0 DEF Trust
    <3>2. /\ Covers(driver, Script.load, {}, {}, {})
          /\ JumpsCover(driver, Script.load, {}, {})
          /\ Covers(driver, Script.unload, SureIn(driver, Script.load), TakenIn(Script.load),
                    ArmedIn(Script.load))
      BY <3>1 DEF UsesWhatItGot, Script
    <3>3. Covers(driver, Script.load, held, {}, {})
      <4>1. {} \subseteq held
        OBVIOUS
      <4>. QED BY <3>2, <4>1, CoversMore
    <3>4. GivesNothing(Script.load)
      BY Scripts0 DEF PutsWhatItGot, Script
    <3>5. Covers(driver, Script.unload, held \cup SureIn(driver, Script.load),
                 TakenIn(Script.load), ArmedIn(Script.load))
      <4>1. SureIn(driver, Script.load) \subseteq held \cup SureIn(driver, Script.load)
        OBVIOUS
      <4>. QED BY <3>2, <4>1, CoversMore
    <3>6. Lines' \cup TakenIn(Script.load) = TakenIn(Script.load) /\ Busy' \cup ArmedIn(Script.load) = ArmedIn(Script.load)
      BY <2>2
    <3>. QED BY <1>1, <1>2, <1>3, <2>1, <2>2, <3>2, <3>3, <3>4, <3>5, <3>6 DEF NullInv
  <2>. QED BY <2>3, <2>4
<1>5. CASE Unload
  <2>1. phase = "in" /\ phase' = "unload" /\ todo' = Script.unload /\ before' = before /\ failed' = failed
    BY <1>5 DEF Unload, Start
  <2>2. Lines' = Lines /\ Busy' = Busy /\ Trust' = Trust
    BY <1>1, <2>1 DEF Lines, Busy, Trust, CheckedDrivers, Early
  <2>. QED BY <1>1, <1>2, <1>3, <2>1, <2>2 DEF NullInv
<1>. QED BY <1>4, <1>5

LEMMA NullFinishes == ScriptInv /\ oops = "none" /\ NullInv /\ Finish => NullInv'
<1> SUFFICES ASSUME ScriptInv, oops = "none", NullInv, Finish PROVE NullInv'
  OBVIOUS
<1>1. /\ driver' = driver /\ oops' = oops /\ failed' = failed /\ before' = before /\ pending' = pending
      /\ phase' = IF phase = "load" THEN Head(todo).to ELSE "out"
      /\ phase' # "out" => held' = held
  BY DEF Finish
<1>2. Script' = Script /\ Handler' = Handler /\ (Trust' => Trust)
  BY <1>1 DEF Script, Handler, Trust
<1>3. Running("end")
  BY DEF Finish
<1>4. /\ WellFormed(todo, DOMAIN Script.unwind, Work) /\ todo[1].op = "end" /\ Head(todo) = todo[1]
      /\ phase \in {"load", "unload"} /\ todo \in Seq(Steps) /\ todo # <<>>
  BY <1>3, Current
<1>5. Len(todo) = 1
  BY <1>4, Tails DEF WellFormed
<1>6. Returns(todo) = Head(todo).to /\ Returns(todo) \in {"in", "out"}
  BY <1>4, <1>5 DEF WellFormed, Returns
<1>7. NullOnlyWhereUnchecked'
  BY <1>1 DEF NullOnlyWhereUnchecked
<1>8. CASE ~Trust' \/ phase' = "out"
  BY <1>7, <1>8 DEF NullInv
<1>9. CASE Trust' /\ phase = "load" /\ Returns(todo) = "in"
  <2>1. phase' = "in" /\ held' = held /\ Trust
    BY <1>1, <1>2, <1>6, <1>9
  <2>2. Lines' = Lines /\ Busy' = Busy
    BY <1>1, <2>1 DEF Lines, Busy
  <2>3. SureIn(driver, todo) = {} /\ TakenIn(todo) = {} /\ ArmedIn(todo) = {}
    <3>1. /\ Sure(driver, todo[1]) = {} /\ Takes(todo[1]) = {} /\ Works(todo[1]) = {}
          /\ Len(todo) + 1 - 1 = 1
      BY <1>4, <1>5 DEF Sure, Takes, Asks, Works
    <3>2. \A j \in 1..(Len(todo) + 1 - 1) :
            Sure(driver, todo[j]) = {} /\ Takes(todo[j]) = {} /\ Works(todo[j]) = {}
      BY <1>4, <1>5, <3>1
    <3>3. SureIn(driver, todo) = {}
      BY <3>2 DEF SureIn, SureBefore
    <3>4. TakenIn(todo) = {}
      BY <3>2 DEF TakenIn, TakenBefore
    <3>5. ArmedIn(todo) = {}
      BY <3>2 DEF ArmedIn, ArmedBefore
    <3>. QED BY <3>3, <3>4, <3>5
  <2>4. Idle(Handler, Script.unload) => Covers(driver, Script.unload, held, Lines, Busy)
    BY CoversIdle DEF Handler, Script
  <2>5. /\ held \cup SureIn(driver, todo) = held /\ Lines \cup TakenIn(todo) = Lines
        /\ Busy \cup ArmedIn(todo) = Busy
    BY <2>3
  <2>6. Covers(driver, Script.unload, held, Lines, Busy)
    BY <1>9, <2>1, <2>4, <2>5 DEF NullInv
  <2>7. /\ Lines \cap Handler.lines # {} => Handler.needs \subseteq held
        /\ Busy # {} => Handler.workNeeds \subseteq held
    BY <1>9, <2>1 DEF NullInv
  <2>. QED BY <1>1, <1>2, <1>7, <2>1, <2>2, <2>6, <2>7 DEF NullInv
<1>. QED BY <1>1, <1>4, <1>6, <1>8, <1>9

LEMMA NullDisturbed == ScriptInv /\ oops = "none" /\ NullInv /\ Disturbed => NullInv'
<1> SUFFICES ASSUME ScriptInv, oops = "none", NullInv, Disturbed PROVE NullInv'
  OBVIOUS
<1>1. /\ driver' = driver /\ phase' = phase /\ todo' = todo /\ failed' = failed /\ before' = before
  BY DEF Disturbed
<1>2. Script' = Script /\ Handler' = Handler /\ (Trust' => Trust)
  BY <1>1 DEF Script, Handler, Trust
<1>3. NullOnlyWhereUnchecked'
  <2>1. CASE Trust
    <3>1. oops' # "null"
      BY <2>1 DEF Disturbed, NullInv, Lines, Busy
    <3>. QED BY <3>1 DEF NullOnlyWhereUnchecked
  <2>2. CASE ~Trust
    BY <1>1, <2>2, NeverEarly DEF NullOnlyWhereUnchecked, Trust, Early
  <2>. QED BY <2>1, <2>2
<1>4. CASE ~Trust'
  BY <1>3, <1>4 DEF NullInv
<1>5. CASE Trust' /\ held' = held /\ pending' \subseteq pending
  <2>1. Trust /\ Lines' \subseteq Lines /\ Busy' \subseteq Busy
    BY <1>1, <1>2, <1>5 DEF Lines, Busy
  <2>2. \A s, M : Covers(driver, s, M, Lines, Busy) => Covers(driver, s, M, Lines', Busy')
    <3> SUFFICES ASSUME NEW s, NEW M, Covers(driver, s, M, Lines, Busy)
                 PROVE  Covers(driver, s, M, Lines', Busy')
      OBVIOUS
    <3>1. M \subseteq M
      OBVIOUS
    <3>. QED BY <2>1, <3>1, CoversMore
  <2>3. CASE phase = "load"
    <3>1. JumpsCover(driver, todo, Lines', Busy')
      BY <2>1, <2>3, JumpsCoverFewer DEF NullInv
    <3>2. ASSUME Covers(driver, Script.unload, held \cup SureIn(driver, todo),
                        Lines \cup TakenIn(todo), Busy \cup ArmedIn(todo))
          PROVE  Covers(driver, Script.unload, held \cup SureIn(driver, todo),
                        Lines' \cup TakenIn(todo), Busy' \cup ArmedIn(todo))
      <4>1. /\ held \cup SureIn(driver, todo) \subseteq held \cup SureIn(driver, todo)
            /\ Lines' \cup TakenIn(todo) \subseteq Lines \cup TakenIn(todo)
            /\ Busy' \cup ArmedIn(todo) \subseteq Busy \cup ArmedIn(todo)
        BY <2>1
      <4>. QED BY <3>2, <4>1, CoversMore
    <3>3. /\ Lines' \cap Handler.lines # {} => Handler.needs \subseteq held
          /\ Busy' # {} => Handler.workNeeds \subseteq held
      BY <2>1, <2>3 DEF NullInv
    <3>4. Covers(driver, todo, held, Lines', Busy')
      BY <2>1, <2>2, <2>3 DEF NullInv
    <3>5. Returns(todo) = "in" =>
            \/ Idle(Handler, Script.unload)
            \/ /\ GivesNothing(todo)
               /\ Covers(driver, Script.unload, held \cup SureIn(driver, todo),
                         Lines' \cup TakenIn(todo), Busy' \cup ArmedIn(todo))
      BY <2>1, <2>3, <3>2 DEF NullInv
    <3>. QED BY <1>1, <1>2, <1>3, <1>5, <2>3, <3>1, <3>3, <3>4, <3>5 DEF NullInv
  <2>4. CASE phase # "load"
    <3>1. /\ phase # "out" /\ Lines' \cap Handler.lines # {} => Handler.needs \subseteq held
          /\ phase # "out" /\ Busy' # {} => Handler.workNeeds \subseteq held
      BY <2>1 DEF NullInv
    <3>2. /\ phase = "unload" => Covers(driver, todo, held, Lines', Busy')
          /\ phase = "in" => Covers(driver, Script.unload, held, Lines', Busy')
      BY <2>1, <2>2 DEF NullInv
    <3>. QED BY <1>1, <1>2, <1>3, <1>5, <2>4, <3>1, <3>2 DEF NullInv
  <2>. QED BY <2>3, <2>4
<1>6. CASE /\ Trust' /\ phase # "out" /\ Lines \cap Handler.lines # {}
           /\ held' = held \cup Handler.gives /\ pending' = pending \cup Handler.arms
  <2> DEFINE K == Lines \cup Handler.gives
             V == Busy \cup Handler.arms
  <2>1. Trust /\ driver \notin Early /\ Lines' \subseteq K /\ Busy' \subseteq V /\ held \subseteq held'
    BY <1>1, <1>2, <1>6 DEF Lines, Busy, Trust
  <2>2. /\ Handler.arms # {} => Handler.workNeeds \subseteq Handler.needs \cup Handler.gives
        /\ Handler.gives \cap Handler.lines = {}
    BY <2>1, Scripts0 DEF UsesWhatItGot, Handler, Script
  <2>3. Handler.needs \subseteq held
    BY <1>6, <2>1 DEF NullInv
  <2>4. Busy' # {} => Handler.workNeeds \subseteq held'
    <3>1. CASE Handler.arms # {}
      BY <1>6, <2>2, <2>3, <3>1
    <3>2. CASE Handler.arms = {}
      <4>1. Busy' \subseteq Busy
        BY <2>1, <3>2
      <4>2. Busy # {} => Handler.workNeeds \subseteq held
        BY <1>6, <2>1 DEF NullInv
      <4>. QED BY <2>1, <4>1, <4>2
    <3>. QED BY <3>1, <3>2
  <2>5. ASSUME NEW s, NEW M, NEW A, NEW B, Covers(driver, s, M, Lines \cup A, Busy \cup B),
               NEW N, M \subseteq N
        PROVE  Covers(driver, s, N, Lines' \cup A, Busy' \cup B)
    <3>1. (Lines \cup A) \cap Scripts[driver].handler.lines # {}
      BY <1>6 DEF Handler, Script
    <3>2. Scripts[driver].handler.gives \cap Scripts[driver].handler.lines = {}
      BY <2>2 DEF Handler, Script
    <3>3. Covers(driver, s, M, Lines \cup A \cup Scripts[driver].handler.gives,
                 Busy \cup B \cup Scripts[driver].handler.arms)
      BY <2>5, <3>1, <3>2, CoversGrown
    <3>4. /\ Lines' \cup A \subseteq Lines \cup A \cup Scripts[driver].handler.gives
          /\ Busy' \cup B \subseteq Busy \cup B \cup Scripts[driver].handler.arms
      BY <2>1 DEF Handler, Script
    <3>. QED BY <2>5, <3>3, <3>4, CoversMore
  <2>6. \A s : Covers(driver, s, held, Lines, Busy) => Covers(driver, s, held', Lines', Busy')
    <3> SUFFICES ASSUME NEW s, Covers(driver, s, held, Lines, Busy)
                 PROVE  Covers(driver, s, held', Lines', Busy')
      OBVIOUS
    <3>1. Lines \cup {} = Lines /\ Busy \cup {} = Busy /\ Lines' \cup {} = Lines' /\ Busy' \cup {} = Busy'
      OBVIOUS
    <3>2. Covers(driver, s, held, Lines \cup {}, Busy \cup {})
      BY <3>1
    <3>3. Covers(driver, s, held', Lines' \cup {}, Busy' \cup {})
      BY <2>1, <2>5, <3>2
    <3>. QED BY <3>1, <3>3
  <2>7. CASE phase = "load"
    <3>1. JumpsCover(driver, todo, Lines', Busy')
      <4>1. JumpsCover(driver, todo, Lines, Busy)
        BY <2>1, <2>7 DEF NullInv
      <4>2. JumpsCover(driver, todo, K, V)
        BY <1>6, <2>2, <4>1, JumpsCoverGrown DEF Handler, Script
      <4>. QED BY <2>1, <4>2, JumpsCoverFewer
    <3>2. ASSUME Covers(driver, Script.unload, held \cup SureIn(driver, todo),
                        Lines \cup TakenIn(todo), Busy \cup ArmedIn(todo))
          PROVE  Covers(driver, Script.unload, held' \cup SureIn(driver, todo),
                        Lines' \cup TakenIn(todo), Busy' \cup ArmedIn(todo))
      <4>1. held \cup SureIn(driver, todo) \subseteq held' \cup SureIn(driver, todo)
        BY <2>1
      <4>. QED BY <2>5, <3>2, <4>1
    <3>3. Covers(driver, todo, held', Lines', Busy')
      BY <2>1, <2>6, <2>7 DEF NullInv
    <3>4. Returns(todo) = "in" =>
            \/ Idle(Handler, Script.unload)
            \/ /\ GivesNothing(todo)
               /\ Covers(driver, Script.unload, held' \cup SureIn(driver, todo),
                         Lines' \cup TakenIn(todo), Busy' \cup ArmedIn(todo))
      BY <2>1, <2>7, <3>2 DEF NullInv
    <3>. QED BY <1>1, <1>2, <1>3, <1>6, <2>1, <2>3, <2>4, <2>7, <3>1, <3>3, <3>4 DEF NullInv
  <2>8. CASE phase # "load"
    <3>1. /\ phase = "unload" => Covers(driver, todo, held', Lines', Busy')
          /\ phase = "in" => Covers(driver, Script.unload, held', Lines', Busy')
      BY <2>1, <2>6 DEF NullInv
    <3>. QED BY <1>1, <1>2, <1>3, <2>1, <2>3, <2>4, <2>8, <3>1 DEF NullInv
  <2>. QED BY <2>7, <2>8
<1>. QED BY <1>4, <1>5, <1>6 DEF Disturbed, Lines

LEMMA NullNext == ScriptInv /\ NullInv /\ [LifeNext]_driverVars => NullInv'
<1> SUFFICES ASSUME ScriptInv, NullInv, [LifeNext]_driverVars PROVE NullInv'
  OBVIOUS
<1>1. CASE LifeNext
  BY <1>1, StepCases, NullPasses, NullJumps, NullLoads, NullFinishes, NullDisturbed
<1>2. CASE UNCHANGED driverVars
  <2>1. /\ driver' = driver /\ phase' = phase /\ todo' = todo /\ held' = held /\ oops' = oops
        /\ failed' = failed /\ before' = before /\ pending' = pending
    BY <1>2 DEF driverVars
  <2>. QED BY <2>1 DEF NullInv, Handler, Script, Trust, Lines, Busy, NullOnlyWhereUnchecked
<1>. QED BY <1>1, <1>2

(* A driver dereferences what is not there only where it does not test its *)
(* calls, and then only after one has failed, or where it asks for its     *)
(* interrupt too early.                                                    *)
THEOREM NullNeedsAFailure == LifeSpec /\ KeepsDiscipline => []NullOnlyWhereUnchecked
<1>1. NullInv => NullOnlyWhereUnchecked
  BY DEF NullInv
<1>. QED BY <1>1, ScriptInvariant, NullInit, NullNext, PTL DEF LifeSpec
=============================================================================
