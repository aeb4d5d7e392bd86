--------------------------- MODULE DriverDiscipline ---------------------------
(***************************************************************************)
(* What the load and unload functions of a driver have to keep to, read    *)
(* off their scripts alone: a driver that does gives everything back, gives*)
(* back nothing else and uses nothing it does not have, whatever fails and *)
(* whenever its interrupts, timers and threads come (DriverProofs).        *)
(***************************************************************************)
EXTENDS DriverLifecycle, Naturals

Steps == [op : STRING, on : SUBSET STRING, to : STRING]

OfOne == {"get", "do", "use", "arm", "tryarm", "cancel", "mask"}
Jumps(st) == st.op \in {"get", "check", "none"} /\ st.to # ""
Returns(s) == s[Len(s)].to

-----------------------------------------------------------------------------
(* What a step takes and what it gives back.  A line that is masked is     *)
(* another resource; a pointer that may be any of several is none of them. *)
Asks(st)  == IF st.op \in {"get", "do"} THEN st.on ELSE {}
Works(st) == IF st.op \in {"arm", "tryarm"} THEN st.on ELSE {}
Takes(st) == Asks(st) \cup Works(st) \cup
             (IF st.op = "mask" THEN {Off(r) : r \in st.on} ELSE {})
Uses(st)  == IF st.op = "use" THEN st.on ELSE {}
Puts(st)  == IF st.op = "put" THEN st.on ELSE {}
Frees(st) == IF st.op \in {"free", "oneof"} THEN st.on ELSE {}
Loses(st) == Puts(st) \cup Frees(st) \cup (IF st.op = "mask" THEN st.on ELSE {})
Gives(st) == IF st.op \in {"put", "free", "cancel", "mask"} THEN st.on ELSE {}

TakenBefore(s, i) == UNION {Takes(s[j]) : j \in 1..(i - 1)}
AskedBefore(s, i) == UNION {Asks(s[j]) : j \in 1..(i - 1)}
ArmedBefore(s, i) == UNION {Works(s[j]) : j \in 1..(i - 1)}
GivenBefore(s, i) == UNION {Gives(s[j]) : j \in 1..(i - 1)}

TakenIn(s) == TakenBefore(s, Len(s) + 1)
AskedIn(s) == AskedBefore(s, Len(s) + 1)
ArmedIn(s) == ArmedBefore(s, Len(s) + 1)
GivenIn(s) == GivenBefore(s, Len(s) + 1)

(* What a script is made of: one "end", the labels of the error path, and  *)
(* in W the names of its timers, work and threads.                         *)
WellFormed(s, labels, W) ==
  /\ s \in Seq(Steps) /\ s # <<>> /\ Returns(s) \in {"in", "out"}
  /\ \A i \in DOMAIN s :
       /\ s[i].op = "end" <=> i = Len(s)
       /\ s[i].op \in OfOne => \E r \in s[i].on : s[i].on = {r}
       /\ Jumps(s[i]) => s[i].to \in labels
       /\ IF s[i].op \in {"arm", "tryarm", "cancel"} THEN s[i].on \subseteq W
                                                    ELSE (s[i].on \cup Takes(s[i])) \cap W = {}

-----------------------------------------------------------------------------
(* Nothing left behind.  An interrupt of a line in M adds what the handler *)
(* sets and starts, so that has to go after the last line has.             *)
Started(h)  == h.gives \cup h.arms
Grown(h, M) == IF M \cap h.lines = {} THEN M ELSE M \cup Started(h)

GivenLate(h, s) ==
  UNION {Gives(s[i]) : i \in {k \in DOMAIN s :
                                \A j \in k..Len(s) : Gives(s[j]) \cap h.lines = {}}}

(* Run with M, the script s leaves nothing but what is in L.               *)
Clears(h, s, M, L) ==
  /\ M \subseteq GivenIn(s) \cup L
  /\ TakenIn(s) \subseteq L
  /\ M \cap h.lines # {} => Started(h) \subseteq GivenLate(h, s) \cup L
  /\ L \cap h.lines # {} => Started(h) \subseteq L

(* NoneOr goes on at its label when it has seen that all calls failed;     *)
(* what it looks at is asked for once.                                     *)
Missing(st) == IF st.op = "none" THEN st.on ELSE {}
AskedOnce(h, s) ==
  \A i \in DOMAIN s : Jumps(s[i]) => \A r \in Missing(s[i]) :
    /\ r \notin Started(h) \cup h.lines
    /\ \A j, k \in 1..(i - 1) : r \in Takes(s[j]) \cap Takes(s[k]) => j = k

Owned(d) == Grown(Scripts[d].handler, TakenIn(Scripts[d].load))

(* Wherever s goes to a label, the error path there clears what there is   *)
(* then.                                                                   *)
JumpsClear(d, s, M) ==
  \A i \in DOMAIN s : Jumps(s[i]) =>
    LET h == Scripts[d].handler
        u == Scripts[d].unwind[s[i].to]
        N == Grown(h, (M \cup TakenBefore(s, i)) \ Missing(s[i]))
    IN IF Returns(u) = "out" THEN Clears(h, u, N, LeftByFailure[d] \cup Statics)
                             ELSE TakenIn(u) = {} /\ N \subseteq Owned(d)

(* Timers, work and threads that ever run.                                 *)
WorkOf(D) == ArmedIn(D.load) \cup D.handler.arms

LeavesNothingElse(d) ==
  LET D == Scripts[d] IN
  /\ WorkOf(D) \cap (Statics \cup D.handler.gives) = {}
  /\ AskedOnce(D.handler, D.load)
  /\ JumpsClear(d, D.load, {})
  /\ Clears(D.handler, D.unload, Owned(d), LeftByUnload[d] \cup Statics)

-----------------------------------------------------------------------------
(* Nothing given back that is not there.  A script gives each thing back   *)
(* once, but for R.                                                        *)
GivesOnce(s, R) ==
  \A i, j \in DOMAIN s :
    i < j => Loses(s[i]) \cap (Puts(s[j]) \cup Frees(s[j])) \subseteq R

(* s stops at an oops before it gives anything back: it dereferences       *)
(* something that is not in M.                                             *)
Fatal(h, s, M) ==
  \E k \in DOMAIN s :
    /\ Uses(s[k]) # {} /\ Uses(s[k]) \cap (M \cup h.gives) = {}
    /\ \A j \in 1..(k - 1) : Loses(s[j]) = {} /\ Takes(s[j]) \cap Uses(s[k]) = {}

GivesNothing(s) == \A i \in DOMAIN s : Loses(s[i]) = {}
PutsOnly(s, M)  == \A i \in DOMAIN s : Puts(s[i]) \subseteq M

JumpsPut(d, s, M, E) ==
  LET D == Scripts[d]
      R == GivenBackTwice[d]
  IN \A i \in DOMAIN s : Jumps(s[i]) =>
       LET u == D.unwind[s[i].to] IN
       /\ GivesOnce(u, R)
       /\ PutsOnly(u, M \cup AskedBefore(s, i + 1) \cup R)
       /\ Returns(u) = "in" => \/ GivesNothing(D.unload)
                               \/ Fatal(D.handler, D.unload, E \cup TakenBefore(s, i))

PutsWhatItGot(d) ==
  LET D == Scripts[d] IN
  /\ GivesNothing(D.load)
  /\ GivesOnce(D.unload, GivenBackTwice[d])
  /\ PutsOnly(D.unload, AskedIn(D.load) \cup GivenBackTwice[d])
  /\ JumpsPut(d, D.load, {}, LeftByFailure[d] \cup LeftByUnload[d])

-----------------------------------------------------------------------------
(* Nothing used that is not there.  What a step is sure to leave there: a  *)
(* driver that tests every call goes elsewhere when one fails, the others  *)
(* are judged while none has.                                              *)
Early == {"buttons_input", "key_delayed", "key_queue"}

Sure(d, st) ==
  IF st.op = "do" \/ (st.op = "get" /\ (d \in CheckedDrivers => st.to # ""))
    THEN st.on ELSE {}
SureBefore(d, s, i) == UNION {Sure(d, s[j]) : j \in 1..(i - 1)}
SureIn(d, s) == SureBefore(d, s, Len(s) + 1)

(* With M, the lines in L and the work in W there: what s uses, and what   *)
(* the lines and the work it takes need, is there by then; and it gives    *)
(* such a thing back only when those lines and that work are gone.         *)
Covers(d, s, M, L, W) ==
  LET h == Scripts[d].handler IN
  /\ \A i \in DOMAIN s :
       /\ Uses(s[i]) \subseteq M \cup SureBefore(d, s, i)
       /\ \A j \in 1..(i - 1) : Loses(s[j]) \cap Uses(s[i]) = {}
       /\ Takes(s[i]) \cap h.lines # {} => h.needs \subseteq M \cup SureBefore(d, s, i)
       /\ Works(s[i]) # {} => h.workNeeds \subseteq M \cup SureBefore(d, s, i)
       /\ Loses(s[i]) \cap h.needs # {} => L \cap h.lines \subseteq GivenBefore(s, i)
       /\ Loses(s[i]) \cap h.workNeeds # {} =>
            W \subseteq GivenBefore(s, i) /\ (L \cap h.lines = {} \/ h.arms = {})
  /\ \/ GivesNothing(s)
     \/ \A i \in DOMAIN s : Takes(s[i]) \cap h.lines = {} /\ Works(s[i]) = {}

(* s does nothing that the handlers could notice.                          *)
Idle(h, s) ==
  \A i \in DOMAIN s :
    Uses(s[i]) \cup Loses(s[i]) \cup (Takes(s[i]) \cap h.lines) \cup Works(s[i]) = {}

(* Error paths count where they can follow without a failed call, or in a  *)
(* driver that tests every call.                                           *)
Counts(d, st) == \/ d \in CheckedDrivers \/ st.op = "check"
                 \/ st.op = "none" /\ st.on = {}

JumpsCover(d, s, L, W) ==
  LET D == Scripts[d] IN
  \A i \in DOMAIN s : Jumps(s[i]) /\ Counts(d, s[i]) =>
      LET u == D.unwind[s[i].to] IN
      /\ Covers(d, u, {}, L \cup TakenBefore(s, i), W \cup ArmedBefore(s, i))
      /\ Returns(u) = "in" => Idle(D.handler, D.unload)

UsesWhatItGot(d) ==
  LET D == Scripts[d] IN
  d \notin Early =>
    /\ D.handler.arms # {} => D.handler.workNeeds \subseteq D.handler.needs \cup D.handler.gives
    /\ D.handler.gives \cap D.handler.lines = {}
    /\ Covers(d, D.load, {}, {}, {})
    /\ JumpsCover(d, D.load, {}, {})
    /\ Covers(d, D.unload, SureIn(d, D.load), TakenIn(D.load), ArmedIn(D.load))

-----------------------------------------------------------------------------
Disciplined(d) ==
  LET D == Scripts[d] IN
  /\ WellFormed(D.load, DOMAIN D.unwind, WorkOf(D)) /\ Returns(D.load) = "in"
  /\ WellFormed(D.unload, {}, WorkOf(D))
  /\ \A l \in DOMAIN D.unwind : WellFormed(D.unwind[l], {}, WorkOf(D))
  /\ LeavesNothingElse(d)
  /\ PutsWhatItGot(d)
  /\ UsesWhatItGot(d)

(* The scripts of every driver keep to all of it.                          *)
KeepsDiscipline == Disciplined(driver)
=============================================================================
