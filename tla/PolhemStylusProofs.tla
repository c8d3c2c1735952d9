-------------------------- MODULE PolhemStylusProofs --------------------------
(***************************************************************************)
(* Proofs about PolhemStylus, for every set of timer numbers: however      *)
(* numbers of ended timers come into use again, the stale energyTimeout    *)
(* does not name the interval before the first sleep.                      *)
(***************************************************************************)
EXTENDS PolhemStylus, TLAPS

(* The start happens once, and until then nothing has set energyTimeout.   *)
Starting ==
  /\ \A j, k \in Tokens : timer[j] = "start" /\ timer[k] = "start" => j = k
  /\ spi => \A k \in Tokens : timer[k] # "start"
  /\ spi <=> energyTimeout # undefined
  /\ ~spi => ~energySavingMode

StaleIsNoInterval ==
  ~energySavingMode /\ spi => timer[energyTimeout] \in {"free", "sleep"}

PolhemInv == TypeOK /\ Starting /\ StaleIsNoInterval /\ OneIntervalAtFirst

(* Clearing a number that is not one changes nothing.                      *)
LEMMA ClearedTable ==
  ASSUME NEW table \in [Tokens -> Kinds], NEW token \in Tokens \cup {undefined}
  PROVE  /\ Cleared(table, token) \in [Tokens -> Kinds]
         /\ \A k \in Tokens :
              Cleared(table, token)[k] = IF k = token THEN "free" ELSE table[k]
  BY PolhemAssumption DEF Cleared, Kinds

LEMMA SetTable ==
  ASSUME NEW table \in [Tokens -> Kinds], NEW i \in Tokens, NEW kind \in Kinds
  PROVE  /\ Set(table, i, kind) \in [Tokens -> Kinds]
         /\ \A k \in Tokens :
              Set(table, i, kind)[k] = IF k = i THEN kind ELSE table[k]
  BY DEF Set

LEMMA PolhemInitially == Init => PolhemInv
<1> SUFFICES ASSUME Init PROVE PolhemInv
  OBVIOUS
<1>1. PICK s \in Tokens :
        timer = [k \in Tokens |-> IF k = s THEN "start" ELSE "free"]
  BY DEF Init
<1>2. timer \in [Tokens -> Kinds]
  BY <1>1 DEF Kinds
<1>3. \A k \in Tokens : timer[k] = "start" => k = s
  BY <1>1
<1>4. Running("send") = {}
  BY <1>1 DEF Running
<1> QED
  BY <1>2, <1>3, <1>4
  DEF Init, PolhemInv, TypeOK, Starting, StaleIsNoInterval, OneIntervalAtFirst

LEMMA StartsKeeps == ASSUME PolhemInv, Starts PROVE PolhemInv'
<1>1. PICK s \in Running("start"), k \in Free(timer), i \in Free(timer) :
        /\ i # k
        /\ timer' = Set(Set(Cleared(timer, s), k, "sleep"), i, "send")
        /\ energyTimeout' = k
        /\ bluetoothInterval' = i
  BY DEF Starts
<1>2. /\ s \in Tokens /\ k \in Tokens /\ i \in Tokens /\ i # k
      /\ timer[s] = "start" /\ timer[k] = "free" /\ timer[i] = "free"
  BY <1>1 DEF Running, Free
<1>3. timer \in [Tokens -> Kinds] /\ "sleep" \in Kinds /\ "send" \in Kinds
  BY DEF PolhemInv, TypeOK, Kinds
<1> DEFINE table == Cleared(timer, s)
           armed == Set(table, k, "sleep")
<1>a. /\ table \in [Tokens -> Kinds]
      /\ \A n \in Tokens : table[n] = IF n = s THEN "free" ELSE timer[n]
  BY <1>2, <1>3, ClearedTable
<1> HIDE DEF table
<1>4. /\ armed \in [Tokens -> Kinds]
      /\ \A n \in Tokens : armed[n] = IF n = k THEN "sleep" ELSE table[n]
  BY <1>a, <1>2, <1>3 DEF Set
<1> HIDE DEF armed
<1>b. timer' = Set(armed, i, "send")
  BY <1>1 DEF armed, table
<1>c. /\ timer' \in [Tokens -> Kinds]
      /\ \A n \in Tokens : timer'[n] = IF n = i THEN "send" ELSE armed[n]
  BY <1>b, <1>2, <1>3, <1>4 DEF Set
<1>5. /\ timer' \in [Tokens -> Kinds]
      /\ \A n \in Tokens : timer'[n] =
           IF n = i THEN "send" ELSE IF n = k THEN "sleep"
           ELSE IF n = s THEN "free" ELSE timer[n]
  BY <1>a, <1>c, <1>4
<1>6. ~spi /\ spi' /\ energySavingMode' = energySavingMode /\ LED2' = LED2
        /\ ~energySavingMode
  BY <1>2 DEF Starts, PolhemInv, Starting
<1>7. \A n \in Tokens : timer[n] # "send"
  BY <1>6 DEF PolhemInv, OneIntervalAtFirst, Running
<1>8. Running("send")' = {i}
  BY <1>2, <1>5, <1>7 DEF Running
<1>9. \A n \in Tokens : timer'[n] # "start"
  BY <1>2, <1>5 DEF PolhemInv, Starting
<1>10. TypeOK'
  BY <1>1, <1>2, <1>5, <1>6 DEF PolhemInv, TypeOK, Starts
<1>11. timer'[k] = "sleep" /\ k # undefined
  BY <1>2, <1>5, PolhemAssumption
<1> QED
  BY <1>1, <1>6, <1>8, <1>9, <1>10, <1>11
  DEF PolhemInv, Starting, StaleIsNoInterval, OneIntervalAtFirst

LEMMA SleepKeeps ==
  ASSUME PolhemInv, NEW k \in Tokens, sleep(k) PROVE PolhemInv'
<1>1. /\ Cleared(timer, k) \in [Tokens -> Kinds]
      /\ \A n \in Tokens : Cleared(timer, k)[n] \in {"free", timer[n]}
  BY ClearedTable DEF PolhemInv, TypeOK
<1>2. /\ timer' \in [Tokens -> Kinds]
      /\ \A n \in Tokens : timer'[n] \in {"free", timer[n]}
  BY <1>1, ClearedTable DEF sleep, PolhemInv, TypeOK
<1> QED
  BY <1>2
  DEF sleep, PolhemInv, TypeOK, Starting, StaleIsNoInterval, OneIntervalAtFirst

(* What an edge leaves of the table.                                       *)
LEMMA EdgeTable ==
  ASSUME PolhemInv, NEW k \in Free(Cleared(timer, energyTimeout)),
         Edge(Cleared(timer, energyTimeout), k)
  PROVE  /\ k \in Tokens
         /\ timer' \in [Tokens -> Kinds]
         /\ IF energySavingMode
            THEN /\ bluetoothInterval' \in Tokens \ {k}
                 /\ \A n \in Tokens : timer'[n] =
                      IF n = bluetoothInterval' THEN "send"
                      ELSE IF n = k THEN "sleep"
                      ELSE IF n = energyTimeout THEN "free" ELSE timer[n]
            ELSE /\ bluetoothInterval' = bluetoothInterval
                 /\ \A n \in Tokens : timer'[n] =
                      IF n = k THEN "sleep"
                      ELSE IF n = energyTimeout THEN "free" ELSE timer[n]
<1> DEFINE table == Cleared(timer, energyTimeout)
           armed == Set(table, k, "sleep")
<1>1. k \in Tokens /\ "sleep" \in Kinds /\ "send" \in Kinds
  BY DEF Free, Kinds
<1>2. /\ table \in [Tokens -> Kinds]
      /\ \A n \in Tokens :
           table[n] = IF n = energyTimeout THEN "free" ELSE timer[n]
  BY ClearedTable DEF PolhemInv, TypeOK
<1>3. /\ armed \in [Tokens -> Kinds]
      /\ \A n \in Tokens : armed[n] =
           IF n = k THEN "sleep"
           ELSE IF n = energyTimeout THEN "free" ELSE timer[n]
  BY <1>1, <1>2, SetTable
<1>4. CASE energySavingMode
  <2>1. PICK i \in Free(armed) : /\ timer' = Set(armed, i, "send")
                                 /\ bluetoothInterval' = i
    BY <1>4 DEF Edge, wakeup
  <2>2. i \in Tokens /\ armed[i] = "free"
    BY DEF Free
  <2>3. i # k
    BY <1>1, <1>3, <2>2
  <2>4. /\ timer' \in [Tokens -> Kinds]
        /\ \A n \in Tokens : timer'[n] = IF n = i THEN "send" ELSE armed[n]
    BY <1>1, <1>3, <2>1, <2>2, SetTable
  <2> QED
    BY <1>1, <1>3, <1>4, <2>1, <2>2, <2>3, <2>4
<1>5. CASE ~energySavingMode
  BY <1>1, <1>3, <1>5 DEF Edge
<1> QED
  BY <1>4, <1>5

LEMMA ButtonKeeps == ASSUME PolhemInv, Button PROVE PolhemInv'
<1>1. /\ LED2' \in BOOLEAN
      /\ UNCHANGED <<energySavingMode, energyTimeout, spi>>
  BY DEF Button, b2
<1>2. ASSUME NEW k \in Free(Cleared(timer, energyTimeout)),
             Edge(Cleared(timer, energyTimeout), k)
      PROVE  PolhemInv'
  <2>1. timer' \in [Tokens -> Kinds] /\ k \in Tokens
    BY <1>2, EdgeTable
  <2>2. bluetoothInterval' \in Tokens \cup {undefined}
    BY <1>2, EdgeTable DEF PolhemInv, TypeOK
  <2>3. TypeOK'
    BY <1>1, <2>1, <2>2 DEF PolhemInv, TypeOK
  <2>4. \A n \in Tokens :
          timer'[n] \in {"free", "sleep", "send"} \/ timer'[n] = timer[n]
    BY <1>2, EdgeTable
  <2>5. Starting'
    BY <1>1, <2>4 DEF PolhemInv, Starting
  <2>6. ASSUME ~energySavingMode
        PROVE  StaleIsNoInterval' /\ OneIntervalAtFirst'
    <3>1. /\ bluetoothInterval' = bluetoothInterval
          /\ \A n \in Tokens : timer'[n] =
               IF n = k THEN "sleep"
               ELSE IF n = energyTimeout THEN "free" ELSE timer[n]
      BY <1>2, <2>6, EdgeTable
    <3>2. Cleared(timer, energyTimeout)[k] = "free"
      BY DEF Free
    <3>3. k = energyTimeout \/ timer[k] = "free"
      BY <2>1, <3>2, ClearedTable DEF PolhemInv, TypeOK
    <3>4. spi => energyTimeout \in Tokens
      BY DEF PolhemInv, TypeOK, Starting
    <3>5. StaleIsNoInterval'
      BY <1>1, <3>1, <3>4 DEF StaleIsNoInterval
    <3>6. ~spi => energyTimeout \notin Tokens
      BY PolhemAssumption DEF PolhemInv, Starting
    <3>7. timer[k] # "send"
      BY <2>1, <2>6, <3>3, <3>6 DEF PolhemInv, StaleIsNoInterval
    <3>8. spi => timer[energyTimeout] # "send"
      BY <2>6 DEF PolhemInv, StaleIsNoInterval
    <3>9. Running("send")' = Running("send")
      BY <3>1, <3>6, <3>7, <3>8 DEF Running
    <3> QED
      BY <1>1, <3>1, <3>5, <3>9 DEF PolhemInv, OneIntervalAtFirst
  <2> QED
    BY <1>1, <2>3, <2>5, <2>6
    DEF PolhemInv, StaleIsNoInterval, OneIntervalAtFirst
<1>3. CASE UNCHANGED <<timer, bluetoothInterval>>
  BY <1>1, <1>3
  DEF PolhemInv, TypeOK, Starting, StaleIsNoInterval, OneIntervalAtFirst, Running
<1> QED
  BY <1>2, <1>3 DEF Button, b2

LEMMA PolhemStep == PolhemInv /\ [Next]_vars => PolhemInv'
<1> SUFFICES ASSUME PolhemInv, [Next]_vars PROVE PolhemInv'
  OBVIOUS
<1>1. CASE UNCHANGED vars
  BY <1>1
  DEF vars, PolhemInv, TypeOK, Starting, StaleIsNoInterval, OneIntervalAtFirst,
      Running
<1> QED
  BY <1>1, StartsKeeps, SleepKeeps, ButtonKeeps DEF Next

(* One interval until the first sleep, for every set of timer numbers.     *)
THEOREM OneIntervalCorrect == Spec => []OneIntervalAtFirst
<1>1. PolhemInv => OneIntervalAtFirst
  BY DEF PolhemInv
<1> QED
  BY <1>1, PolhemInitially, PolhemStep, PTL DEF Spec

EdgeSends == Button /\ spi => Running("send")' # {}

LEMMA EdgeStep == PolhemInv => EdgeSends
<1> SUFFICES ASSUME PolhemInv, Button, spi PROVE Running("send")' # {}
  BY DEF EdgeSends
<1>1. energyTimeout # undefined
  BY DEF PolhemInv, Starting
<1>2. PICK k \in Free(Cleared(timer, energyTimeout)) :
        Edge(Cleared(timer, energyTimeout), k)
  BY <1>1 DEF Button, b2
<1>3. CASE energySavingMode
  <2>1. bluetoothInterval' \in Tokens /\ timer'[bluetoothInterval'] = "send"
    BY <1>2, <1>3, EdgeTable
  <2> QED
    BY <2>1 DEF Running
<1>4. CASE ~energySavingMode
  <2>1. bluetoothInterval \in Tokens /\ timer[bluetoothInterval] = "send"
    BY <1>4 DEF PolhemInv, OneIntervalAtFirst, Running
  <2>2. bluetoothInterval # energyTimeout
    BY <1>4, <2>1 DEF PolhemInv, StaleIsNoInterval
  <2>3. bluetoothInterval # k
    <3>1. Cleared(timer, energyTimeout)[k] = "free" /\ k \in Tokens
      BY DEF Free
    <3>2. k = energyTimeout \/ timer[k] = "free"
      BY <3>1, ClearedTable DEF PolhemInv, TypeOK
    <3> QED
      BY <2>1, <2>2, <3>2
  <2>4. timer'[bluetoothInterval] = "send"
    BY <1>2, <1>4, <2>1, <2>2, <2>3, EdgeTable
  <2> QED
    BY <2>1, <2>4 DEF Running
<1> QED
  BY <1>3, <1>4

(* An edge after the start leaves the stylus printing, although b2 clears  *)
(* a number that may have come to name another timer.                      *)
THEOREM ButtonCorrect == Spec => ButtonKeepsSending
<1>1. PolhemInv /\ [Next]_vars => [EdgeSends]_vars
  BY EdgeStep
<1> QED
  BY <1>1, PolhemInitially, PolhemStep, PTL DEF Spec, ButtonKeepsSending, EdgeSends

-----------------------------------------------------------------------------
(* The way to sleep.                                                       *)

(* Whenever the interval that was started last runs, before the first      *)
(* sleep or after any later one, a timeout is set that will stop it:       *)
(* although b2 forgets the numbers of the timeouts that it sets, the one   *)
(* that it clears is replaced in the same callback, and a timeout that     *)
(* ends stops the interval.                                                *)
SleepIsArmed == bluetoothInterval \in Running("send") => Running("sleep") # {}

LEMMA ArmedStep ==
  PolhemInv /\ SleepIsArmed /\ [Next]_vars => SleepIsArmed'
<1> SUFFICES ASSUME PolhemInv, SleepIsArmed, [Next]_vars PROVE SleepIsArmed'
  OBVIOUS
<1>1. CASE Starts
  <2>1. PICK s \in Running("start"), k \in Free(timer), i \in Free(timer) :
          /\ i # k
          /\ timer' = Set(Set(Cleared(timer, s), k, "sleep"), i, "send")
    BY <1>1 DEF Starts
  <2>2. s \in Tokens /\ k \in Tokens /\ i \in Tokens /\ i # k
    BY <2>1 DEF Running, Free
  <2>3. PICK table \in [Tokens -> Kinds] : table = Cleared(timer, s)
    BY <2>2, ClearedTable DEF PolhemInv, TypeOK
  <2>4. PICK armed \in [Tokens -> Kinds] :
          armed = Set(table, k, "sleep") /\ armed[k] = "sleep"
    BY <2>2, SetTable DEF Kinds
  <2>5. timer'[k] = "sleep"
    BY <2>1, <2>2, <2>3, <2>4, SetTable DEF Kinds
  <2> QED
    BY <2>2, <2>5 DEF SleepIsArmed, Running
<1>2. ASSUME NEW k \in Tokens, sleep(k) PROVE SleepIsArmed'
  <2>1. PICK table \in [Tokens -> Kinds] : table = Cleared(timer, k)
    BY ClearedTable DEF PolhemInv, TypeOK
  <2>2. bluetoothInterval \in Tokens => timer'[bluetoothInterval] = "free"
    BY <1>2, <2>1, ClearedTable DEF sleep, PolhemInv, TypeOK
  <2> QED
    BY <1>2, <2>2 DEF sleep, SleepIsArmed, Running
<1>3. ASSUME NEW k \in Free(Cleared(timer, energyTimeout)),
             Edge(Cleared(timer, energyTimeout), k)
      PROVE  Running("sleep")' # {}
  <2>1. k \in Tokens /\ timer'[k] = "sleep"
    BY <1>3, EdgeTable
  <2> QED
    BY <2>1 DEF Running
<1>4. CASE Button
  <2>1. CASE UNCHANGED <<timer, bluetoothInterval>>
    BY <2>1 DEF SleepIsArmed, Running
  <2> QED
    BY <1>3, <1>4, <2>1 DEF Button, b2, SleepIsArmed
<1>5. CASE UNCHANGED vars
  BY <1>5 DEF vars, SleepIsArmed, Running
<1> QED
  BY <1>1, <1>2, <1>4, <1>5 DEF Next

(* No interval that can still be stopped is left running without a timeout *)
(* to stop it, which is what LastIntervalStops needs of the table.         *)
THEOREM SleepIsArmedCorrect == Spec => []SleepIsArmed
<1>1. Init => SleepIsArmed
  BY PolhemAssumption DEF Init, SleepIsArmed, Running
<1> QED
  BY <1>1, PolhemInitially, PolhemStep, ArmedStep, PTL DEF Spec

-----------------------------------------------------------------------------
(* The intervals that nobody knows.                                        *)

(* No variable of the firmware names this interval any more.               *)
Orphan(i) == timer[i] = "send" /\ i # bluetoothInterval /\ i # energyTimeout

OrphansStay == \A i \in Tokens : Orphan(i) => Orphan(i)'

LEMMA OrphanStep == ASSUME PolhemInv, [Next]_vars PROVE OrphansStay
<1> SUFFICES ASSUME NEW i \in Tokens, Orphan(i) PROVE Orphan(i)'
  BY DEF OrphansStay
<1>0. timer[i] = "send" /\ i # bluetoothInterval /\ i # energyTimeout
  BY DEF Orphan
<1>1. spi
  <2> SUFFICES ASSUME ~spi PROVE FALSE
    OBVIOUS
  <2>1. ~energySavingMode /\ Running("send") = {}
    BY DEF PolhemInv, Starting, OneIntervalAtFirst
  <2> QED
    BY <1>0, <2>1 DEF Running
<1>2. ~Starts
  <2>1. Running("start") = {}
    BY <1>1 DEF PolhemInv, Starting, Running
  <2> QED
    BY <2>1 DEF Starts
<1>3. ASSUME NEW k \in Tokens, sleep(k) PROVE Orphan(i)'
  <2>1. k # i
    BY <1>0, <1>3 DEF sleep
  <2>2. PICK table \in [Tokens -> Kinds] :
          table = Cleared(timer, k) /\ table[i] = "send"
    BY <1>0, <2>1, ClearedTable DEF PolhemInv, TypeOK
  <2>3. timer'[i] = "send"
    BY <1>0, <1>3, <2>2, ClearedTable DEF sleep, PolhemInv, TypeOK
  <2> QED
    BY <1>0, <1>3, <2>3 DEF sleep, Orphan
<1>4. ASSUME NEW k \in Free(Cleared(timer, energyTimeout)),
             Edge(Cleared(timer, energyTimeout), k)
      PROVE  timer'[i] = "send" /\ i # bluetoothInterval'
  <2>1. k # i
    BY <1>0, ClearedTable DEF Free, PolhemInv, TypeOK
  <2>2. CASE energySavingMode
    <3>1. PICK table \in [Tokens -> Kinds] :
            table = Cleared(timer, energyTimeout) /\ table[i] = "send"
      BY <1>0, ClearedTable DEF PolhemInv, TypeOK
    <3>2. k \in Tokens
      BY DEF Free
    <3>3. PICK armed \in [Tokens -> Kinds] :
            armed = Set(table, k, "sleep") /\ armed[i] = "send"
      BY <2>1, <3>1, <3>2, SetTable DEF Kinds
    <3>4. bluetoothInterval' \in Free(armed)
      BY <1>4, <2>2, <3>1, <3>3 DEF Edge, wakeup
    <3>5. i # bluetoothInterval'
      BY <3>3, <3>4 DEF Free
    <3> QED
      BY <1>0, <1>4, <2>1, <2>2, <3>5, EdgeTable
  <2>3. CASE ~energySavingMode
    BY <1>0, <1>4, <2>1, <2>3, EdgeTable
  <2> QED
    BY <2>2, <2>3
<1>5. CASE Button
  <2>1. UNCHANGED energyTimeout
    BY <1>5 DEF Button, b2
  <2>2. CASE UNCHANGED <<timer, bluetoothInterval>>
    BY <1>0, <2>1, <2>2 DEF Orphan
  <2> QED
    BY <1>0, <1>4, <1>5, <2>1, <2>2 DEF Button, b2, Orphan
<1>6. CASE UNCHANGED vars
  BY <1>0, <1>6 DEF vars, Orphan
<1> QED
  BY <1>2, <1>3, <1>5, <1>6 DEF Next

(* energySavingMode is never reset, so that every later edge starts one    *)
(* more interval and keeps its number only: an interval whose number is    *)
(* kept nowhere prints for ever, through every later sleep.                *)
THEOREM OrphansRunOn ==
  Spec => [][\A i \in Tokens : Orphan(i) => Orphan(i)']_vars
<1>1. PolhemInv /\ [Next]_vars => [OrphansStay]_vars
  BY OrphanStep
<1> QED
  BY <1>1, PolhemInitially, PolhemStep, PTL DEF Spec, OrphansStay
=============================================================================
