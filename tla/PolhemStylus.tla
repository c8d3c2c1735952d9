----------------------------- MODULE PolhemStylus -----------------------------
(***************************************************************************)
(* The first edition of the stylus' firmware (firmware/polhem_stylus.js):  *)
(* an interval prints the rotation and the button every 16 ms, a timeout   *)
(* stops it to save energy, an edge of the button starts it again.         *)
(*                                                                         *)
(* The interpreter runs one callback at a time: a callback is one step.    *)
(* It keeps timeouts and intervals in one table and gives a number that    *)
(* has become free to the next timer, so that a number that is kept after  *)
(* its timer has ended may come to name another timer.                     *)
(***************************************************************************)
EXTENDS Integers, FiniteSets

CONSTANTS
  Tokens,     (* the numbers of timers; bounds how many run at a time        *)
  undefined   (* the value of a variable that holds no number yet            *)

ASSUME PolhemAssumption == undefined \notin Tokens

VARIABLES
  timer,            (* the table: what each number stands for               *)
  energySavingMode, energyTimeout, bluetoothInterval, spi, LED2

vars == <<timer, energySavingMode, energyTimeout, bluetoothInterval, spi, LED2>>

Kinds == {"free", "start", "sleep", "send"}

TypeOK ==
  /\ timer \in [Tokens -> Kinds]
  /\ energySavingMode \in BOOLEAN /\ spi \in BOOLEAN /\ LED2 \in BOOLEAN
  /\ energyTimeout \in Tokens \cup {undefined}
  /\ bluetoothInterval \in Tokens \cup {undefined}

Running(kind) == {k \in Tokens : timer[k] = kind}

(* The script has been loaded: the only timer is the one of line 69.       *)
Init ==
  /\ \E s \in Tokens :
       timer = [k \in Tokens |-> IF k = s THEN "start" ELSE "free"]
  /\ energySavingMode = FALSE
  /\ energyTimeout = undefined
  /\ bluetoothInterval = undefined
  /\ spi = FALSE
  /\ LED2 = FALSE

(* clearTimeout or clearInterval, which the firmware also calls with the   *)
(* numbers of timers that have ended.                                      *)
Cleared(table, token) ==
  IF token \in Tokens THEN [table EXCEPT ![token] = "free"] ELSE table

(* setTimeout or setInterval: the table with k as a new timer.             *)
Set(table, k, kind) == [table EXCEPT ![k] = kind]

Free(table) == {k \in Tokens : table[k] = "free"}

(* The timeout of one second.  It is due before any of 60 seconds.         *)
Starts ==
  /\ \E s \in Running("start") : \E k \in Free(timer) : \E i \in Free(timer) \ {k} :
       /\ timer' = Set(Set(Cleared(timer, s), k, "sleep"), i, "send")
       /\ energyTimeout' = k
       /\ bluetoothInterval' = i
  /\ spi' = TRUE
  /\ UNCHANGED <<energySavingMode, LED2>>

(* sleep clears the interval that was started last; the earlier ones run.  *)
sleep(k) ==
  /\ spi
  /\ timer[k] = "sleep"
  /\ timer' = Cleared(Cleared(timer, k), bluetoothInterval)
  /\ energySavingMode' = TRUE
  /\ UNCHANGED <<energyTimeout, bluetoothInterval, spi, LED2>>

(* wakeup, after which the table is the given one with a new interval.     *)
wakeup(table) ==
  \E i \in Free(table) : /\ timer' = Set(table, i, "send")
                         /\ bluetoothInterval' = i

(* An edge of the button.  The new timeout's number is not kept, and       *)
(* energySavingMode, once set, stays.  Before the start energyTimeout is   *)
(* undefined, which an interpreter may refuse to clear: the callback ends. *)
Edge_clearsLast(table, k) ==
  IF energySavingMode
  THEN \E i \in Free(timer) \ {k} :
         /\ timer' = Cleared(Set(Set(timer, k, "sleep"), i, "send"), energyTimeout)
         /\ bluetoothInterval' = i
  ELSE timer' = Cleared(Set(timer, k, "sleep"), energyTimeout) /\ UNCHANGED bluetoothInterval

Edge_wakesAlways(table, k) == wakeup(Set(table, k, "sleep"))

Edge_armsNone(table, k) ==
  IF energySavingMode THEN wakeup(table)
  ELSE timer' = table /\ UNCHANGED bluetoothInterval

Edge(table, k) ==
  IF energySavingMode THEN wakeup(Set(table, k, "sleep"))
  ELSE timer' = Set(table, k, "sleep") /\ UNCHANGED bluetoothInterval

b2(state) ==
  /\ Cardinality(Free(timer)) > 2   (* the bound: Starts has room as well    *)
  /\ LED2' = ~state
  /\ \/ \E k \in Free(Cleared(timer, energyTimeout)) : Edge(Cleared(timer, energyTimeout), k)
     \/ energyTimeout = undefined /\ UNCHANGED <<timer, bluetoothInterval>>
  /\ UNCHANGED <<energySavingMode, energyTimeout, spi>>

Button == \E state \in BOOLEAN : b2(state)

Next ==
  \/ Starts
  \/ \E k \in Tokens : sleep(k)
  \/ Button

Spec == Init /\ [][Next]_vars

(* A timer that is due fires.                                              *)
FairSpec == Spec /\ WF_vars(Starts) /\ \A k \in Tokens : WF_vars(sleep(k))

-----------------------------------------------------------------------------
(* Properties.                                                             *)

(* Until the first sleep the stylus prints at one rate: one interval from  *)
(* the start on, none before it (which would use spi undefined), and it is *)
(* the one that sleep will stop; however often the button was pressed, and *)
(* whichever numbers of ended timers came into use again.                  *)
OneIntervalAtFirst ==
  ~energySavingMode =>
    Running("send") = IF spi THEN {bluetoothInterval} ELSE {}

(* Right after an edge an interval runs, also when the stale energyTimeout *)
(* that b2 clears has become the number of one.  A timeout that an earlier *)
(* edge has left may stop it at any moment.                                *)
ButtonKeepsSending == [][Button /\ spi => Running("send")' # {}]_vars

(* When the button is left alone, after whatever edges and sleeps, the     *)
(* interval that was started last stops for good, although edges cleared   *)
(* timeouts that others had set.  The stylus then saves energy only as far *)
(* as that interval goes: those whose numbers were overwritten print on.   *)
LastIntervalStops ==
  <>[][~Button]_vars => <>[](bluetoothInterval \notin Running("send"))
=============================================================================
