----------------------------- MODULE DeviceFinder -----------------------------
(***************************************************************************)
(* The prompt of the Windows proxy (proxy/src/BLEdeviceFinder.cpp).  While *)
(* PromptUserForDevice waits for a number, the callbacks of the device     *)
(* watcher, on a thread of their own, number and print the devices.  The   *)
(* list has no lock.  The watcher calls back one event at a time; main and *)
(* the callback under way are not kept apart.                              *)
(***************************************************************************)
EXTENDS Naturals, Sequences, Functions

CONSTANTS
  Ids,      (* devices in the vicinity                                       *)
  Named,    (* those of them that have a name                                *)
  NoId,     (* not a device: the empty string                                *)
  Base,     (* 10: the buffer of userInput holds one digit                   *)
  MaxTyped  (* bound on the number that the user types                       *)

ASSUME FinderAssumption ==
  /\ Named \subseteq Ids
  /\ NoId \notin Ids
  /\ Base \in Nat \ {0, 1}
  /\ MaxTyped \in Nat

VARIABLES
  devices,  (* the list                                                      *)
  adding,   (* the device of DeviceWatcher_Added between test and printing   *)
  watching, (* are the callbacks registered?                                 *)
  prompt,   (* where PromptUserForDevice stands                              *)
  typed,    (* the number that the user typed                                *)
  devId,    (* what the prompt returns                                       *)
  printed,  (* history: the printed lines, pairs of a number and a device    *)
  invalid   (* history: the numbers that were printed as no longer valid     *)

finderVars == <<devices, adding, watching, prompt, typed, devId, printed,
                invalid>>

FinderInit ==
  /\ devices = <<>>
  /\ adding = NoId
  /\ watching = FALSE
  /\ prompt = "start"
  /\ typed = 0
  /\ devId = NoId
  /\ printed = {}
  /\ invalid = {}

Listed(d) == d \in Range(devices)

Pushing == adding # NoId /\ ~Listed(adding)

-----------------------------------------------------------------------------
(* The callbacks of the watcher.                                           *)

(* A device without a name, or in the list already, is ignored.            *)
AddedTests(d) ==
  /\ watching /\ adding = NoId
  /\ d \in Named /\ ~Listed(d)
  /\ adding' = d
  /\ UNCHANGED <<devices, watching, prompt, typed, devId, printed, invalid>>

AddedPushes ==
  /\ Pushing
  /\ devices' = Append(devices, adding)
  /\ UNCHANGED <<adding, watching, prompt, typed, devId, printed, invalid>>

AddedPrints ==
  /\ adding # NoId /\ Listed(adding)
  /\ printed' = printed \cup {<<Len(devices), adding>>}
  /\ adding' = NoId
  /\ UNCHANGED <<devices, watching, prompt, typed, devId, invalid>>

(* The device keeps its place in the list.                                 *)
Removed_erases(d) ==
  /\ watching /\ adding = NoId
  /\ Listed(d)
  /\ devices' = SelectSeq(devices, LAMBDA e : e # d)
  /\ UNCHANGED <<adding, watching, prompt, typed, devId, printed, invalid>>

Removed(d) ==
  /\ watching /\ adding = NoId
  /\ \E i \in DOMAIN devices : devices[i] = d /\ invalid' = invalid \cup {i}
  /\ UNCHANGED <<devices, adding, watching, prompt, typed, devId, printed>>

Watcher ==
  \/ \E d \in Ids : AddedTests(d) \/ Removed(d)
  \/ AddedPushes \/ AddedPrints

-----------------------------------------------------------------------------
(* PromptUserForDevice, on the main thread.                                *)

StartsWatcher ==
  /\ prompt = "start"
  /\ watching' = TRUE
  /\ prompt' = "typing"
  /\ UNCHANGED <<devices, adding, typed, devId, printed, invalid>>

(* Anything but a number counts as 0.                                      *)
UserTypes(n) ==
  /\ prompt = "typing"
  /\ typed' = n
  /\ prompt' = "typed"
  /\ UNCHANGED <<devices, adding, watching, devId, printed, invalid>>

(* Stop does not wait for the callback under way.                          *)
StopsWatcher ==
  /\ prompt = "typed"
  /\ watching' = FALSE
  /\ prompt' = "read"
  /\ UNCHANGED <<devices, adding, typed, devId, printed, invalid>>

(* getline keeps the first digit of the number.                            *)
FirstDigit(n) ==
  IF n < Base THEN n
  ELSE CHOOSE d \in 1 .. Base - 1 :
         \E k \in 0 .. n : d * Base ^ k <= n /\ n < (d + 1) * Base ^ k

ReadsList ==
  LET i == FirstDigit(typed)
  IN  /\ prompt = "read"
      /\ devId' = IF i \in DOMAIN devices THEN devices[i] ELSE NoId
      /\ prompt' = "done"
      /\ UNCHANGED <<devices, adding, watching, typed, printed, invalid>>

(* Reading the vector while a callback moves it: an access violation.      *)
ReadsTornList ==
  /\ prompt = "read"
  /\ Pushing
  /\ prompt' = "crashed"
  /\ UNCHANGED <<devices, adding, watching, typed, devId, printed, invalid>>

PromptUserForDevice ==
  \/ StartsWatcher \/ StopsWatcher \/ ReadsList \/ ReadsTornList
  \/ \E n \in 0 .. MaxTyped : UserTypes(n)

-----------------------------------------------------------------------------
(* A printed number goes on denoting the device it was printed with, no    *)
(* device has two numbers, and a number of one digit selects its device,   *)
(* whatever appears and disappears while the user types.                   *)
NumbersAreKept ==
  /\ \A line \in printed :
       line[1] \in DOMAIN devices /\ devices[line[1]] = line[2]
  /\ \A i, j \in DOMAIN devices : devices[i] = devices[j] => i = j
  /\ prompt = "done" /\ devId # NoId /\ typed \in 1 .. Base - 1 =>
       devices[typed] = devId
=============================================================================
