----------------------------- MODULE StylusFeed -----------------------------
(***************************************************************************)
(* What the socket server promises its clients, without threads, sockets   *)
(* or a mutex: a set of subscribers, each with the stream of samples       *)
(* published since it subscribed.  Publishing a sample appends it to every *)
(* stream in one step, so that all subscribers see the same samples in the *)
(* same order with none missing.                                           *)
(***************************************************************************)
EXTENDS Sequences

CONSTANTS
  Subscribers,  (* who may subscribe         *)
  Samples       (* what may be published     *)

VARIABLE feed   (* the stream of each current subscriber *)

Init == feed = [s \in {} |-> <<>>]

Subscribe(s) ==
  /\ s \notin DOMAIN feed
  /\ feed' = [r \in DOMAIN feed \cup {s} |-> IF r = s THEN <<>> ELSE feed[r]]

Publish(v) == feed' = [r \in DOMAIN feed |-> Append(feed[r], v)]

Leave(S) == feed' = [r \in DOMAIN feed \ S |-> feed[r]]

Next ==
  \/ \E s \in Subscribers : Subscribe(s)
  \/ \E v \in Samples : Publish(v)
  \/ \E S \in SUBSET Subscribers : Leave(S)

Spec == Init /\ [][Next]_feed
=============================================================================
