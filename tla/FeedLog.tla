------------------------------ MODULE FeedLog ------------------------------
(***************************************************************************)
(* What the change feed of a fleet promises, without saying how: one       *)
(* growing log of changes, and for every subscriber a window of            *)
(* consecutive positions of it, starting where the subscriber joined.      *)
(* A subscriber may stop anywhere; it never skips a position, never reads  *)
(* one twice and never reads one that is not there.                        *)
(***************************************************************************)
EXTENDS Naturals, Sequences

CONSTANTS Subscribers,  \* Subscribe calls
          Changes       \* what a change can say

VARIABLES log,    \* every change so far
          from,   \* from[s]: length of the log when s joined
          upto    \* upto[s]: last position s has read

Init ==
  /\ log = <<>>
  /\ from = [s \in Subscribers |-> 0]
  /\ upto = [s \in Subscribers |-> 0]

Record(c) ==
  /\ log' = Append(log, [seq |-> Len(log) + 1, what |-> c])
  /\ UNCHANGED <<from, upto>>

Join(s) ==
  /\ from' = [from EXCEPT ![s] = Len(log)]
  /\ upto' = [upto EXCEPT ![s] = Len(log)]
  /\ UNCHANGED log

ReadNext(s) ==
  /\ upto[s] < Len(log)
  /\ upto' = [upto EXCEPT ![s] = @ + 1]
  /\ UNCHANGED <<log, from>>

Next ==
  \/ \E c \in Changes : Record(c)
  \/ \E s \in Subscribers : Join(s) \/ ReadNext(s)

Spec == Init /\ [][Next]_<<log, from, upto>>
=============================================================================
