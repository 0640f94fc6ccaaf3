------------------------------- MODULE Feed -------------------------------
(***************************************************************************)
(* The change feed and journal of a fleet (events.go).                     *)
(*                                                                         *)
(* Everything under events.mu is one step.  A subscription is a buffered   *)
(* channel, a place in events.subs while it is open, and a goroutine that  *)
(* waits for the caller's context or for the end of the channel, and only  *)
(* then takes events.mu: between the two another goroutine may have ended  *)
(* the same subscription.                                                  *)
(***************************************************************************)
EXTENDS Naturals, Sequences

CONSTANTS Subscribers,  \* Subscribe calls, each made at most once
          Changes,      \* what an event can say: its type, camera and fault
          Buffer,       \* subscriberBuffer
          MaxSeq        \* bound on the number of events published

ASSUME FeedAssumption == Buffer \in Nat \ {0} /\ MaxSeq \in Nat

VARIABLES seq,        \* events.seq
          journal,    \* events.journal
          subs,       \* events.subs
          feed,       \* "open", or "closed" once events.closed is set
          ch,         \* ch[s]: events buffered in s.ch
          ended,      \* ended[s]: how often s.end() has run (twice panics)
          cancelled,  \* subscribers whose context has ended
          watcher,    \* the goroutine of each subscription
          at,         \* at[s]: events.seq when s subscribed
          got         \* got[s]: Seq of the last event s received

vars == <<seq, journal, subs, feed, ch, ended, cancelled, watcher, at, got>>

Event == [seq : Nat, what : Changes]

(* idle: Subscribe not called; waiting: in the goroutine's select;         *)
(* woken: its context ended, it is about to take events.mu; gone: returned.*)
WatcherState == {"idle", "waiting", "woken", "gone"}

Init ==
  /\ seq = 0
  /\ journal = <<>>
  /\ subs = {}
  /\ feed = "open"
  /\ ch = [x \in Subscribers |-> <<>>]
  /\ ended = [x \in Subscribers |-> 0]
  /\ cancelled = {}
  /\ watcher = [x \in Subscribers |-> "idle"]
  /\ at = [x \in Subscribers |-> 0]
  /\ got = [x \in Subscribers |-> 0]

(* Take the subscribers S out of events.subs and close their channels.     *)
EndAll(S) ==
  /\ subs' = subs \ S
  /\ ended' = [x \in Subscribers |-> IF x \in S THEN ended[x] + 1 ELSE ended[x]]

(* publish: the next sequence number, a journal entry, and a send that     *)
(* never blocks; a subscriber with a full buffer is dropped instead.       *)
FullEarly == {s \in subs : Len(ch[s]) >= Buffer - 1}  \* mutant: off by one
Full == {s \in subs : Len(ch[s]) >= Buffer}

(* mutant: the event is numbered before the counter is stepped.            *)
PublishOldSeq(c) ==
  LET ev == [seq |-> seq, what |-> c]
  IN  /\ seq < MaxSeq
      /\ seq' = seq + 1
      /\ journal' = Append(journal, ev)
      /\ ch' = [x \in Subscribers |->
                  IF x \in subs \ Full THEN Append(ch[x], ev) ELSE ch[x]]
      /\ EndAll(Full)
      /\ UNCHANGED <<feed, cancelled, watcher, at, got>>

Publish(c) ==
  LET ev == [seq |-> seq + 1, what |-> c]
  IN  /\ seq < MaxSeq
      /\ seq' = seq + 1
      /\ journal' = Append(journal, ev)
      /\ ch' = [x \in Subscribers |->
                  IF x \in subs \ Full THEN Append(ch[x], ev) ELSE ch[x]]
      /\ EndAll(Full)
      /\ UNCHANGED <<feed, cancelled, watcher, at, got>>

(* mutant: Subscribe does not look at closed.                              *)
SubscribeAfterClose(s) ==
  /\ watcher[s] = "idle"
  /\ at' = [at EXCEPT ![s] = seq]
  /\ got' = [got EXCEPT ![s] = seq]
  /\ subs' = subs \cup {s}
  /\ watcher' = [watcher EXCEPT ![s] = "waiting"]
  /\ UNCHANGED <<seq, journal, feed, ch, ended, cancelled>>

(* Subscribe: an ended channel from a closed feed, else a registration and *)
(* its goroutine.                                                          *)
Subscribe(s) ==
  /\ watcher[s] = "idle"
  /\ at' = [at EXCEPT ![s] = seq]
  /\ got' = [got EXCEPT ![s] = seq]
  /\ \/ /\ feed = "closed"
        /\ ended' = [ended EXCEPT ![s] = @ + 1]
        /\ watcher' = [watcher EXCEPT ![s] = "gone"]
        /\ UNCHANGED subs
     \/ /\ feed = "open"
        /\ subs' = subs \cup {s}
        /\ watcher' = [watcher EXCEPT ![s] = "waiting"]
        /\ UNCHANGED ended
  /\ UNCHANGED <<seq, journal, feed, ch, cancelled>>

(* The caller's context ends, before or after the subscription does.       *)
Cancel(s) ==
  /\ s \notin cancelled
  /\ cancelled' = cancelled \cup {s}
  /\ UNCHANGED <<seq, journal, subs, feed, ch, ended, watcher, at, got>>

(* The goroutine's select: either ready case may be taken.                 *)
SeeContext(s) ==
  /\ watcher[s] = "waiting" /\ s \in cancelled
  /\ watcher' = [watcher EXCEPT ![s] = "woken"]
  /\ UNCHANGED <<seq, journal, subs, feed, ch, ended, cancelled, at, got>>

SeeDone(s) ==
  /\ watcher[s] = "waiting" /\ ended[s] > 0
  /\ watcher' = [watcher EXCEPT ![s] = "gone"]
  /\ UNCHANGED <<seq, journal, subs, feed, ch, ended, cancelled, at, got>>

(* mutant: the goroutine ends its subscription without looking for it.     *)
UnsubscribeUnchecked(s) ==
  /\ watcher[s] = "woken"
  /\ watcher' = [watcher EXCEPT ![s] = "gone"]
  /\ EndAll({s})
  /\ UNCHANGED <<seq, journal, feed, ch, cancelled, at, got>>

(* Its locked part: end the subscription unless someone already has.       *)
Unsubscribe(s) ==
  /\ watcher[s] = "woken"
  /\ watcher' = [watcher EXCEPT ![s] = "gone"]
  /\ EndAll({s} \cap subs)
  /\ UNCHANGED <<seq, journal, feed, ch, cancelled, at, got>>

CloseSubscribers ==
  /\ feed = "open"
  /\ feed' = "closed"
  /\ EndAll(subs)
  /\ UNCHANGED <<seq, journal, ch, cancelled, watcher, at, got>>

(* The caller receives from its channel, which still delivers what was     *)
(* buffered when it was closed.                                            *)
Receive(s) ==
  /\ ch[s] # <<>>
  /\ got' = [got EXCEPT ![s] = Head(ch[s]).seq]
  /\ ch' = [ch EXCEPT ![s] = Tail(@)]
  /\ UNCHANGED <<seq, journal, subs, feed, ended, cancelled, watcher, at>>

Watch(s) == SeeContext(s) \/ SeeDone(s) \/ Unsubscribe(s)

Next ==
  \/ \E c \in Changes : Publish(c)
  \/ CloseSubscribers
  \/ \E s \in Subscribers : Subscribe(s) \/ Cancel(s) \/ Watch(s) \/ Receive(s)

Spec == Init /\ [][Next]_vars

(* The Go scheduler runs every goroutine that can run, and sync.Mutex      *)
(* starves nobody, so a goroutine whose select has a ready case returns.   *)
FeedFair == \A s \in Subscribers : WF_vars(Watch(s))
-----------------------------------------------------------------------------
StateOK ==
  /\ seq \in Nat
  /\ subs \subseteq Subscribers
  /\ feed \in {"open", "closed"}
  /\ ended \in [Subscribers -> Nat]
  /\ cancelled \subseteq Subscribers
  /\ watcher \in [Subscribers -> WatcherState]
  /\ at \in [Subscribers -> Nat]
  /\ got \in [Subscribers -> Nat]

BuffersOK ==
  /\ journal \in Seq(Event)
  /\ ch \in [Subscribers -> Seq(Event)]
  /\ \A s \in Subscribers : Len(ch[s]) <= Buffer

(* The type of every variable; no buffer outgrows its channel.             *)
TypeOK == StateOK /\ BuffersOK

(* "end closes both channels exactly once" (events.go:53): a publish that  *)
(* drops, a close and a cancelled context may all reach one subscription,  *)
(* yet no channel is closed twice and none in events.subs, where publish   *)
(* sends, is closed at all; either would panic.                            *)
EndedOnce ==
  \A s \in Subscribers :
    /\ ended[s] <= 1
    /\ s \in subs <=> watcher[s] # "idle" /\ ended[s] = 0

(* What is buffered for a subscriber is, entry for entry, the journal from *)
(* the last event it received; while it is open the buffer reaches the end *)
(* of the journal.  So a subscriber that was not dropped has missed        *)
(* nothing, and one that was has an unbroken prefix (events.go:84-87).     *)
NoGap ==
  \A s \in Subscribers :
    /\ \A i \in 1 .. Len(ch[s]) :
         /\ got[s] + i <= Len(journal)
         /\ ch[s][i] = journal[got[s] + i]
    /\ s \in subs => got[s] + Len(ch[s]) = seq

(* A subscription ends for one of three reasons only: its context ended,   *)
(* the feed closed, or its buffer was full when an event was published     *)
(* (events.go:116-117).                                                    *)
DroppedForCause ==
  [][\A s \in subs \ subs' :
       \/ s \in cancelled
       \/ feed' = "closed"
       \/ seq' = seq + 1 /\ Len(ch[s]) = Buffer]_vars

(* "done lets the per-subscription goroutine exit even when its ctx never  *)
(* ends" (events.go:54-55), and a subscription ends when its context does: *)
(* after a close, whatever raced it, every goroutine returns, and so does  *)
(* every goroutine whose context ended, its channel closed.                *)
NoWatcherLeak ==
  \A s \in Subscribers :
    (feed = "closed" \/ s \in cancelled) /\ watcher[s] # "idle"
      ~> watcher[s] = "gone" /\ ended[s] = 1

Log == INSTANCE FeedLog WITH log <- journal, from <- at, upto <- got

(* The feed implements FeedLog: the journal is its log, and what a         *)
(* subscriber receives is the log, position by position, from where it     *)
(* joined, whatever publish, close and the goroutines do in between.       *)
FeedImplementsLog == Log!Spec
=============================================================================
