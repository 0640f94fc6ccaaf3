--------------------------- MODULE Watching_proofs ----------------------------
(***************************************************************************)
(* Those who look on are told the truth and cost what they should, for     *)
(* every number of subscribers, requests, events and buffers: the change   *)
(* feed, the pictures of the cameras, and the metrics of the host.         *)
(***************************************************************************)
EXTENDS Feed, Snapshots, Sampler, FiniteSetTheorems, TLAPS

(***************************************************************************)
(* The change feed: no subscriber misses an event or reads one twice, and  *)
(* each is ended exactly once.                                             *)
(***************************************************************************)
(* Append keeps the entries of a sequence and adds one at its end.         *)
LEMMA AppendFacts ==
  ASSUME NEW S, NEW q \in Seq(S), NEW e \in S
  PROVE  /\ Append(q, e) \in Seq(S)
         /\ Len(Append(q, e)) = Len(q) + 1
         /\ \A i \in 1 .. Len(q) : Append(q, e)[i] = q[i]
         /\ Append(q, e)[Len(q) + 1] = e
  OBVIOUS

(* Tail drops the first entry, the head, and shifts the others by one.     *)
LEMMA TailFacts ==
  ASSUME NEW S, NEW q \in Seq(S), q # <<>>
  PROVE  /\ Tail(q) \in Seq(S)
         /\ Len(Tail(q)) = Len(q) - 1
         /\ Len(q) \in Nat \ {0}
         /\ \A i \in 1 .. Len(q) - 1 : Tail(q)[i] = q[i + 1]
         /\ Head(q) = q[1]
         /\ Head(q) \in S
  OBVIOUS

(* Every variable of the feed keeps its type, and no buffer outgrows its   *)
(* channel.                                                                *)
THEOREM FeedTypeCorrect == Spec => []TypeOK
<1>1. Init => TypeOK
  <2>1. Init => StateOK BY DEF Init, StateOK, WatcherState
  <2>2. Init => BuffersOK BY FeedAssumption DEF Init, BuffersOK
  <2> QED BY <2>1, <2>2 DEF TypeOK
<1>2. TypeOK /\ [Next]_vars => TypeOK'
  <2> SUFFICES ASSUME StateOK, BuffersOK, [Next]_vars PROVE StateOK' /\ BuffersOK'
    BY DEF TypeOK
  <2>1. ASSUME NEW c \in Changes, Publish(c) PROVE StateOK' /\ BuffersOK'
    <3> DEFINE ev == [seq |-> seq + 1, what |-> c]
    <3>1. StateOK' BY <2>1 DEF StateOK, Publish, EndAll
    <3>2. ev \in Event BY DEF Event, StateOK
    <3>3. journal' \in Seq(Event)
      BY <2>1, <3>2, AppendFacts DEF Publish, BuffersOK
    <3>4. \A s \in Subscribers :
            ch'[s] \in Seq(Event) /\ Len(ch'[s]) <= Buffer
      <4> TAKE s \in Subscribers
      <4>1. CASE s \in subs \ Full
        <5>1. ch'[s] = Append(ch[s], ev) BY <2>1, <4>1 DEF Publish
        <5>2. ch[s] \in Seq(Event) /\ Len(ch[s]) < Buffer
          BY <4>1, FeedAssumption DEF Full, BuffersOK
        <5> QED BY <5>1, <5>2, <3>2, FeedAssumption, AppendFacts
      <4>2. CASE s \notin subs \ Full
        BY <2>1, <4>2 DEF Publish, BuffersOK
      <4> QED BY <4>1, <4>2
    <3>5. ch' \in [Subscribers -> Seq(Event)]
      BY <2>1, <3>4 DEF Publish
    <3> QED BY <3>1, <3>3, <3>4, <3>5 DEF BuffersOK
  <2>2. ASSUME NEW s \in Subscribers, Receive(s) PROVE StateOK' /\ BuffersOK'
    <3>1. /\ Tail(ch[s]) \in Seq(Event)
          /\ Len(Tail(ch[s])) = Len(ch[s]) - 1
          /\ Head(ch[s]) \in Event
      BY <2>2, TailFacts DEF Receive, BuffersOK
    <3>2. Head(ch[s]).seq \in Nat BY <3>1 DEF Event
    <3>3. StateOK' BY <2>2, <3>2 DEF Receive, StateOK
    <3>4. Len(Tail(ch[s])) <= Buffer
      BY <3>1, FeedAssumption DEF BuffersOK
    <3>5. BuffersOK' BY <2>2, <3>1, <3>4 DEF Receive, BuffersOK
    <3> QED BY <3>3, <3>5
  <2>3. ASSUME NEW s \in Subscribers, Subscribe(s) PROVE StateOK' /\ BuffersOK'
    <3>1. StateOK' BY <2>3 DEF Subscribe, StateOK, WatcherState
    <3>2. BuffersOK' BY <2>3 DEF Subscribe, BuffersOK
    <3> QED BY <3>1, <3>2
  <2>4. ASSUME NEW s \in Subscribers, Cancel(s) PROVE StateOK' /\ BuffersOK'
    BY <2>4 DEF Cancel, StateOK, BuffersOK
  <2>5. ASSUME NEW s \in Subscribers, Watch(s) PROVE StateOK' /\ BuffersOK'
    <3>1. StateOK'
      BY <2>5 DEF Watch, SeeContext, SeeDone, Unsubscribe, EndAll, StateOK,
                  WatcherState
    <3>2. BuffersOK'
      BY <2>5 DEF Watch, SeeContext, SeeDone, Unsubscribe, BuffersOK
    <3> QED BY <3>1, <3>2
  <2>6. CASE CloseSubscribers
    BY <2>6 DEF CloseSubscribers, EndAll, StateOK, BuffersOK
  <2>7. CASE UNCHANGED vars
    BY <2>7 DEF vars, StateOK, BuffersOK
  <2> QED BY <2>1, <2>2, <2>3, <2>4, <2>5, <2>6, <2>7 DEF Next
<1> QED BY <1>1, <1>2, PTL DEF Spec

(* EndedOnce is not inductive: a channel may be ended once more by         *)
(* Subscribe itself, so nothing may have ended it before.                  *)
EndedInv ==
  \A s \in Subscribers :
    /\ ended[s] <= 1
    /\ s \in subs <=> watcher[s] # "idle" /\ ended[s] = 0
    /\ watcher[s] = "idle" => ended[s] = 0

(* No channel of the feed is closed twice, and none is closed while        *)
(* publish may still send on it.                                           *)
THEOREM EndedExactlyOnce == Spec => []EndedOnce
<1>1. Init => EndedInv
  BY DEF Init, EndedInv
<1>2. StateOK /\ EndedInv /\ [Next]_vars => EndedInv'
  <2> SUFFICES ASSUME StateOK, EndedInv, [Next]_vars, NEW t \in Subscribers
               PROVE  /\ ended'[t] <= 1
                      /\ t \in subs' <=> watcher'[t] # "idle" /\ ended'[t] = 0
                      /\ watcher'[t] = "idle" => ended'[t] = 0
    BY DEF EndedInv
  <2> DEFINE Goal == /\ ended'[t] <= 1
                     /\ t \in subs' <=> watcher'[t] # "idle" /\ ended'[t] = 0
                     /\ watcher'[t] = "idle" => ended'[t] = 0
  <2>0. /\ ended[t] \in {0, 1}
        /\ t \in subs <=> watcher[t] # "idle" /\ ended[t] = 0
        /\ watcher[t] = "idle" => ended[t] = 0
        /\ DOMAIN ended = Subscribers /\ DOMAIN watcher = Subscribers
    BY DEF StateOK, EndedInv
  <2>a. ASSUME NEW S, EndAll(S)
        PROVE  /\ t \in subs' <=> t \in subs /\ t \notin S
               /\ t \in S => ended'[t] = ended[t] + 1
               /\ t \notin S => ended'[t] = ended[t]
    BY <2>a DEF EndAll
  <2>1. ASSUME NEW S \in SUBSET subs, EndAll(S), watcher' = watcher PROVE Goal
    BY <2>0, <2>a, <2>1
  <2>2. ASSUME NEW c \in Changes, Publish(c) PROVE Goal
    <3>1. Full \in SUBSET subs /\ EndAll(Full) /\ watcher' = watcher
      BY <2>2 DEF Publish, Full
    <3> QED BY <2>1, <3>1
  <2>3. CASE CloseSubscribers
    <3>1. subs \in SUBSET subs /\ EndAll(subs) /\ watcher' = watcher
      BY <2>3 DEF CloseSubscribers
    <3> QED BY <2>1, <3>1
  <2>4. ASSUME NEW s \in Subscribers, Subscribe(s) PROVE Goal
    <3>1. CASE t # s BY <2>0, <2>4, <3>1 DEF Subscribe
    <3>2. CASE t = s
      <4>1. watcher[t] = "idle" BY <2>4, <3>2 DEF Subscribe
      <4>2. CASE /\ ended' = [ended EXCEPT ![t] = ended[t] + 1]
                 /\ watcher' = [watcher EXCEPT ![t] = "gone"]
                 /\ subs' = subs
        BY <2>0, <4>1, <4>2
      <4>3. CASE /\ ended' = ended /\ subs' = subs \cup {t}
                 /\ watcher' = [watcher EXCEPT ![t] = "waiting"]
        BY <2>0, <4>1, <4>3
      <4> QED BY <2>4, <3>2, <4>2, <4>3 DEF Subscribe
    <3> QED BY <3>1, <3>2
  <2>5. ASSUME NEW s \in Subscribers, Watch(s) PROVE Goal
    <3>1. CASE SeeContext(s) \/ SeeDone(s)
      BY <2>0, <3>1 DEF SeeContext, SeeDone
    <3>2. CASE Unsubscribe(s)
      <4>1. /\ EndAll({s} \cap subs) /\ watcher[s] = "woken"
            /\ watcher' = [watcher EXCEPT ![s] = "gone"]
        BY <3>2 DEF Unsubscribe
      <4>2. (watcher'[t] = "idle" <=> watcher[t] = "idle") BY <2>0, <4>1
      <4> QED BY <2>0, <2>a, <4>1, <4>2
    <3> QED BY <2>5, <3>1, <3>2 DEF Watch
  <2>6. CASE \/ UNCHANGED vars
             \/ \E s \in Subscribers : Receive(s) \/ Cancel(s)
    <3>1. ended' = ended /\ subs' = subs /\ watcher' = watcher
      BY <2>6 DEF vars, Receive, Cancel
    <3> QED BY <2>0, <3>1
  <2> QED BY <2>2, <2>3, <2>4, <2>5, <2>6 DEF Next
<1>3. EndedInv => EndedOnce BY DEF EndedInv, EndedOnce
<1> QED BY <1>1, <1>2, <1>3, FeedTypeCorrect, PTL DEF Spec, TypeOK

Unused == \A s \in Subscribers : watcher[s] = "idle" => ch[s] = <<>>

(* Nothing is sent to a subscriber that has not subscribed.                *)
LEMMA NothingSentBeforeSubscribe == Spec => []Unused
<1>1. Init => Unused BY DEF Init, Unused
<1>2. StateOK /\ EndedOnce /\ Unused /\ [Next]_vars => Unused'
  <2> SUFFICES ASSUME StateOK, EndedOnce, Unused, [Next]_vars,
                      NEW t \in Subscribers, watcher'[t] = "idle"
               PROVE  ch'[t] = <<>>
    BY DEF Unused
  <2>0. watcher \in [Subscribers -> WatcherState] BY DEF StateOK
  <2>1. ASSUME NEW c \in Changes, Publish(c) PROVE ch'[t] = <<>>
    <3>1. watcher[t] = "idle" BY <2>1 DEF Publish
    <3>2. t \notin subs BY <3>1 DEF EndedOnce
    <3>3. ch'[t] = ch[t] BY <2>1, <3>2 DEF Publish
    <3> QED BY <3>1, <3>3 DEF Unused
  <2>2. ASSUME NEW s \in Subscribers, Receive(s) PROVE ch'[t] = <<>>
    <3>1. watcher[t] = "idle" /\ ch[s] # <<>> BY <2>2 DEF Receive
    <3>2. ch[t] = <<>> /\ t # s BY <3>1 DEF Unused
    <3>3. ch' = [ch EXCEPT ![s] = Tail(ch[s])] BY <2>2 DEF Receive
    <3> QED BY <3>2, <3>3
  <2>3. ASSUME NEW s \in Subscribers, Subscribe(s) PROVE ch'[t] = <<>>
    <3>1. ch' = ch /\ \E w \in {"gone", "waiting"} : watcher' = [watcher EXCEPT ![s] = w]
      BY <2>3 DEF Subscribe
    <3>2. watcher[t] = "idle" BY <3>1, <2>0
    <3> QED BY <3>1, <3>2 DEF Unused
  <2>4. ASSUME NEW s \in Subscribers, Watch(s) PROVE ch'[t] = <<>>
    <3>1. ch' = ch /\ \E w \in {"gone", "woken"} : watcher' = [watcher EXCEPT ![s] = w]
      BY <2>4 DEF Watch, SeeContext, SeeDone, Unsubscribe
    <3>2. watcher[t] = "idle" BY <3>1, <2>0
    <3> QED BY <3>1, <3>2 DEF Unused
  <2>5. CASE \/ \E s \in Subscribers : Cancel(s)
             \/ CloseSubscribers \/ UNCHANGED vars
    <3>1. ch' = ch /\ watcher' = watcher
      BY <2>5 DEF Cancel, CloseSubscribers, vars
    <3> QED BY <3>1 DEF Unused
  <2> QED BY <2>1, <2>2, <2>3, <2>4, <2>5 DEF Next
<1> QED BY <1>1, <1>2, FeedTypeCorrect, EndedExactlyOnce, PTL DEF Spec, TypeOK

Numbered ==
  /\ Len(journal) = seq
  /\ \A i \in 1 .. seq : journal[i].seq = i

(* The journal's numbers are its positions (events.go:93-96).              *)
LEMMA JournalNumbered == Spec => []Numbered
<1>1. Init => Numbered BY DEF Init, Numbered
<1>2. TypeOK /\ Numbered /\ [Next]_vars => Numbered'
  <2> SUFFICES ASSUME TypeOK, Numbered, [Next]_vars PROVE Numbered'
    OBVIOUS
  <2>1. ASSUME NEW c \in Changes, Publish(c) PROVE Numbered'
    <3> DEFINE ev == [seq |-> seq + 1, what |-> c]
    <3>1. seq \in Nat /\ seq' = seq + 1 /\ journal' = Append(journal, ev)
      BY <2>1 DEF Publish, TypeOK, StateOK
    <3>2. ev \in Event /\ ev.seq = seq + 1 BY <3>1 DEF Event
    <3>3. journal \in Seq(Event) BY DEF TypeOK, BuffersOK
    <3> HIDE DEF ev
    <3>4. /\ Len(journal') = Len(journal) + 1
          /\ \A i \in 1 .. Len(journal) : journal'[i] = journal[i]
          /\ journal'[Len(journal) + 1] = ev
      BY <3>1, <3>2, <3>3, AppendFacts
    <3> QED BY <3>1, <3>2, <3>4 DEF Numbered
  <2>2. CASE journal' = journal /\ seq' = seq
    BY <2>2 DEF Numbered
  <2> QED
    BY <2>1, <2>2 DEF Next, vars, Receive, Subscribe, Cancel, Watch, SeeContext,
       SeeDone, Unsubscribe, CloseSubscribers
<1> QED BY <1>1, <1>2, FeedTypeCorrect, PTL DEF Spec

(* NoGap in the form its proof needs, one subscriber at a time: what is    *)
(* buffered for s is the journal's next entries after g.                   *)
Follows(q, g) ==
  /\ g + Len(q) <= seq
  /\ \A i \in 1 .. Len(q) : q[i] = journal[g + i]

Contiguous ==
  \A s \in Subscribers :
    /\ Follows(ch[s], got[s])
    /\ s \in subs => got[s] + Len(ch[s]) = seq

(* Contiguous is inductive, given the lemmas above.                        *)
LEMMA ContiguousInv == Spec => []Contiguous
<1>1. Init => Contiguous BY DEF Init, Contiguous, Follows
<1>2. TypeOK /\ EndedOnce /\ Unused /\ Numbered /\ Contiguous /\ [Next]_vars
        => Contiguous'
  <2> SUFFICES ASSUME TypeOK, EndedOnce, Unused, Numbered, Contiguous, [Next]_vars,
                      NEW t \in Subscribers
               PROVE  /\ Follows(ch[t], got[t])'
                      /\ t \in subs' => got'[t] + Len(ch'[t]) = seq'
    BY DEF Contiguous
  <2>0. /\ seq \in Nat /\ Len(journal) = seq /\ got[t] \in Nat
        /\ ch[t] \in Seq(Event) /\ Len(ch[t]) \in Nat
    <3>1. seq \in Nat /\ got[t] \in Nat BY DEF TypeOK, StateOK
    <3>2. ch[t] \in Seq(Event) BY DEF TypeOK, BuffersOK
    <3> QED BY <3>1, <3>2 DEF Numbered
  <2>a. /\ got[t] + Len(ch[t]) <= seq
        /\ \A i \in 1 .. Len(ch[t]) : ch[t][i] = journal[got[t] + i]
        /\ t \in subs => got[t] + Len(ch[t]) = seq
    BY DEF Contiguous, Follows
  <2>1. ASSUME NEW c \in Changes, Publish(c)
        PROVE  /\ Follows(ch[t], got[t])'
               /\ t \in subs' => got'[t] + Len(ch'[t]) = seq'
    <3> DEFINE ev == [seq |-> seq + 1, what |-> c]
    <3>1. seq' = seq + 1 /\ got' = got /\ journal' = Append(journal, ev)
      BY <2>1 DEF Publish
    <3>2. ev \in Event BY <2>0 DEF Event
    <3>3. journal \in Seq(Event) BY DEF TypeOK, BuffersOK
    <3>4. CASE t \in subs \ Full
      <4>1. ch'[t] = Append(ch[t], ev) BY <2>1, <3>4 DEF Publish
      <4> HIDE DEF ev
      <4>2. /\ \A i \in 1 .. seq : journal'[i] = journal[i]
            /\ journal'[seq + 1] = ev
        BY <3>1, <3>2, <3>3, <2>0, AppendFacts
      <4>3. /\ Len(ch'[t]) = Len(ch[t]) + 1
            /\ \A i \in 1 .. Len(ch[t]) : ch'[t][i] = ch[t][i]
            /\ ch'[t][Len(ch[t]) + 1] = ev
        BY <4>1, <3>2, <2>0, AppendFacts
      <4>4. got[t] + Len(ch[t]) = seq BY <3>4, <2>a
      <4>5. ASSUME NEW i \in 1 .. Len(ch[t]) + 1
            PROVE  ch'[t][i] = journal'[got[t] + i]
        <5>1. CASE i \in 1 .. Len(ch[t])
          <6>1. got[t] + i \in 1 .. seq BY <5>1, <4>4, <2>0
          <6>2. ch[t][i] = journal[got[t] + i] BY <5>1, <2>a
          <6> QED BY <5>1, <6>1, <6>2, <4>2, <4>3
        <5>2. CASE i = Len(ch[t]) + 1
          <6>1. got[t] + i = seq + 1 BY <5>2, <4>4, <2>0
          <6> QED BY <5>2, <6>1, <4>2, <4>3
        <5> QED BY <5>1, <5>2, <2>0
      <4>6. got[t] + Len(ch'[t]) = seq + 1 BY <4>3, <4>4, <2>0
      <4>7. got'[t] + Len(ch'[t]) <= seq' BY <4>6, <3>1, <2>0
      <4>8. \A i \in 1 .. Len(ch'[t]) : ch'[t][i] = journal'[got'[t] + i]
        BY <4>3, <4>5, <3>1
      <4> QED BY <4>6, <4>7, <4>8, <3>1 DEF Follows
    <3>5. CASE t \notin subs \ Full
      <4>1. ch'[t] = ch[t] /\ t \notin subs'
        BY <2>1, <3>5 DEF Publish, EndAll
      <4> HIDE DEF ev
      <4>2. \A i \in 1 .. seq : journal'[i] = journal[i]
        BY <3>1, <3>2, <3>3, <2>0, AppendFacts
      <4>3. ASSUME NEW i \in 1 .. Len(ch[t])
            PROVE  ch[t][i] = journal'[got[t] + i]
        <5>1. got[t] + i \in 1 .. seq BY <2>a, <2>0
        <5> QED BY <5>1, <4>2, <2>a
      <4>4. got'[t] + Len(ch'[t]) <= seq' BY <4>1, <3>1, <2>a, <2>0
      <4> QED BY <4>1, <4>3, <4>4, <3>1 DEF Follows
    <3> QED BY <3>4, <3>5
  <2>2. ASSUME NEW s \in Subscribers, Receive(s)
        PROVE  /\ Follows(ch[t], got[t])'
               /\ t \in subs' => got'[t] + Len(ch'[t]) = seq'
    <3>1. /\ seq' = seq /\ journal' = journal /\ subs' = subs /\ ch[s] # <<>>
          /\ ch' = [ch EXCEPT ![s] = Tail(ch[s])]
          /\ got' = [got EXCEPT ![s] = Head(ch[s]).seq]
      BY <2>2 DEF Receive
    <3>2. DOMAIN ch = Subscribers /\ DOMAIN got = Subscribers
      BY DEF TypeOK, StateOK, BuffersOK
    <3>3. CASE t = s
      <4>1. /\ Len(Tail(ch[t])) = Len(ch[t]) - 1
            /\ Len(ch[t]) \in Nat \ {0}
            /\ \A i \in 1 .. Len(ch[t]) - 1 : Tail(ch[t])[i] = ch[t][i + 1]
            /\ Head(ch[t]) = ch[t][1]
        BY <3>1, <3>3, <2>0, TailFacts
      <4>2. ch'[t] = Tail(ch[t]) /\ got'[t] = Head(ch[t]).seq
        BY <3>1, <3>2, <3>3
      <4>3. Head(ch[t]).seq = got[t] + 1
        <5>1. 1 \in 1 .. Len(ch[t]) /\ got[t] + 1 \in 1 .. seq
          BY <4>1, <2>a, <2>0
        <5>2. ch[t][1] = journal[got[t] + 1] BY <5>1, <2>a
        <5> QED BY <4>1, <5>1, <5>2 DEF Numbered
      <4>4. ASSUME NEW i \in 1 .. Len(ch[t]) - 1
            PROVE  Tail(ch[t])[i] = journal[got[t] + 1 + i]
        <5>1. i + 1 \in 1 .. Len(ch[t]) /\ got[t] + (i + 1) = got[t] + 1 + i
          BY <4>1, <2>0
        <5>2. ch[t][i + 1] = journal[got[t] + (i + 1)] BY <5>1, <2>a
        <5> QED BY <5>1, <5>2, <4>1
      <4>5. got'[t] + Len(ch'[t]) = got[t] + Len(ch[t])
        BY <4>1, <4>2, <4>3, <2>0
      <4>6. \A i \in 1 .. Len(ch'[t]) : ch'[t][i] = journal[got'[t] + i]
        BY <4>1, <4>2, <4>3, <4>4
      <4> QED BY <4>5, <4>6, <3>1, <2>a DEF Follows
    <3>4. CASE t # s
      <4>1. ch'[t] = ch[t] /\ got'[t] = got[t] BY <3>1, <3>2, <3>4
      <4> QED BY <4>1, <3>1, <2>a DEF Follows
    <3> QED BY <3>3, <3>4
  <2>3. ASSUME NEW s \in Subscribers, Subscribe(s)
        PROVE  /\ Follows(ch[t], got[t])'
               /\ t \in subs' => got'[t] + Len(ch'[t]) = seq'
    <3>1. /\ ch' = ch /\ seq' = seq /\ journal' = journal
          /\ got' = [got EXCEPT ![s] = seq]
          /\ subs' \subseteq subs \cup {s} /\ watcher[s] = "idle"
      BY <2>3 DEF Subscribe
    <3>2. DOMAIN got = Subscribers BY DEF TypeOK, StateOK
    <3>3. CASE t = s
      <4>1. ch[t] = <<>> BY <3>1, <3>3 DEF Unused
      <4>2. Len(ch'[t]) = 0 /\ got'[t] = seq BY <4>1, <3>1, <3>2, <3>3
      <4> QED BY <4>2, <3>1, <2>0 DEF Follows
    <3>4. CASE t # s
      <4>1. got'[t] = got[t] /\ (t \in subs' => t \in subs)
        BY <3>1, <3>2, <3>4
      <4> QED BY <4>1, <3>1, <2>a DEF Follows
    <3> QED BY <3>3, <3>4
  <2>4. CASE /\ ch' = ch /\ got' = got /\ seq' = seq /\ journal' = journal
             /\ subs' \subseteq subs
    BY <2>4, <2>a DEF Follows
  <2> QED
    BY <2>1, <2>2, <2>3, <2>4 DEF Next, vars, Cancel, Watch, SeeContext, SeeDone,
       Unsubscribe, CloseSubscribers, EndAll
<1> QED
  BY <1>1, <1>2, FeedTypeCorrect, EndedExactlyOnce, NothingSentBeforeSubscribe,
     JournalNumbered, PTL DEF Spec

(* No subscriber misses an event: NoGap in every reachable state.          *)
THEOREM NoSubscriberMissesAnEvent == Spec => []NoGap
<1>1. TypeOK /\ Numbered /\ Contiguous => NoGap
  <2> SUFFICES ASSUME TypeOK, Numbered, Contiguous, NEW s \in Subscribers
               PROVE  /\ \A i \in 1 .. Len(ch[s]) :
                           /\ got[s] + i <= Len(journal)
                           /\ ch[s][i] = journal[got[s] + i]
                      /\ s \in subs => got[s] + Len(ch[s]) = seq
    BY DEF NoGap
  <2>1. /\ seq \in Nat /\ got[s] \in Nat BY DEF TypeOK, StateOK
  <2>2. Len(ch[s]) \in Nat BY DEF TypeOK, BuffersOK
  <2> QED BY <2>1, <2>2 DEF Contiguous, Follows, Numbered
<1> QED BY <1>1, FeedTypeCorrect, JournalNumbered, ContiguousInv, PTL

(* The feed implements FeedLog: Publish is Record, Subscribe is Join,      *)
(* Receive is ReadNext, and everything else stutters.                      *)
THEOREM FeedRefinesLog == Spec => FeedImplementsLog
<1>1. Init => Log!Init BY DEF Init, Log!Init
<1>2. TypeOK /\ Numbered /\ Contiguous /\ [Next]_vars
        => [Log!Next]_<<journal, at, got>>
  <2> SUFFICES ASSUME TypeOK, Numbered, Contiguous, [Next]_vars
               PROVE  Log!Next \/ UNCHANGED <<journal, at, got>>
    OBVIOUS
  <2>0. seq = Len(journal) BY DEF Numbered
  <2>1. ASSUME NEW c \in Changes, Publish(c) PROVE Log!Record(c)
    BY <2>0, <2>1 DEF Publish, Log!Record
  <2>2. ASSUME NEW s \in Subscribers, Receive(s) PROVE Log!ReadNext(s)
    <3>1. /\ UNCHANGED <<journal, at>> /\ ch[s] # <<>>
          /\ got' = [got EXCEPT ![s] = Head(ch[s]).seq]
      BY <2>2 DEF Receive
    <3>2. seq \in Nat /\ got[s] \in Nat /\ ch[s] \in Seq(Event)
      BY DEF TypeOK, StateOK, BuffersOK
    <3>3. Len(ch[s]) \in Nat \ {0} /\ Head(ch[s]) = ch[s][1]
      BY <3>1, <3>2, TailFacts
    <3>4. got[s] + 1 \in 1 .. seq /\ Head(ch[s]) = journal[got[s] + 1]
      <4>1. got[s] + Len(ch[s]) <= seq BY DEF Contiguous, Follows
      <4>2. 1 \in 1 .. Len(ch[s]) BY <3>3
      <4>3. ch[s][1] = journal[got[s] + 1] BY <4>2 DEF Contiguous, Follows
      <4> QED BY <4>1, <4>3, <3>2, <3>3
    <3>5. Head(ch[s]).seq = got[s] + 1 BY <3>4 DEF Numbered
    <3>6. got[s] < Len(journal) BY <2>0, <3>2, <3>4
    <3> QED BY <3>1, <3>5, <3>6 DEF Log!ReadNext
  <2>3. ASSUME NEW s \in Subscribers, Subscribe(s) PROVE Log!Join(s)
    BY <2>0, <2>3 DEF Subscribe, Log!Join
  <2>4. CASE UNCHANGED <<journal, at, got>>
    BY <2>4
  <2> QED
    BY <2>1, <2>2, <2>3, <2>4 DEF Next, Log!Next, vars, Cancel, Watch, SeeContext,
       SeeDone, Unsubscribe, CloseSubscribers
<1> QED
  BY <1>1, <1>2, FeedTypeCorrect, JournalNumbered, ContiguousInv, PTL
     DEF Spec, FeedImplementsLog, Log!Spec

(* A goroutine on its way to end its subscription saw its context end.     *)
WokenByContext == \A s \in Subscribers : watcher[s] = "woken" => s \in cancelled

LEMMA OnlyContextWakes == Spec => []WokenByContext
<1>1. Init => WokenByContext
  BY DEF Init, WokenByContext
<1>2. StateOK /\ WokenByContext /\ [Next]_vars => WokenByContext'
  <2> SUFFICES ASSUME StateOK, WokenByContext, [Next]_vars, NEW t \in Subscribers,
                      watcher'[t] = "woken"
               PROVE  t \in cancelled'
    BY DEF WokenByContext
  <2>0. watcher \in [Subscribers -> WatcherState]
    BY DEF StateOK
  <2>1. cancelled \subseteq cancelled'
    BY DEF Next, Publish, CloseSubscribers, Subscribe, Cancel, Watch, SeeContext, SeeDone,
           Unsubscribe, Receive, vars
  <2>2. ASSUME NEW s \in Subscribers, Watch(s)
        PROVE  watcher[t] = "woken" \/ t \in cancelled
    BY <2>0, <2>2 DEF Watch, SeeContext, SeeDone, Unsubscribe
  <2>3. ASSUME NEW s \in Subscribers, Subscribe(s)
        PROVE  watcher[t] = "woken"
    BY <2>0, <2>3 DEF Subscribe
  <2>4. watcher' = watcher \/ \E s \in Subscribers : Watch(s) \/ Subscribe(s)
    BY DEF Next, Publish, CloseSubscribers, Cancel, Receive, vars
  <2> QED BY <2>1, <2>2, <2>3, <2>4 DEF WokenByContext
<1> QED BY <1>1, <1>2, FeedTypeCorrect, PTL DEF Spec, TypeOK

(* A subscription ends only when its context did, when the feed closes, or *)
(* when its buffer is full as an event is published: never by accident, in *)
(* whatever order publish, close and its goroutine meet                    *)
(* (events.go:87-117).                                                     *)
THEOREM EndsForCause == Spec => DroppedForCause
<1> DEFINE Caused ==
             \A s \in subs \ subs' :
               \/ s \in cancelled
               \/ feed' = "closed"
               \/ seq' = seq + 1 /\ Len(ch[s]) = Buffer
<1>1. TypeOK /\ WokenByContext /\ [Next]_vars => [Caused]_vars
  <2> SUFFICES ASSUME TypeOK, WokenByContext, [Next]_vars, NEW s \in subs, s \notin subs'
               PROVE  \/ s \in cancelled
                      \/ feed' = "closed"
                      \/ seq' = seq + 1 /\ Len(ch[s]) = Buffer
    OBVIOUS
  <2>1. ASSUME NEW c \in Changes, Publish(c)
        PROVE  seq' = seq + 1 /\ Len(ch[s]) = Buffer
    <3>1. seq' = seq + 1 /\ s \in Full
      BY <2>1 DEF Publish, EndAll
    <3>2. s \in Subscribers /\ Len(ch[s]) <= Buffer /\ Len(ch[s]) \in Nat
      BY DEF TypeOK, StateOK, BuffersOK
    <3> QED BY <3>1, <3>2, FeedAssumption DEF Full, FeedAssumption
  <2>2. CASE CloseSubscribers
    BY <2>2 DEF CloseSubscribers
  <2>3. ASSUME NEW t \in Subscribers, Subscribe(t) \/ Cancel(t) \/ Receive(t)
        PROVE  FALSE
    BY <2>3 DEF Subscribe, Cancel, Receive
  <2>4. ASSUME NEW t \in Subscribers, Watch(t)
        PROVE  s \in cancelled
    BY <2>4 DEF Watch, SeeContext, SeeDone, Unsubscribe, EndAll, WokenByContext
  <2>5. CASE UNCHANGED vars
    BY <2>5 DEF vars
  <2> QED BY <2>1, <2>2, <2>3, <2>4, <2>5 DEF Next
<1>2. DroppedForCause <=> [][Caused]_vars
  BY DEF DroppedForCause
<1> HIDE DEF Caused
<1> QED BY <1>1, <1>2, FeedTypeCorrect, OnlyContextWakes, PTL DEF Spec

(***************************************************************************)
(* The pictures: captures are shared, and their slots kept.                *)
(***************************************************************************)
(* A handle lists a flight of its own, a flight is listed until it leaves  *)
(* the map, and a request waits for a flight of the handle it looked up.   *)
ListedOwn == \A c \in 1 .. MaxCams : flights[c] # 0 => flown[flights[c]].cam = c

(* A flight has a slot from its Acquire to its Release.                    *)
Holders == {f \in DOMAIN flown : flown[f].slot}
SlotByStage ==
  \A f \in DOMAIN flown : flown[f].slot <=> flown[f].stage \in {"capturing", "captured"}

SnapInv == SnapTypeOK /\ ListedOwn /\ SharedCapture /\ SlotByStage /\ SlotsKept

(* A goroutine of a flight changes that flight alone, and never its camera.*)
OnlyFlight(f) ==
  /\ f \in 1 .. Len(flown)
  /\ flown' \in Seq(Flight) /\ Len(flown') = Len(flown)
  /\ \A g \in 1 .. Len(flown) : flown'[g].cam = flown[g].cam
  /\ \A g \in 1 .. Len(flown) : g # f => flown'[g] = flown[g]

LEMMA ReplaceFacts ==
  ASSUME NEW S, NEW q \in Seq(S), NEW i \in 1 .. Len(q), NEW e \in S
  PROVE  /\ [q EXCEPT ![i] = e] \in Seq(S)
         /\ Len([q EXCEPT ![i] = e]) = Len(q)
         /\ [q EXCEPT ![i] = e][i] = e
         /\ \A j \in 1 .. Len(q) : j # i => [q EXCEPT ![i] = e][j] = q[j]
  OBVIOUS

(* The goroutine of a flight replaces its entry by one of the same camera. *)
LEMMA EntryReplaced ==
  ASSUME SnapTypeOK, NEW f \in 1 .. Len(flown), NEW e \in Flight,
         e.cam = flown[f].cam, flown' = [flown EXCEPT ![f] = e]
  PROVE  OnlyFlight(f) /\ flown'[f] = e
<1>1. flown \in Seq(Flight) BY DEF SnapTypeOK
<1> QED BY <1>1, ReplaceFacts DEF OnlyFlight

LEMMA RunsOneFlight ==
  ASSUME SnapTypeOK, NEW f \in 1 .. MaxFlights, Run(f)
  PROVE  OnlyFlight(f) /\ UNCHANGED <<cams, live, viewer>>
<1>0. flown \in Seq(Flight) /\ f \in 1 .. Len(flown) /\ flown[f] \in Flight
  <2>1. flown \in Seq(Flight) BY DEF SnapTypeOK
  <2>2. f \in DOMAIN flown
    BY DEF Run, Acquire, QueueTimeout, Captured, Release, Unlist, Done, InStage
  <2> QED BY <2>1, <2>2
<1>1. CASE Acquire(f)
  <2> DEFINE e == [flown[f] EXCEPT !.stage = "capturing", !.slot = TRUE]
  <2>1. e \in Flight /\ e.cam = flown[f].cam BY <1>0 DEF Flight
  <2>2. flown' = [flown EXCEPT ![f] = e] BY <1>0, <1>1 DEF Acquire
  <2> HIDE DEF e
  <2> QED BY <2>1, <2>2, <1>0, <1>1, EntryReplaced DEF Acquire
<1>2. CASE QueueTimeout(f)
  <2> DEFINE e == [flown[f] EXCEPT !.stage = "released", !.result = "error"]
  <2>1. e \in Flight /\ e.cam = flown[f].cam BY <1>0 DEF Flight
  <2>2. flown' = [flown EXCEPT ![f] = e] BY <1>0, <1>2 DEF QueueTimeout
  <2> HIDE DEF e
  <2> QED BY <2>1, <2>2, <1>0, <1>2, EntryReplaced DEF QueueTimeout
<1>3. ASSUME NEW r \in {"jpeg", "error", "panic"}, Captured(f, r)
      PROVE  OnlyFlight(f) /\ UNCHANGED <<cams, live, viewer>>
  <2> DEFINE e == [flown[f] EXCEPT !.stage = "captured", !.result = r]
  <2>1. e \in Flight /\ e.cam = flown[f].cam BY <1>0 DEF Flight
  <2>2. flown' = [flown EXCEPT ![f] = e] BY <1>0, <1>3 DEF Captured
  <2> HIDE DEF e
  <2> QED BY <2>1, <2>2, <1>0, <1>3, EntryReplaced DEF Captured
<1>4. CASE Release(f)
  <2> DEFINE res == IF flown[f].result = "panic" THEN "error" ELSE flown[f].result
             e == [flown[f] EXCEPT !.stage = "released", !.slot = FALSE, !.result = res]
  <2>1. e \in Flight /\ e.cam = flown[f].cam BY <1>0 DEF Flight
  <2>2. flown' = [flown EXCEPT ![f] = e] BY <1>0, <1>4 DEF Release
  <2> HIDE DEF e
  <2> QED BY <2>1, <2>2, <1>0, <1>4, EntryReplaced DEF Release
<1>5. CASE Unlist(f)
  <2> DEFINE e == [flown[f] EXCEPT !.stage = "unlisted"]
  <2>1. e \in Flight /\ e.cam = flown[f].cam BY <1>0 DEF Flight
  <2>2. flown' = [flown EXCEPT ![f] = e] BY <1>0, <1>5 DEF Unlist
  <2> HIDE DEF e
  <2> QED BY <2>1, <2>2, <1>0, <1>5, EntryReplaced DEF Unlist
<1>6. CASE Done(f)
  <2> DEFINE e == [flown[f] EXCEPT !.stage = "done"]
  <2>1. e \in Flight /\ e.cam = flown[f].cam BY <1>0 DEF Flight
  <2>2. flown' = [flown EXCEPT ![f] = e] BY <1>0, <1>6 DEF Done
  <2> HIDE DEF e
  <2> QED BY <2>1, <2>2, <1>0, <1>6, EntryReplaced DEF Done
<1> QED BY <1>1, <1>2, <1>3, <1>4, <1>5, <1>6 DEF Run

(* The types that the goroutine of a flight leaves alone.                  *)
LEMMA RunKeepsTypes ==
  ASSUME SnapTypeOK, NEW f, OnlyFlight(f), UNCHANGED <<cams, live, viewer>>,
         sem' \in 0 .. Slots, flights' \in [1 .. MaxCams -> 0 .. Len(flown)]
  PROVE  SnapTypeOK'
  BY DEF SnapTypeOK, OnlyFlight

LEMMA HoldersFinite ==
  ASSUME SnapTypeOK
  PROVE  IsFiniteSet(Holders) /\ DOMAIN flown = 1 .. Len(flown) /\ Len(flown) \in Nat
<1>1. DOMAIN flown = 1 .. Len(flown) /\ Len(flown) \in Nat BY DEF SnapTypeOK
<1>2. IsFiniteSet(1 .. Len(flown)) BY <1>1, FS_Interval
<1>3. Holders \subseteq 1 .. Len(flown) BY <1>1 DEF Holders
<1> QED BY <1>1, <1>2, <1>3, FS_Subset

(* What a step of a flight's goroutine does to its entry and to the map.   *)
LEMMA RunEffect ==
  ASSUME SnapInv, NEW f \in 1 .. MaxFlights, Run(f)
  PROVE  /\ ListedOwn' /\ SharedCapture' /\ SlotByStage'
         /\ flights' \in [1 .. MaxCams -> 0 .. Len(flown)]
<1>1. OnlyFlight(f) /\ UNCHANGED <<cams, live, viewer>>
  BY RunsOneFlight DEF SnapInv
<1>2. /\ flown \in Seq(Flight) /\ flown' \in Seq(Flight) /\ Len(flown') = Len(flown)
      /\ f \in 1 .. Len(flown) /\ flown[f] \in Flight
      /\ flights \in [1 .. MaxCams -> 0 .. Len(flown)]
  BY <1>1 DEF SnapInv, SnapTypeOK, OnlyFlight
<1>3. DOMAIN flown = 1 .. Len(flown) /\ DOMAIN flown' = 1 .. Len(flown)
  BY <1>2
<1>4. \A g \in 1 .. Len(flown) : flown'[g].cam = flown[g].cam /\ flown[g].cam \in 1 .. MaxCams
  <2> TAKE g \in 1 .. Len(flown)
  <2>1. flown[g] \in Flight BY <1>2
  <2>2. flown[g].cam \in 1 .. MaxCams BY <2>1 DEF Flight
  <2> QED BY <2>2, <1>1 DEF OnlyFlight
<1>5. \A g \in 1 .. Len(flown) : g # f => flown'[g] = flown[g]
  BY <1>1 DEF OnlyFlight
<1>6. SlotByStage'
  <2>1. flown'[f].slot <=> flown'[f].stage \in {"capturing", "captured"}
    <3>1. flown[f].slot <=> flown[f].stage \in {"capturing", "captured"}
      BY <1>2, <1>3 DEF SnapInv, SlotByStage
    <3>2. CASE Acquire(f) BY <1>2, <3>2 DEF Acquire, Flight
    <3>3. CASE QueueTimeout(f) BY <1>2, <3>1, <3>3 DEF QueueTimeout, InStage, Flight
    <3>4. ASSUME NEW r \in {"jpeg", "error", "panic"}, Captured(f, r)
          PROVE  flown'[f].slot <=> flown'[f].stage \in {"capturing", "captured"}
      BY <1>2, <3>1, <3>4 DEF Captured, InStage, Flight
    <3>5. CASE Release(f) BY <1>2, <3>5 DEF Release, Flight
    <3>6. CASE Unlist(f) BY <1>2, <3>1, <3>6 DEF Unlist, InStage, Flight
    <3>7. CASE Done(f) BY <1>2, <3>1, <3>7 DEF Done, InStage, Flight
    <3> QED BY <3>2, <3>3, <3>4, <3>5, <3>6, <3>7 DEF Run
  <2> QED BY <2>1, <1>3, <1>5 DEF SnapInv, SlotByStage
<1>7. \A v \in Viewers : viewer'[v].pc = "wait" => flown'[viewer'[v].flight].cam = viewer'[v].cam
  <2> SUFFICES ASSUME NEW v \in Viewers, viewer[v].pc = "wait"
               PROVE  flown'[viewer[v].flight].cam = viewer[v].cam
    BY <1>1
  <2>1. viewer[v].flight \in 1 .. Len(flown) BY <1>2 DEF SnapInv, SnapTypeOK
  <2> QED BY <2>1, <1>4 DEF SnapInv, SharedCapture
<1>8. CASE Unlist(f)
  <2>1. flights' = [flights EXCEPT ![flown[f].cam] = 0] BY <1>8 DEF Unlist
  <2>2. flown[f].stage = "released" /\ flown'[f].stage = "unlisted"
    BY <1>8, <1>2 DEF Unlist, InStage, Flight
  <2>3. flights[flown[f].cam] = f BY <2>2, <1>2, <1>3 DEF SnapInv, SharedCapture
  <2>4. flights' \in [1 .. MaxCams -> 0 .. Len(flown)] BY <2>1, <1>2, <1>4
  <2>5. ListedOwn' BY <2>1, <1>2, <1>4 DEF SnapInv, ListedOwn
  <2>6. \A g \in DOMAIN flown' :
          flights'[flown'[g].cam] = g <=> flown'[g].stage \notin {"unlisted", "done"}
    <3> SUFFICES ASSUME NEW g \in 1 .. Len(flown)
                 PROVE  flights'[flown[g].cam] = g <=> flown'[g].stage \notin {"unlisted", "done"}
      BY <1>3, <1>4
    <3>1. CASE g = f BY <3>1, <2>1, <2>2, <1>2, <1>4
    <3>2. CASE g # f /\ flown[g].cam = flown[f].cam
      BY <3>2, <2>1, <2>3, <1>2, <1>3, <1>4, <1>5 DEF SnapInv, SharedCapture
    <3>3. CASE g # f /\ flown[g].cam # flown[f].cam
      BY <3>3, <2>1, <1>2, <1>3, <1>4, <1>5 DEF SnapInv, SharedCapture
    <3> QED BY <3>1, <3>2, <3>3
  <2> QED BY <2>4, <2>5, <2>6, <1>6, <1>7 DEF SharedCapture
<1>9. CASE ~Unlist(f)
  <2>1. flights' = flights
    BY <1>9 DEF Run, Acquire, QueueTimeout, Captured, Release, Done
  <2>2. flown'[f].stage \in {"unlisted", "done"} <=> flown[f].stage \in {"unlisted", "done"}
    <3>2. CASE Acquire(f) BY <1>2, <3>2 DEF Acquire, InStage, Flight
    <3>3. CASE QueueTimeout(f) BY <1>2, <3>3 DEF QueueTimeout, InStage, Flight
    <3>4. ASSUME NEW r \in {"jpeg", "error", "panic"}, Captured(f, r)
          PROVE  flown'[f].stage \in {"unlisted", "done"} <=> flown[f].stage \in {"unlisted", "done"}
      BY <1>2, <3>4 DEF Captured, InStage, Flight
    <3>5. CASE Release(f) BY <1>2, <3>5 DEF Release, InStage, Flight
    <3>7. CASE Done(f) BY <1>2, <3>7 DEF Done, InStage, Flight
    <3> QED BY <3>2, <3>3, <3>4, <3>5, <3>7, <1>9 DEF Run
  <2>3. ListedOwn' BY <2>1, <1>2, <1>4 DEF SnapInv, ListedOwn
  <2>4. \A g \in DOMAIN flown' :
          flights'[flown'[g].cam] = g <=> flown'[g].stage \notin {"unlisted", "done"}
    BY <2>1, <2>2, <1>3, <1>4, <1>5 DEF SnapInv, SharedCapture
  <2> QED BY <2>1, <2>3, <2>4, <1>2, <1>6, <1>7 DEF SharedCapture
<1> QED BY <1>8, <1>9

(* The semaphore follows the flights that have a slot.                     *)
LEMMA RunKeepsSlots ==
  ASSUME SnapInv, NEW f \in 1 .. MaxFlights, Run(f)
  PROVE  SlotsKept' /\ sem' \in 0 .. Slots
<1>1. OnlyFlight(f) BY RunsOneFlight DEF SnapInv
<1>2. /\ flown \in Seq(Flight) /\ flown' \in Seq(Flight) /\ Len(flown') = Len(flown)
      /\ f \in 1 .. Len(flown) /\ flown[f] \in Flight /\ Slots \in Nat
      /\ sem \in 0 .. Slots /\ sem = Cardinality(Holders)
  BY <1>1, SnapAssumption DEF SnapInv, SnapTypeOK, OnlyFlight, SlotsKept, Holders
<1>3. DOMAIN flown = 1 .. Len(flown) /\ DOMAIN flown' = 1 .. Len(flown)
  BY <1>2
<1>4. IsFiniteSet(Holders) BY HoldersFinite DEF SnapInv
<1>5. \A g \in 1 .. Len(flown) : g # f => flown'[g] = flown[g]
  BY <1>1 DEF OnlyFlight
<1>6. flown[f].slot <=> flown[f].stage \in {"capturing", "captured"}
  BY <1>2, <1>3 DEF SnapInv, SlotByStage
<1>7. CASE Acquire(f)
  <2>1. ~flown[f].slot /\ flown'[f].slot BY <1>2, <1>6, <1>7 DEF Acquire, InStage, Flight
  <2>2. Holders' = Holders \cup {f} /\ f \notin Holders
    BY <2>1, <1>2, <1>3, <1>5 DEF Holders
  <2>3. Cardinality(Holders') = Cardinality(Holders) + 1
    BY <2>2, <1>4, FS_AddElement
  <2> QED BY <2>3, <1>2, <1>7 DEF Acquire, SlotsKept, Holders
<1>8. CASE Release(f)
  <2>1. flown[f].slot /\ ~flown'[f].slot BY <1>2, <1>6, <1>8 DEF Release, InStage, Flight
  <2>2. Holders' = Holders \ {f} /\ f \in Holders
    BY <2>1, <1>2, <1>3, <1>5 DEF Holders
  <2>3. Cardinality(Holders') = Cardinality(Holders) - 1 /\ Cardinality(Holders') \in Nat
    BY <2>2, <1>4, FS_RemoveElement, FS_Subset, FS_CardinalityType
  <2> QED BY <2>3, <1>2, <1>8 DEF Release, SlotsKept, Holders
<1>9. CASE ~Acquire(f) /\ ~Release(f)
  <2>1. sem' = sem BY <1>9 DEF Run, QueueTimeout, Captured, Unlist, Done
  <2>2. flown'[f].slot = flown[f].slot
    BY <1>2, <1>9 DEF Run, QueueTimeout, Captured, Unlist, Done, Flight
  <2>3. Holders' = Holders BY <2>2, <1>2, <1>3, <1>5 DEF Holders
  <2>4. Cardinality(Holders') = Cardinality(Holders) BY <2>3
  <2>5. sem' = Cardinality(Holders') /\ sem' \in 0 .. Slots /\ sem' <= Slots
    BY <2>1, <2>4, <1>2
  <2> QED BY <2>5 DEF SlotsKept, Holders
<1> QED BY <1>7, <1>8, <1>9

(* A request joins the flight of its handle, or launches the only one.     *)
LEMMA JoinKeeps ==
  ASSUME SnapInv, NEW v \in Viewers, Join(v)
  PROVE  SnapInv'
<1> DEFINE c == viewer[v].cam
           n == [cam |-> c, stage |-> "queued", slot |-> FALSE, result |-> "none"]
<1>1. /\ flown \in Seq(Flight) /\ Len(flown) \in Nat /\ DOMAIN flown = 1 .. Len(flown)
      /\ Len(flown) <= MaxFlights /\ MaxFlights \in Nat
      /\ flights \in [1 .. MaxCams -> 0 .. Len(flown)]
      /\ c \in 1 .. MaxCams /\ n \in Flight
  <2>1. flown \in Seq(Flight) /\ MaxFlights \in Nat /\ MaxCams \in Nat
    BY SnapAssumption DEF SnapInv, SnapTypeOK
  <2>2. c \in 1 .. MaxCams BY <2>1 DEF SnapInv, SnapTypeOK, Join
  <2>3. n \in Flight BY <2>2 DEF Flight
  <2> HIDE DEF n, c
  <2> QED BY <2>1, <2>2, <2>3 DEF SnapInv, SnapTypeOK
<1>2. UNCHANGED <<cams, live, sem>> BY DEF Join
<1>3. CASE flights[c] # 0
  <2>1. /\ flown' = flown /\ viewer' = [viewer EXCEPT ![v].pc = "wait", ![v].flight = flights[c]]
        /\ flights' = flights
    BY <1>1, <1>3 DEF Join, Listed
  <2>2. flights[c] \in 1 .. Len(flown) BY <1>1, <1>3
  <2>3. SnapTypeOK'
    <3>1. viewer' \in [Viewers -> [pc : {"idle", "get", "wait"}, cam : 0 .. MaxCams,
                                 flight : 0 .. Len(flown)]]
      BY <1>1, <2>1, <2>2 DEF SnapInv, SnapTypeOK
    <3>2. \A w \in Viewers : /\ viewer'[w].pc # "idle" => viewer'[w].cam # 0
                             /\ viewer'[w].pc = "wait" => viewer'[w].flight # 0
      BY <1>1, <2>1, <2>2 DEF SnapInv, SnapTypeOK
    <3> QED BY <1>2, <2>1, <3>1, <3>2 DEF SnapInv, SnapTypeOK
  <2>4. flown[flights[c]].cam = c BY <1>1, <1>3 DEF SnapInv, ListedOwn
  <2>5. SharedCapture' BY <2>1, <2>4 DEF SnapInv, SnapTypeOK, SharedCapture
  <2> QED BY <1>2, <2>1, <2>3, <2>5 DEF SnapInv, ListedOwn, SlotByStage, SlotsKept
<1>4. CASE flights[c] = 0
  <2> DEFINE f == Len(flown) + 1
  <2>1. /\ f <= MaxFlights /\ flown' = Append(flown, n)
        /\ viewer' = [viewer EXCEPT ![v].pc = "wait", ![v].flight = f]
        /\ flights' = [flights EXCEPT ![c] = f]
    BY <1>1, <1>4 DEF Join, Listed
  <2>2. /\ flown' \in Seq(Flight) /\ Len(flown') = f /\ DOMAIN flown' = 1 .. f
        /\ flown'[f] = n /\ \A g \in 1 .. Len(flown) : flown'[g] = flown[g]
    <3> HIDE DEF n
    <3> QED BY <1>1, <2>1
  <2>3. flights' \in [1 .. MaxCams -> 0 .. f] BY <1>1, <2>1
  <2>4. SnapTypeOK'
    <3>1. viewer' \in [Viewers -> [pc : {"idle", "get", "wait"}, cam : 0 .. MaxCams, flight : 0 .. f]]
      BY <1>1, <2>1 DEF SnapInv, SnapTypeOK
    <3>2. \A w \in Viewers : /\ viewer'[w].pc # "idle" => viewer'[w].cam # 0
                             /\ viewer'[w].pc = "wait" => viewer'[w].flight # 0
      BY <1>1, <2>1 DEF SnapInv, SnapTypeOK
    <3> QED BY <1>2, <2>1, <2>2, <2>3, <3>1, <3>2 DEF SnapInv, SnapTypeOK
  <2>5. ListedOwn'
    <3> SUFFICES ASSUME NEW d \in 1 .. MaxCams, flights'[d] # 0 PROVE flown'[flights'[d]].cam = d
      BY DEF ListedOwn
    <3>1. CASE d = c BY <1>1, <2>1, <2>2, <3>1
    <3>2. CASE d # c
      <4>1. flights'[d] = flights[d] /\ flights[d] \in 1 .. Len(flown) BY <1>1, <2>1, <3>2
      <4> QED BY <4>1, <2>2 DEF SnapInv, ListedOwn
    <3> QED BY <3>1, <3>2
  <2>6. SharedCapture'
    <3>1. ASSUME NEW w \in Viewers, viewer'[w].pc = "wait"
          PROVE  flown'[viewer'[w].flight].cam = viewer'[w].cam
      <4>1. CASE w = v
        <5>1. viewer'[v].flight = f /\ viewer'[v].cam = c
          BY <2>1 DEF SnapInv, SnapTypeOK
        <5> QED BY <4>1, <5>1, <2>2
      <4>2. CASE w # v
        <5>1. viewer'[w] = viewer[w] BY <2>1, <4>2 DEF SnapInv, SnapTypeOK
        <5>2. viewer[w].flight \in 1 .. Len(flown)
          BY <1>1, <3>1, <5>1 DEF SnapInv, SnapTypeOK
        <5> QED BY <3>1, <5>1, <5>2, <2>2 DEF SnapInv, SharedCapture
      <4> QED BY <4>1, <4>2
    <3>2. ASSUME NEW g \in 1 .. f
          PROVE  flights'[flown'[g].cam] = g <=> flown'[g].stage \notin {"unlisted", "done"}
      <4>1. CASE g = f BY <1>1, <2>1, <2>2, <4>1
      <4>2. CASE g # f
        <5>1. g \in 1 .. Len(flown) /\ flown'[g] = flown[g] /\ flown[g].cam \in 1 .. MaxCams
          <6>1. g \in 1 .. Len(flown) BY <1>1, <4>2
          <6>2. flown[g] \in Flight BY <1>1, <6>1
          <6>3. flown[g].cam \in 1 .. MaxCams BY <6>2 DEF Flight
          <6> QED BY <2>2, <6>1, <6>3
        <5>2. flights[flown[g].cam] = g <=> flown[g].stage \notin {"unlisted", "done"}
          BY <1>1, <5>1 DEF SnapInv, SharedCapture
        <5>3. CASE flown[g].cam = c BY <1>1, <1>4, <2>1, <5>1, <5>2, <5>3, <4>2
        <5>4. CASE flown[g].cam # c BY <1>1, <2>1, <5>1, <5>2, <5>4
        <5> QED BY <5>3, <5>4
      <4> QED BY <4>1, <4>2
    <3> QED BY <3>1, <3>2, <2>2 DEF SharedCapture
  <2>7. SlotByStage' BY <1>1, <2>2 DEF SnapInv, SlotByStage
  <2>8. Holders' = Holders BY <1>1, <2>2 DEF Holders
  <2> QED BY <1>2, <2>4, <2>5, <2>6, <2>7, <2>8 DEF SnapInv, SlotsKept, Holders
<1> QED BY <1>3, <1>4

LEMMA SnapInductive == SnapInv /\ [SnapNext]_snapVars => SnapInv'
<1> SUFFICES ASSUME SnapInv, [SnapNext]_snapVars PROVE SnapInv'
  OBVIOUS
<1>0. MaxCams \in Nat /\ cams \in Seq(Ids) /\ Len(cams) \in Nat
  BY SnapAssumption DEF SnapInv, SnapTypeOK
<1>1. ASSUME NEW i \in Ids, AddCam(i) PROVE SnapInv'
  <2>1. Len(cams') = Len(cams) + 1 /\ cams' \in Seq(Ids) /\ Len(cams') <= MaxCams
    BY <1>0, <1>1 DEF AddCam
  <2>2. live' \in [Ids -> 0 .. Len(cams')]
    BY <1>0, <1>1, <2>1 DEF AddCam, SnapInv, SnapTypeOK
  <2>3. SnapTypeOK' BY <1>1, <2>1, <2>2 DEF AddCam, SnapInv, SnapTypeOK
  <2> QED BY <2>3, <1>1
       DEF AddCam, SnapInv, ListedOwn, SharedCapture, SlotByStage, SlotsKept
<1>2. ASSUME NEW i \in Ids, RemoveCam(i) PROVE SnapInv'
  <2>1. SnapTypeOK' BY <1>0, <1>2 DEF RemoveCam, SnapInv, SnapTypeOK
  <2> QED BY <2>1, <1>2
       DEF RemoveCam, SnapInv, ListedOwn, SharedCapture, SlotByStage, SlotsKept
<1>3. ASSUME NEW v \in Viewers, NEW i \in Ids, Look(v, i) PROVE SnapInv'
  <2>1. live[i] \in 1 .. MaxCams BY <1>0, <1>3 DEF Look, SnapInv, SnapTypeOK
  <2>2. SnapTypeOK'
    BY <1>3, <2>1 DEF Look, SnapInv, SnapTypeOK
  <2>3. SharedCapture' BY <1>3 DEF Look, SnapInv, SnapTypeOK, SharedCapture
  <2> QED BY <2>2, <2>3, <1>3
       DEF Look, SnapInv, ListedOwn, SlotByStage, SlotsKept
<1>4. ASSUME NEW v \in Viewers, Join(v) PROVE SnapInv'
  BY <1>4, JoinKeeps
<1>5. ASSUME NEW v \in Viewers, Answer(v) \/ GiveUp(v) PROVE SnapInv'
  <2>0. viewer' = [viewer EXCEPT ![v] = Away] /\ UNCHANGED <<cams, live, flights, flown, sem>>
    BY <1>5 DEF Answer, GiveUp
  <2>1. SnapTypeOK' BY <1>0, <2>0 DEF Away, SnapInv, SnapTypeOK
  <2>2. SharedCapture' BY <2>0 DEF Away, SnapInv, SnapTypeOK, SharedCapture
  <2> QED BY <2>0, <2>1, <2>2 DEF SnapInv, ListedOwn, SlotByStage, SlotsKept
<1>6. ASSUME NEW f \in 1 .. MaxFlights, Run(f) PROVE SnapInv'
  <2>1. SnapTypeOK BY DEF SnapInv
  <2>2. OnlyFlight(f) /\ UNCHANGED <<cams, live, viewer>> BY <1>6, <2>1, RunsOneFlight
  <2>3. SlotsKept' /\ sem' \in 0 .. Slots BY <1>6, RunKeepsSlots
  <2>4. /\ ListedOwn' /\ SharedCapture' /\ SlotByStage'
        /\ flights' \in [1 .. MaxCams -> 0 .. Len(flown)]
    BY <1>6, RunEffect
  <2>5. SnapTypeOK' BY <2>1, <2>2, <2>3, <2>4, RunKeepsTypes
  <2> QED BY <2>3, <2>4, <2>5 DEF SnapInv
<1>7. CASE UNCHANGED snapVars
  BY <1>7 DEF snapVars, SnapInv, SnapTypeOK, ListedOwn, SharedCapture, SlotByStage, SlotsKept
<1> QED BY <1>1, <1>2, <1>3, <1>4, <1>5, <1>6, <1>7 DEF SnapNext

LEMMA SnapStarts == SnapInit => SnapInv
<1> SUFFICES ASSUME SnapInit PROVE SnapInv
  OBVIOUS
<1>1. SnapTypeOK BY SnapAssumption DEF SnapInit, SnapTypeOK, Away
<1>2. Holders = {} BY DEF SnapInit, Holders
<1>3. SlotsKept BY <1>2, SnapAssumption, FS_EmptySet DEF SnapInit, SlotsKept, Holders
<1>4. ListedOwn /\ SharedCapture /\ SlotByStage
  BY DEF SnapInit, ListedOwn, SharedCapture, SlotByStage, Away
<1> QED BY <1>1, <1>3, <1>4 DEF SnapInv

LEMMA SnapAlways == SnapSpec => []SnapInv
  BY SnapStarts, SnapInductive, PTL DEF SnapSpec

(* Every request waits for a capture of the camera it looked up, and a     *)
(* camera has one capture at work at most: the one the map lists.          *)
THEOREM CapturesAreShared == SnapSpec => []SharedCapture
<1>1. SnapInv => SharedCapture BY DEF SnapInv
<1> QED BY <1>1, SnapAlways, PTL

(* No slot is lost and no more are in use than there are, whatever becomes *)
(* of the captures.                                                        *)
THEOREM SlotsAreKept == SnapSpec => []SlotsKept
<1>1. SnapInv => SlotsKept BY DEF SnapInv
<1> QED BY <1>1, SnapAlways, PTL


(***************************************************************************)
(* The metrics: the GPU is read once at a time, and the subscribers and    *)
(* goroutines of the sampler end as they should.                           *)
(***************************************************************************)
Running == {i \in DOMAIN readings : readings[i] = "running"}

(* No two readings run, and one does while it is marked to be in flight.   *)
(* Before the first one has ended there is no second.                      *)
Readings ==
  /\ gpu.inflight <=> Running # {}
  /\ \A i, j \in Running : i = j
  /\ ~gpu.have => \/ readings = <<>>
                  \/ Len(readings) = 1 /\ gpu.inflight
FirstAwaited == \A t \in Askers : Stands(t, "wait") => thread[t].wait = 1

(* A channel has ended at most once, and not while its subscriber is in    *)
(* the map; there is none in the map of a closed sampler.                  *)
Channels == \A w \in Watchers : ends[w] <= 1 /\ (w \in listeners => ends[w] = 0)
NoneListed == samplerClosed => listeners = {}

(* Nothing is left once Close has returned.                                *)
AllOver ==
  closer = "returned" =>
    /\ \A i \in DOMAIN readings : readings[i] = "ended"
    /\ watching = {} /\ Stands(Ticker, "exited")

SamplerInv == SamplerTypeOK /\ Readings /\ FirstAwaited /\ Channels /\ NoneListed /\ AllOver

LEMMA Numbers ==
  /\ Ticker \notin Askers /\ Ticker \in Threads /\ Askers \subseteq Threads
  /\ FreshFor \in Nat /\ IdleAfter \in Nat /\ GpuRetry \in Nat /\ MaxClock \in Nat
  /\ MaxReadings \in Nat /\ ChanSize \in Nat \ {0}
  BY SamplerAssumption DEF Threads

LEMMA SequenceFacts ==
  ASSUME NEW S, NEW q \in Seq(S), NEW e \in S
  PROVE  /\ DOMAIN q = 1 .. Len(q) /\ Len(q) \in Nat
         /\ Append(q, e) \in Seq(S) /\ Len(Append(q, e)) = Len(q) + 1
         /\ DOMAIN Append(q, e) = 1 .. Len(q) + 1
         /\ \A i \in 1 .. Len(q) : Append(q, e)[i] = q[i]
         /\ Append(q, e)[Len(q) + 1] = e
         /\ \A i \in 1 .. Len(q) : /\ [q EXCEPT ![i] = e] \in Seq(S)
                                   /\ Len([q EXCEPT ![i] = e]) = Len(q)
                                   /\ DOMAIN [q EXCEPT ![i] = e] = 1 .. Len(q)
         /\ q # <<>> => Tail(q) \in Seq(S) /\ Len(Tail(q)) = Len(q) - 1
  OBVIOUS

(***************************************************************************)
(* The ticker, Current and a sample, but for the GPU.                      *)
(***************************************************************************)
(* Moving a thread that is not the ticker at its end, and not to a wait.   *)
LEMMA Moves ==
  ASSUME SamplerInv, NEW t \in Threads, ~Stands(t, "exited"), NEW s \in ThreadState,
         s.pc # "wait", thread' = [thread EXCEPT ![t] = s]
  PROVE  /\ thread' \in [Threads -> ThreadState]
         /\ \A u \in Askers : Stands(u, "wait")' => thread'[u].wait = 1
         /\ Stands(Ticker, "exited") => Stands(Ticker, "exited")'
  BY Numbers DEF SamplerInv, SamplerTypeOK, FirstAwaited, Stands

LEMMA Threads1 ==
  ASSUME SamplerInv, NEW t \in Threads,
         \/ t = Ticker /\ (Tick \/ TickerExits)
         \/ t \in Askers /\ (Current(t) \/ Ask(t) \/ WaitAbandoned(t))
         \/ Count(t) \/ ReadingAwaited(t) \/ Store(t)
  PROVE  SamplerInv'
<1>1. /\ thread[t] \in ThreadState /\ clock \in Nat /\ latest \in Nat /\ wanted \in Nat
      /\ thread \in [Threads -> ThreadState] /\ IdleAfter \in Nat
  BY Numbers DEF SamplerInv, SamplerTypeOK
<1>2. PICK s \in ThreadState : s.pc # "wait" /\ thread' = [thread EXCEPT ![t] = s]
  <2> DEFINE moved(pc) == [thread[t] EXCEPT !.pc = pc]
             labels == {"idle", "ask", "count", "gpu", "store", "publish", "exited"}
  <2>1. \A pc \in labels : moved(pc) \in ThreadState /\ moved(pc).pc = pc
    BY <1>1 DEF ThreadState
  <2>2. [pc |-> "gpu", time |-> clock, wait |-> 0] \in ThreadState BY <1>1 DEF ThreadState
  <2>3. Resting \in ThreadState /\ Resting.pc = "idle" BY DEF ThreadState, Resting
  <2>4. \/ \E pc \in labels : thread' = [thread EXCEPT ![t] = moved(pc)]
        \/ thread' = [thread EXCEPT ![t] = Resting]
        \/ thread' = [thread EXCEPT ![t] = [pc |-> "gpu", time |-> clock, wait |-> 0]]
    BY <1>1 DEF Tick, TickerExits, Current, Ask, WaitAbandoned, Count, ReadingAwaited, Store,
                Goto, Rest
  <2> HIDE DEF moved
  <2> QED BY <2>1, <2>2, <2>3, <2>4
<1>3. ~Stands(t, "exited")
  BY DEF Tick, TickerExits, Current, Ask, WaitAbandoned, Count, ReadingAwaited, Store, Stands
<1>4. /\ UNCHANGED <<clock, listeners, channel, ends, watching, gpu, readings, closer>>
      /\ latest' \in Nat /\ wanted' \in Nat
  BY <1>1 DEF Tick, TickerExits, Current, Ask, WaitAbandoned, Count, ReadingAwaited, Store,
              ThreadState
<1>5. /\ thread' \in [Threads -> ThreadState] /\ FirstAwaited'
      /\ Stands(Ticker, "exited") => Stands(Ticker, "exited")'
  BY <1>2, <1>3, Moves DEF FirstAwaited
<1>6. SamplerTypeOK' BY <1>4, <1>5 DEF SamplerInv, SamplerTypeOK
<1> QED BY <1>4, <1>5, <1>6
     DEF SamplerInv, Readings, Running, Channels, NoneListed, samplerClosed, AllOver

(* A reading that is due is started when none runs.                        *)
LEMMA Reads ==
  ASSUME SamplerInv, NEW t \in Threads, StartReading(t)
  PROVE  SamplerInv'
<1> DEFINE starts == Due(thread[t].time) /\ MayStart
           n == IF starts THEN Len(readings) + 1 ELSE Len(readings)
           waits == Awaits(t, n)
           s == [thread[t] EXCEPT !.pc = IF waits THEN "wait" ELSE "store",
                                  !.wait = IF waits THEN n ELSE 0]
<1>0. /\ thread[t] \in ThreadState /\ thread \in [Threads -> ThreadState]
      /\ readings \in Seq({"running", "stored", "ended"}) /\ Len(readings) \in Nat
      /\ gpu \in [have : BOOLEAN, available : BOOLEAN, missing : BOOLEAN, inflight : BOOLEAN, at : Nat]
      /\ DOMAIN readings = 1 .. Len(readings)
  BY DEF SamplerInv, SamplerTypeOK
<1>1. /\ Stands(t, "gpu")
      /\ readings' = IF starts THEN Append(readings, "running") ELSE readings
      /\ gpu' = IF starts THEN [gpu EXCEPT !.inflight = TRUE] ELSE gpu
      /\ thread' = [thread EXCEPT ![t] = s]
      /\ UNCHANGED <<clock, latest, wanted, listeners, channel, ends, watching, closer>>
  BY <1>0 DEF StartReading
<1>2. n \in Nat /\ waits \in BOOLEAN /\ starts \in BOOLEAN
  BY <1>0 DEF Awaits, Due, MayStart
<1>3. s \in ThreadState /\ (s.pc = "wait" <=> waits) /\ (waits => s.wait = n) /\ s.pc # "exited"
  <2> HIDE DEF n, waits
  <2> QED BY <1>0, <1>2 DEF ThreadState
<1>4. waits => t # Ticker /\ ~gpu.have /\ n > 0 BY DEF Awaits
<1>5. starts => ~gpu.inflight /\ closer = "open"
  BY DEF Due, MayStart, samplerClosed
<1>6. waits => n = 1
  <2> SUFFICES ASSUME waits PROVE n = 1 OBVIOUS
  <2>1. CASE readings = <<>> BY <1>2, <1>4, <2>1
  <2>2. CASE Len(readings) = 1 /\ gpu.inflight BY <1>5, <2>2
  <2> QED BY <1>4, <2>1, <2>2 DEF SamplerInv, Readings
<1> HIDE DEF s, n, waits
<1>7. FirstAwaited' /\ thread' \in [Threads -> ThreadState]
      /\ (Stands(Ticker, "exited") => Stands(Ticker, "exited")')
  BY <1>0, <1>1, <1>3, <1>6, Numbers DEF SamplerInv, FirstAwaited, Stands
<1>8. CASE ~starts
  <2>1. readings' = readings /\ gpu' = gpu BY <1>1, <1>8
  <2>2. SamplerTypeOK' BY <1>1, <1>7, <2>1 DEF SamplerInv, SamplerTypeOK
  <2> QED BY <1>1, <1>7, <2>1, <2>2
       DEF SamplerInv, Readings, Running, Channels, NoneListed, samplerClosed, AllOver
<1>9. CASE starts
  <2> DEFINE m == Len(readings) + 1
  <2>1. /\ readings' = Append(readings, "running") /\ gpu' = [gpu EXCEPT !.inflight = TRUE]
        /\ ~gpu.inflight /\ closer = "open"
    BY <1>1, <1>5, <1>9
  <2>2. /\ readings' \in Seq({"running", "stored", "ended"}) /\ DOMAIN readings' = 1 .. m
        /\ readings'[m] = "running" /\ Len(readings') = m
        /\ \A i \in 1 .. Len(readings) : readings'[i] = readings[i]
    BY <1>0, <2>1, SequenceFacts
  <2>3. Running' = {m}
    <3>1. Running = {} BY <2>1 DEF SamplerInv, Readings
    <3>2. \A i \in 1 .. Len(readings) : readings'[i] # "running"
      BY <1>0, <2>2, <3>1 DEF Running
    <3> QED BY <1>0, <2>2, <3>2 DEF Running
  <2>4. gpu'.inflight /\ gpu'.have = gpu.have
        /\ gpu' \in [have : BOOLEAN, available : BOOLEAN, missing : BOOLEAN, inflight : BOOLEAN, at : Nat]
    BY <1>0, <2>1
  <2>5. ~gpu.have => Len(readings') = 1
    <3> SUFFICES ASSUME ~gpu.have PROVE Len(readings') = 1 OBVIOUS
    <3>1. readings = <<>> BY <2>1 DEF SamplerInv, Readings
    <3> QED BY <2>2, <3>1
  <2>6. Readings' BY <2>3, <2>4, <2>5 DEF Readings
  <2>7. SamplerTypeOK' BY <1>1, <1>7, <2>2, <2>4 DEF SamplerInv, SamplerTypeOK
  <2>8. Channels' /\ NoneListed' /\ AllOver'
    BY <1>1, <2>1 DEF SamplerInv, Channels, NoneListed, samplerClosed, AllOver
  <2> QED BY <1>7, <2>6, <2>7, <2>8 DEF SamplerInv
<1> QED BY <1>8, <1>9

(* A reading ends, is stored, and whoever waits is told.                   *)
LEMMA ReadingGoesOn ==
  ASSUME SamplerInv, NEW i \in 1 .. MaxReadings, Reading(i)
  PROVE  SamplerInv'
<1>0. /\ readings \in Seq({"running", "stored", "ended"}) /\ DOMAIN readings = 1 .. Len(readings)
      /\ i \in 1 .. Len(readings) /\ clock \in Nat
      /\ UNCHANGED <<clock, latest, wanted, listeners, channel, ends, watching, thread, closer>>
  BY DEF SamplerInv, SamplerTypeOK, Reading, ReadingEnds, ReadingTold
<1>1. closer # "returned" BY <1>0 DEF SamplerInv, AllOver, Reading, ReadingEnds, ReadingTold
<1>2. PICK stage \in {"stored", "ended"} : readings' = [readings EXCEPT ![i] = stage]
  BY DEF Reading, ReadingEnds, ReadingTold
<1>3. /\ readings' \in Seq({"running", "stored", "ended"}) /\ Len(readings') = Len(readings)
      /\ DOMAIN readings' = 1 .. Len(readings) /\ readings'[i] # "running"
      /\ \A j \in 1 .. Len(readings) : j # i => readings'[j] = readings[j]
  BY <1>0, <1>2, SequenceFacts
<1>4. Running' = Running \ {i} BY <1>0, <1>3 DEF Running
<1>5. FirstAwaited' /\ Channels' /\ NoneListed' /\ AllOver'
  BY <1>0, <1>1 DEF SamplerInv, FirstAwaited, Stands, Channels, NoneListed, samplerClosed, AllOver
<1>6. ASSUME NEW r \in {"available", "failed", "missing"}, ReadingEnds(i, r) PROVE SamplerInv'
  <2>1. i \in Running BY <1>6 DEF ReadingEnds, Running
  <2>2. Running' = {} BY <1>4, <2>1 DEF SamplerInv, Readings
  <2>3. /\ gpu'.have /\ ~gpu'.inflight
        /\ gpu' \in [have : BOOLEAN, available : BOOLEAN, missing : BOOLEAN, inflight : BOOLEAN, at : Nat]
    BY <1>0, <1>6 DEF ReadingEnds
  <2>4. Readings' BY <2>2, <2>3 DEF Readings
  <2>5. SamplerTypeOK' BY <1>0, <1>3, <2>3 DEF SamplerInv, SamplerTypeOK
  <2> QED BY <1>5, <2>4, <2>5 DEF SamplerInv
<1>7. CASE ReadingTold(i)
  <2>1. gpu' = gpu /\ i \notin Running BY <1>7 DEF ReadingTold, Running
  <2>2. Running' = Running BY <1>4, <2>1
  <2>3. readings # <<>> BY <1>0
  <2>4. Readings' BY <1>3, <2>1, <2>2, <2>3 DEF SamplerInv, Readings
  <2>5. SamplerTypeOK' BY <1>0, <1>3, <2>1 DEF SamplerInv, SamplerTypeOK
  <2> QED BY <1>5, <2>4, <2>5 DEF SamplerInv
<1> QED BY <1>6, <1>7 DEF Reading

(* A sample is published; subscribers come, receive, leave and are dropped.*)
LEMMA Subscriptions ==
  ASSUME SamplerInv,
         \/ \E t \in Threads : PublishSample(t)
         \/ \E w \in Watchers : SubscribeSamples(w) \/ ReceiveSample(w) \/ Leave(w) \/ WatchEnds(w)
         \/ CloseSampler
  PROVE  SamplerInv'
<1>0. /\ listeners \subseteq Watchers /\ watching \subseteq Watchers
      /\ channel \in [Watchers -> Seq(Nat)] /\ ends \in [Watchers -> Nat]
      /\ \A w \in Watchers : Len(channel[w]) <= ChanSize
      /\ thread \in [Threads -> ThreadState] /\ closer \in {"open", "waiting", "returned"}
  BY DEF SamplerInv, SamplerTypeOK
<1>1. UNCHANGED <<clock, latest, wanted, gpu, readings>>
  BY DEF PublishSample, SubscribeSamples, ReceiveSample, Leave, WatchEnds, CloseSampler
<1>2. /\ thread' \in [Threads -> ThreadState] /\ FirstAwaited'
      /\ Stands(Ticker, "exited") => Stands(Ticker, "exited")'
  <2>1. ASSUME NEW t \in Threads, PublishSample(t)
        PROVE  /\ thread' \in [Threads -> ThreadState] /\ FirstAwaited'
               /\ Stands(Ticker, "exited") => Stands(Ticker, "exited")'
    <3>1. Resting \in ThreadState /\ Resting.pc # "wait" BY DEF Resting, ThreadState
    <3>2. thread' = [thread EXCEPT ![t] = Resting] /\ ~Stands(t, "exited")
      BY <2>1 DEF PublishSample, Rest, Stands
    <3> QED BY <3>1, <3>2, Moves DEF FirstAwaited
  <2>2. CASE thread' = thread BY <1>0, <2>2 DEF SamplerInv, FirstAwaited, Stands
  <2> QED BY <2>1, <2>2 DEF SubscribeSamples, ReceiveSample, Leave, WatchEnds, CloseSampler
<1>3. /\ channel' \in [Watchers -> Seq(Nat)]
      /\ \A w \in Watchers : Len(channel'[w]) <= ChanSize
  <2>1. ASSUME NEW t \in Threads, PublishSample(t)
        PROVE  \A w \in Watchers : channel'[w] \in Seq(Nat) /\ Len(channel'[w]) <= ChanSize
    <3> TAKE w \in Watchers
    <3>1. thread[t].time \in Nat /\ channel[w] \in Seq(Nat) BY <1>0 DEF ThreadState
    <3>2. CASE w \in listeners /\ ~ChannelFull(w)
      <4>1. channel'[w] = Append(channel[w], thread[t].time) BY <2>1, <3>2 DEF PublishSample
      <4>2. Len(channel[w]) \in Nat /\ Len(channel[w]) < ChanSize
        BY <1>0, <3>1, <3>2, Numbers DEF ChannelFull
      <4> QED BY <3>1, <4>1, <4>2, SequenceFacts, Numbers
    <3>3. CASE ~(w \in listeners /\ ~ChannelFull(w))
      BY <1>0, <2>1, <3>3 DEF PublishSample
    <3> QED BY <3>2, <3>3
  <2>2. ASSUME NEW t \in Threads, PublishSample(t)
        PROVE  channel' = [w \in Watchers |-> channel'[w]]
    BY <2>2 DEF PublishSample
  <2>3. ASSUME NEW w \in Watchers, ReceiveSample(w)
        PROVE  /\ channel' \in [Watchers -> Seq(Nat)]
               /\ \A v \in Watchers : Len(channel'[v]) <= ChanSize
    <3>1. Tail(channel[w]) \in Seq(Nat) /\ Len(Tail(channel[w])) <= ChanSize
      <4>1. channel[w] \in Seq(Nat) /\ channel[w] # <<>> BY <1>0, <2>3 DEF ReceiveSample
      <4>2. Tail(channel[w]) \in Seq(Nat) /\ Len(Tail(channel[w])) = Len(channel[w]) - 1
        BY <4>1
      <4> QED BY <1>0, <4>1, <4>2, Numbers
    <3> QED BY <1>0, <2>3, <3>1 DEF ReceiveSample
  <2>4. CASE channel' = channel BY <1>0, <2>4
  <2> QED BY <2>1, <2>2, <2>3, <2>4 DEF SubscribeSamples, Leave, WatchEnds, CloseSampler
<1>4. /\ listeners' \subseteq Watchers /\ watching' \subseteq Watchers
      /\ ends' \in [Watchers -> Nat] /\ closer' \in {"open", "waiting", "returned"}
  <2>1. /\ listeners' \subseteq Watchers /\ watching' \subseteq Watchers
        /\ closer' \in {"open", "waiting", "returned"}
    BY <1>0 DEF PublishSample, SubscribeSamples, ReceiveSample, Leave, Drop, WatchEnds, CloseSampler
  <2>2. ASSUME NEW t \in Threads, PublishSample(t) PROVE ends' \in [Watchers -> Nat]
    BY <1>0, <2>2 DEF PublishSample
  <2>3. ASSUME NEW w \in Watchers, SubscribeSamples(w) \/ Leave(w)
        PROVE  ends' \in [Watchers -> Nat]
    BY <1>0, <2>3 DEF SubscribeSamples, Leave, Drop
  <2>4. CASE CloseSampler BY <1>0, <2>4 DEF CloseSampler
  <2>5. ASSUME NEW w \in Watchers, ReceiveSample(w) \/ WatchEnds(w)
        PROVE  ends' \in [Watchers -> Nat]
    BY <1>0, <2>5 DEF ReceiveSample, WatchEnds
  <2>6. ends' \in [Watchers -> Nat] BY <2>2, <2>3, <2>4, <2>5
  <2> QED BY <2>1, <2>6
<1>5. SamplerTypeOK' BY <1>1, <1>2, <1>3, <1>4 DEF SamplerInv, SamplerTypeOK
<1>6. Channels'
  BY <1>0 DEF SamplerInv, Channels, PublishSample, SubscribeSamples, ReceiveSample, Leave, Drop,
              WatchEnds, CloseSampler
<1>7. NoneListed' /\ AllOver'
  BY <1>0, <1>1, <1>2 DEF SamplerInv, NoneListed, AllOver, samplerClosed, PublishSample,
     SubscribeSamples, ReceiveSample, Leave, Drop, WatchEnds, CloseSampler
<1>8. Readings' BY <1>1 DEF SamplerInv, Readings, Running
<1> QED BY <1>2, <1>5, <1>6, <1>7, <1>8 DEF SamplerInv

(* Time passes, and Close has waited for every goroutine.                  *)
LEMMA Rests ==
  ASSUME SamplerInv, ClockTick \/ SamplerCloseReturns \/ UNCHANGED samplerVars
  PROVE  SamplerInv'
<1>1. UNCHANGED <<latest, wanted, listeners, channel, ends, watching, thread, gpu, readings>>
      /\ clock' \in Nat
  BY DEF SamplerInv, SamplerTypeOK, ClockTick, SamplerCloseReturns, samplerVars
<1>2. SamplerTypeOK'
  BY <1>1 DEF SamplerInv, SamplerTypeOK, ClockTick, SamplerCloseReturns, samplerVars
<1>3. Readings' /\ FirstAwaited' /\ Channels'
  BY <1>1 DEF SamplerInv, Readings, Running, FirstAwaited, Stands, Channels
<1>4. NoneListed' /\ AllOver'
  BY <1>1 DEF SamplerInv, NoneListed, AllOver, samplerClosed, Stands, ClockTick, SamplerCloseReturns,
              samplerVars
<1> QED BY <1>2, <1>3, <1>4 DEF SamplerInv

LEMMA SamplerKept == SamplerInv /\ [SamplerNext]_samplerVars => SamplerInv'
<1> SUFFICES ASSUME SamplerInv, [SamplerNext]_samplerVars PROVE SamplerInv' OBVIOUS
<1>1. CASE Tick \/ TickerExits BY <1>1, Threads1, Numbers
<1>2. ASSUME NEW t \in Askers, Current(t) \/ Ask(t) \/ WaitAbandoned(t) PROVE SamplerInv'
  BY <1>2, Threads1, Numbers
<1>3. ASSUME NEW t \in Threads, Sampling(t) PROVE SamplerInv'
  BY <1>3, Threads1, Reads, Subscriptions DEF Sampling
<1>4. ASSUME NEW i \in 1 .. MaxReadings, Reading(i) PROVE SamplerInv' BY <1>4, ReadingGoesOn
<1> QED BY <1>1, <1>2, <1>3, <1>4, Subscriptions, Rests DEF SamplerNext

LEMMA SamplerStarts == SamplerInit => SamplerInv
<1> SUFFICES ASSUME SamplerInit PROVE SamplerInv OBVIOUS
<1>1. Resting \in ThreadState BY DEF Resting, ThreadState
<1>2. SamplerTypeOK BY <1>1, Numbers DEF SamplerInit, SamplerTypeOK
<1>3. Running = {} BY DEF SamplerInit, Running
<1>4. Readings BY <1>3 DEF SamplerInit, Readings
<1>5. FirstAwaited /\ Channels /\ NoneListed /\ AllOver
  BY Numbers DEF SamplerInit, Resting, FirstAwaited, Stands, Channels, NoneListed, AllOver
<1> QED BY <1>2, <1>4, <1>5 DEF SamplerInv

LEMMA SamplerAlways == SamplerSpec => []SamplerInv
  BY SamplerStarts, SamplerKept, PTL DEF SamplerSpec

(* The GPU is read once at a time, and a caller that waits for a reading   *)
(* waits for the first.                                                    *)
THEOREM OneReadingAtATime == SamplerSpec => []OneReading
<1>1. ASSUME SamplerInv PROVE OneReading
  <2>1. CASE Running = {} BY <1>1, <2>1, FS_EmptySet DEF SamplerInv, Readings, FirstAwaited, OneReading, Running
  <2>2. ASSUME NEW i \in Running PROVE OneReading
    <3>1. Running = {i} BY <1>1 DEF SamplerInv, Readings
    <3>2. Cardinality(Running) = 1 BY <3>1, FS_Singleton
    <3> QED BY <1>1, <3>1, <3>2 DEF SamplerInv, Readings, FirstAwaited, OneReading, Running
  <2> QED BY <2>1, <2>2
<1> QED BY <1>1, SamplerAlways, PTL

(* A subscriber's channel ends once, and a sampler whose Close has         *)
(* returned is still.                                                      *)
THEOREM SamplerEndsQuiet == SamplerSpec => []SamplerQuiet
<1>1. SamplerInv => SamplerQuiet
  BY DEF SamplerInv, Channels, NoneListed, AllOver, samplerClosed, SamplerQuiet
<1> QED BY <1>1, SamplerAlways, PTL
===============================================================================
