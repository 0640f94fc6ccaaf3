------------------------ MODULE ControlEngine_proofs ------------------------
(* Proofs about the control engine of module ControlEngine, for any        *)
(* connections, fault sets, seeds and bounds.                              *)
EXTENDS ControlEngine, FiniteSetTheorems, TLAPS

(***************************************************************************)
(* The inductive invariant.                                                *)
(***************************************************************************)
Decisions == [method : Methods, error : BOOLEAN, lie : BOOLEAN]
Counters == [Methods \cup {"all"} -> Nat]

ControlTypeOK ==
  /\ total \in Nat
  /\ serving \in [Conns -> {Idle} \cup [at : {"answer", "arm"}, request : Nat, ok : BOOLEAN]]
  /\ decided \in Seq(Decisions)
  /\ installs \in Seq([at : Nat, set : ControlSets]) /\ installs # <<>>
  /\ arms \in Seq([request : Nat, install : Nat, armed : BOOLEAN])

(* The entries are those of the current set.                               *)
EntriesOfSet ==
  /\ ctlEntries = [k \in KindsOf(CurrentSet) |-> ctlEntries[k]]
  /\ \A k \in KindsOf(CurrentSet) :
       ctlEntries[k] \in [spec : {SpecOf(CurrentSet, k)}, seen : Counters, drawn : Nat]

(* The history: every request is decided and no set was installed later    *)
(* than now.                                                               *)
HistoryComplete ==
  /\ Len(decided) = total
  /\ \A n \in DOMAIN installs : installs[n].at <= total
  /\ \A i \in DOMAIN arms : arms[i].install \in DOMAIN installs /\ arms[i].request \in DOMAIN decided

(* The requests of x among those after the first n and up to the ith.      *)
Matching(ds, x, n, i) == {j \in n + 1 .. i : Matches(x, ds[j].method)}
Armings(as, n, i) == {j \in 1 .. i : as[j].install = n}

(* An entry has counted the matching requests since it was installed, and  *)
(* has drawn once for each.                                                *)
EntriesCount ==
  /\ \A k \in KindsOf(CurrentSet) \ {"teardown"} :
       LET e == ctlEntries[k]
       IN  /\ e.drawn = Cardinality(Matching(decided, e.spec, installs[Len(installs)].at, total))
           /\ \A m \in Methods : Matches(e.spec, m) => e.seen[Key(e.spec, m)] = e.drawn
  /\ "teardown" \in KindsOf(CurrentSet) =>
       ctlEntries["teardown"].drawn = Cardinality(Armings(arms, Len(installs), Len(arms)))

(* Install n is the one request i was decided under, and what it makes of  *)
(* the request.                                                            *)
InForce(n, i) ==
  /\ n \in DOMAIN installs /\ installs[n].at < i
  /\ \A m \in DOMAIN installs : installs[m].at < i => m <= n
RuledBy(n, k, i) ==
  LET x == SpecOf(installs[n].set, k)
  IN  /\ k \in KindsOf(installs[n].set) /\ Matches(x, decided[i].method)
      /\ Ruled(k, x, Cardinality(Matching(decided, x, installs[n].at, i)))
ArmedBy(n, i) ==
  LET x == SpecOf(installs[n].set, "teardown")
  IN  "teardown" \in KindsOf(installs[n].set) /\ Ruled("teardown", x, Cardinality(Armings(arms, n, i)))

DecidedRight ==
  \A i \in DOMAIN decided :
    \E n \in DOMAIN installs :
      /\ InForce(n, i)
      /\ decided[i].error <=> RuledBy(n, "rtsp_error", i)
      /\ decided[i].lie <=> RuledBy(n, "sdp_lie", i) /\ ~decided[i].error

ArmedRight ==
  \A i \in DOMAIN arms :
    arms[i].armed <=> ArmedBy(arms[i].install, i) /\ ~decided[arms[i].request].error

(* A PLAY about to arm knows how it was decided, and a pending lie belongs *)
(* to the request its connection answers.                                  *)
PlayKnows ==
  \A c \in Conns :
    serving[c].at = "arm" =>
      /\ serving[c].request \in DOMAIN decided
      /\ serving[c].ok <=> ~decided[serving[c].request].error
LiesPending ==
  \A c \in DOMAIN pendingLie :
    /\ c \in Conns /\ serving[c].at = "answer" /\ serving[c].request = pendingLie[c]
    /\ pendingLie[c] \in DOMAIN decided
    /\ decided[pendingLie[c]].lie /\ decided[pendingLie[c]].method = "describe"

ControlInv ==
  /\ ControlTypeOK /\ EntriesOfSet /\ HistoryComplete /\ EntriesCount
  /\ DecidedRight /\ ArmedRight /\ PlayKnows /\ LiesPending

(***************************************************************************)
(* The operators.                                                          *)
(***************************************************************************)
(* The fault of a kind in a set.                                           *)
LEMMA SpecOfKind ==
  ASSUME NEW set \in ControlSets, NEW k \in KindsOf(set)
  PROVE  /\ SpecOf(set, k) \in set /\ SpecOf(set, k).kind = k
         /\ k \in ControlKinds /\ Accepts(SpecOf(set, k))
<1>1. \E x \in set : x.kind = k
  BY DEF KindsOf
<1>2. SpecOf(set, k) \in set /\ SpecOf(set, k).kind = k
  BY <1>1 DEF SpecOf
<1> QED BY <1>2, ControlAssumption DEF ControlAssumption

LEMMA InSeq ==
  ASSUME NEW S, NEW s \in Seq(S), NEW i \in DOMAIN s
  PROVE  s[i] \in S
OBVIOUS

(* The methods a fault matches are counted under one key.                  *)
LEMMA OneKey ==
  ASSUME NEW x, x.kind \in {"rtsp_error", "sdp_lie"}, NEW m \in Methods, NEW l \in Methods,
         Matches(x, m), Matches(x, l)
  PROVE  Key(x, m) = Key(x, l) /\ Key(x, m) \in Methods \cup {"all"}
<1>1. CASE x.kind = "rtsp_error"
  BY <1>1 DEF Matches, Key
<1>2. CASE x.kind = "sdp_lie"
  BY <1>2 DEF Matches, Key
<1> QED BY <1>1, <1>2

(* A teardown has no request of its own to fire on: it is always drawn.    *)
LEMMA TeardownDraws ==
  ASSUME NEW x, x.kind = "teardown", Accepts(x)
  PROVE  \A n : Ruled("teardown", x, n) <=> stream["teardown"][n] < DrawRate(x)
<1>1. DOMAIN x.set \subseteq DOMAIN Kinds["teardown"].params
  BY DEF Accepts, CheckParams
<1>2. DOMAIN Kinds["teardown"].params = {"afterFrames", "mode", "rate"}
  BY DEF Kinds, Kind
<1>3. Value(x, "onlyRequest") = 0
  BY <1>1, <1>2 DEF Value
<1> QED BY <1>3 DEF Ruled

LEMMA CountOneMore ==
  ASSUME NEW S, IsFiniteSet(S), NEW e, e \notin S
  PROVE  Cardinality(S \cup {e}) = Cardinality(S) + 1 /\ Cardinality(S) \in Nat
BY FS_AddElement, FS_CardinalityType

LEMMA MatchingFinite ==
  ASSUME NEW ds, NEW x, NEW n \in Nat, NEW i \in Nat
  PROVE  IsFiniteSet(Matching(ds, x, n, i)) /\ Cardinality(Matching(ds, x, n, i)) \in Nat
<1>1. IsFiniteSet(n + 1 .. i)
  BY FS_Interval
<1>2. Matching(ds, x, n, i) \subseteq n + 1 .. i
  BY DEF Matching
<1> QED BY <1>1, <1>2, FS_Subset, FS_CardinalityType

LEMMA ArmingsFinite ==
  ASSUME NEW as, NEW n, NEW i \in Nat
  PROVE  IsFiniteSet(Armings(as, n, i)) /\ Cardinality(Armings(as, n, i)) \in Nat
<1>1. IsFiniteSet(1 .. i)
  BY FS_Interval
<1>2. Armings(as, n, i) \subseteq 1 .. i
  BY DEF Armings
<1> QED BY <1>1, <1>2, FS_Subset, FS_CardinalityType

(* The current set, and its entries.                                       *)
LEMMA CurrentFacts ==
  ASSUME ControlInv
  PROVE  /\ Len(installs) \in DOMAIN installs /\ CurrentSet \in ControlSets
         /\ installs[Len(installs)].at \in Nat /\ installs[Len(installs)].at <= total
         /\ DOMAIN ctlEntries = KindsOf(CurrentSet)
         /\ \A k \in KindsOf(CurrentSet) :
              /\ k \in ControlKinds
              /\ ctlEntries[k].spec = SpecOf(CurrentSet, k) /\ ctlEntries[k].spec.kind = k
              /\ Accepts(ctlEntries[k].spec)
              /\ ctlEntries[k].seen \in Counters /\ ctlEntries[k].drawn \in Nat
<1>1. ControlTypeOK /\ EntriesOfSet /\ HistoryComplete
  BY DEF ControlInv
<1>2. Len(installs) \in DOMAIN installs
  BY <1>1 DEF ControlTypeOK
<1>3. installs[Len(installs)] \in [at : Nat, set : ControlSets]
  <2>1. installs \in Seq([at : Nat, set : ControlSets])
    BY <1>1 DEF ControlTypeOK
  <2> QED BY <1>2, <2>1, InSeq
<1>4. CurrentSet \in ControlSets /\ installs[Len(installs)].at \in Nat
  BY <1>3 DEF CurrentSet
<1>5. installs[Len(installs)].at <= total
  BY <1>1, <1>2 DEF HistoryComplete
<1>6. DOMAIN ctlEntries = KindsOf(CurrentSet)
  BY <1>1 DEF EntriesOfSet
<1>7. ASSUME NEW k \in KindsOf(CurrentSet)
      PROVE  /\ k \in ControlKinds
             /\ ctlEntries[k].spec = SpecOf(CurrentSet, k) /\ ctlEntries[k].spec.kind = k
             /\ Accepts(ctlEntries[k].spec)
             /\ ctlEntries[k].seen \in Counters /\ ctlEntries[k].drawn \in Nat
  <2>1. ctlEntries[k] \in [spec : {SpecOf(CurrentSet, k)}, seen : Counters, drawn : Nat]
    BY <1>1 DEF EntriesOfSet
  <2>2. ctlEntries[k].spec = SpecOf(CurrentSet, k)
    BY <2>1
  <2>3. ctlEntries[k].seen \in Counters /\ ctlEntries[k].drawn \in Nat
    BY <2>1
  <2> QED BY <1>4, <2>2, <2>3, SpecOfKind
<1> QED BY <1>2, <1>4, <1>5, <1>6, <1>7

(***************************************************************************)
(* A request is decided.                                                   *)
(***************************************************************************)
(* What all requests that are decided have in common.                      *)
Ask(m) == Decide(m) /\ UNCHANGED <<stream, installs, arms>>

(* The kinds that draw are those of the current set that match.            *)
LEMMA AskedKinds ==
  ASSUME ControlInv, NEW m \in Methods
  PROVE  \A k : k \in DrawsFor(m) <=> /\ k \in KindsOf(CurrentSet) \ {"teardown"}
                                      /\ Matches(SpecOf(CurrentSet, k), m)
BY CurrentFacts DEF DrawsFor, Asked

(* An entry fires as its kind's stream and its count rule.                 *)
LEMMA FiresAsRuled ==
  ASSUME ControlInv, NEW m \in Methods, NEW k \in DrawsFor(m)
  PROVE  Fires(k, ctlEntries[k], m) <=> Ruled(k, SpecOf(CurrentSet, k), ctlEntries[k].drawn + 1)
<1>1. k \in KindsOf(CurrentSet) \ {"teardown"} /\ Matches(SpecOf(CurrentSet, k), m)
  BY AskedKinds
<1>2. /\ ctlEntries[k].spec = SpecOf(CurrentSet, k)
      /\ ctlEntries[k].seen[Key(ctlEntries[k].spec, m)] = ctlEntries[k].drawn
  BY <1>1, CurrentFacts DEF ControlInv, EntriesCount
<1> QED BY <1>2 DEF Fires, Ruled

LEMMA AskHistory ==
  ASSUME ControlInv, NEW m \in Methods, Ask(m)
  PROVE  /\ total' = total + 1 /\ total \in Nat
         /\ DOMAIN decided = 1 .. total /\ DOMAIN decided' = 1 .. total + 1 /\ Len(decided') = total'
         /\ decided' \in Seq(Decisions)
         /\ \A i \in DOMAIN decided : decided'[i] = decided[i]
         /\ decided'[total + 1] = Decided(m) /\ decided'[total + 1].method = m
<1>1. decided \in Seq(Decisions) /\ Len(decided) = total /\ total \in Nat
  BY DEF ControlInv, ControlTypeOK, HistoryComplete
<1>2. decided' = Append(decided, Decided(m)) /\ total' = total + 1
  BY DEF Ask, Decide
<1>3. Decided(m) \in Decisions
  BY DEF Decided, Decisions
<1>4. Decided(m).method = m
  BY DEF Decided
<1> QED BY <1>1, <1>2, <1>3, <1>4

(* A request takes part in the counts of what it matches.                  *)
LEMMA AskMatching ==
  ASSUME ControlInv, NEW m \in Methods, Ask(m), NEW x, NEW n \in Nat,
         NEW t \in Nat, t = total
  PROVE  /\ \A i \in Nat : i <= t => Matching(decided', x, n, i) = Matching(decided, x, n, i)
         /\ n <= t =>
              Cardinality(Matching(decided', x, n, t + 1))
                = Cardinality(Matching(decided, x, n, t)) + (IF Matches(x, m) THEN 1 ELSE 0)
<1>1. /\ DOMAIN decided = 1 .. t
      /\ \A i \in DOMAIN decided : decided'[i] = decided[i]
      /\ decided'[t + 1].method = m
  BY AskHistory
<1>2. ASSUME NEW i \in Nat, i <= t
      PROVE  Matching(decided', x, n, i) = Matching(decided, x, n, i)
  <2>1. \A j \in n + 1 .. i : decided'[j] = decided[j]
    BY <1>1, <1>2
  <2> QED BY <2>1 DEF Matching
<1>3. ASSUME n <= t
      PROVE  Cardinality(Matching(decided', x, n, t + 1))
                = Cardinality(Matching(decided, x, n, t)) + (IF Matches(x, m) THEN 1 ELSE 0)
  <2>1. n + 1 .. t + 1 = (n + 1 .. t) \cup {t + 1}
    BY <1>1, <1>3
  <2>2. \A j \in n + 1 .. t : decided'[j] = decided[j] /\ j # t + 1
    BY <1>1
  <2>3. Matching(decided', x, n, t + 1)
          = Matching(decided, x, n, t) \cup (IF Matches(x, m) THEN {t + 1} ELSE {})
    <3>1. {j \in n + 1 .. t + 1 : Matches(x, decided'[j].method)}
            = {j \in n + 1 .. t : Matches(x, decided[j].method)}
                \cup (IF Matches(x, m) THEN {t + 1} ELSE {})
      BY <1>1, <2>1, <2>2
    <3> QED BY <3>1 DEF Matching
  <2>4. IsFiniteSet(Matching(decided, x, n, t)) /\ Cardinality(Matching(decided, x, n, t)) \in Nat
    BY <1>1, MatchingFinite
  <2>5. t + 1 \notin Matching(decided, x, n, t)
    BY <1>1 DEF Matching
  <2>6. CASE Matches(x, m)
    BY <2>3, <2>4, <2>5, <2>6, CountOneMore
  <2>7. CASE ~Matches(x, m)
    <3>1. Matching(decided', x, n, t + 1) = Matching(decided, x, n, t)
      BY <2>3, <2>7
    <3> QED BY <2>4, <2>7, <3>1
  <2> QED BY <2>6, <2>7
<1> QED BY <1>2, <1>3

LEMMA AskEntries ==
  ASSUME ControlInv, NEW m \in Methods, Ask(m)
  PROVE  /\ CurrentSet' = CurrentSet
         /\ DOMAIN ctlEntries' = KindsOf(CurrentSet)
         /\ ctlEntries' = [k \in KindsOf(CurrentSet) |-> ctlEntries'[k]]
         /\ \A k \in KindsOf(CurrentSet) \ DrawsFor(m) : ctlEntries'[k] = ctlEntries[k]
         /\ \A k \in DrawsFor(m) :
              LET e == ctlEntries[k]
              IN  ctlEntries'[k] = [e EXCEPT !.seen[Key(e.spec, m)] = @ + 1, !.drawn = @ + 1]
<1>1. CurrentSet' = CurrentSet
  BY DEF Ask, CurrentSet
<1>2. DOMAIN ctlEntries = KindsOf(CurrentSet)
  BY CurrentFacts
<1>3. ctlEntries' = [k \in DOMAIN ctlEntries |->
                       IF k \in DrawsFor(m) THEN Counted(ctlEntries[k], m) ELSE ctlEntries[k]]
  BY DEF Ask, Decide
<1>4. \A k \in DrawsFor(m) : k \in KindsOf(CurrentSet)
  BY AskedKinds
<1> QED BY <1>1, <1>2, <1>3, <1>4 DEF Counted

LEMMA AskDraws ==
  ASSUME ControlInv, NEW m \in Methods, Ask(m), NEW k \in DrawsFor(m)
  PROVE  LET x == SpecOf(CurrentSet, k)
             e == ctlEntries[k]
             f == ctlEntries'[k]
         IN  /\ f \in [spec : {x}, seen : Counters, drawn : Nat]
             /\ f.spec = x /\ f.drawn = e.drawn + 1
             /\ \A l \in Methods : Matches(x, l) => f.seen[Key(x, l)] = e.drawn + 1
<1> DEFINE e == ctlEntries[k]
           f == ctlEntries'[k]
<1>0. PICK x : x = SpecOf(CurrentSet, k)
  OBVIOUS
<1>1. k \in KindsOf(CurrentSet) \ {"teardown"} /\ Matches(x, m)
  BY <1>0, AskedKinds
<1>2. x.kind = k /\ k \in ControlKinds /\ e.spec = x
  BY <1>0, <1>1, CurrentFacts
<1>3. x.kind \in {"rtsp_error", "sdp_lie"}
  BY <1>1, <1>2 DEF ControlKinds
<1>4. Key(x, m) \in Methods \cup {"all"}
  BY <1>1, <1>3, OneKey
<1>5. e \in [spec : {x}, seen : Counters, drawn : Nat]
  BY <1>0, <1>1 DEF ControlInv, EntriesOfSet
<1>6. PICK key : key = Key(x, m)
  OBVIOUS
<1>k. f = [e EXCEPT !.seen[key] = @ + 1, !.drawn = @ + 1]
  <2>1. f = [e EXCEPT !.seen[Key(e.spec, m)] = @ + 1, !.drawn = @ + 1]
    BY AskEntries
  <2> QED BY <1>2, <1>6, <2>1
<1>7. e.seen[Key(x, m)] = e.drawn
  BY <1>1, <1>2 DEF ControlInv, EntriesCount
<1> HIDE DEF e, f
<1>8. /\ f \in [spec : {x}, seen : Counters, drawn : Nat]
      /\ f.spec = x /\ f.drawn = e.drawn + 1 /\ f.seen[key] = e.seen[key] + 1
  <2>1. /\ e.spec = x /\ e.seen \in Counters /\ e.drawn \in Nat
        /\ e = [spec |-> x, seen |-> e.seen, drawn |-> e.drawn]
    BY <1>5
  <2>2. PICK c : c = [e.seen EXCEPT ![key] = @ + 1]
    OBVIOUS
  <2>3. c \in Counters /\ c[key] = e.seen[key] + 1
    BY <1>4, <1>6, <2>1, <2>2 DEF Counters
  <2>4. f = [spec |-> x, seen |-> c, drawn |-> e.drawn + 1]
    BY <1>k, <2>1, <2>2
  <2>5. e.drawn + 1 \in Nat
    BY <2>1
  <2> QED BY <2>3, <2>4, <2>5
<1>9. \A l \in Methods : Matches(x, l) => Key(x, l) = Key(x, m)
  BY <1>1, <1>3, OneKey
<1> QED BY <1>0, <1>6, <1>7, <1>8, <1>9 DEF e, f

LEMMA AskKeepsEntries ==
  ASSUME ControlInv, NEW m \in Methods, Ask(m)
  PROVE  EntriesOfSet' /\ EntriesCount'
<1>1. EntriesOfSet'
  <2>1. ASSUME NEW k \in KindsOf(CurrentSet)
        PROVE  ctlEntries'[k] \in [spec : {SpecOf(CurrentSet, k)}, seen : Counters, drawn : Nat]
    <3>1. CASE k \in DrawsFor(m)
      BY <3>1, AskDraws
    <3>2. CASE k \notin DrawsFor(m)
      BY <3>2, AskEntries DEF ControlInv, EntriesOfSet
    <3> QED BY <3>1, <3>2
  <2> QED BY <2>1, AskEntries DEF EntriesOfSet
<1>2. ASSUME NEW k \in KindsOf(CurrentSet) \ {"teardown"}
      PROVE  LET f == ctlEntries'[k]
             IN  /\ f.drawn = Cardinality(Matching(decided', f.spec, installs[Len(installs)].at, total'))
                 /\ \A l \in Methods : Matches(f.spec, l) => f.seen[Key(f.spec, l)] = f.drawn
  <2> DEFINE e == ctlEntries[k]
             f == ctlEntries'[k]
  <2>x. PICK x : x = SpecOf(CurrentSet, k)
    OBVIOUS
  <2>0. PICK t \in Nat : t = total
    BY AskHistory
  <2>1. PICK n \in Nat : n = installs[Len(installs)].at /\ n <= t
    BY <2>0, CurrentFacts
  <2>2. e.spec = x /\ e.drawn \in Nat
    BY <2>x, CurrentFacts
  <2>3. /\ e.drawn = Cardinality(Matching(decided, x, n, t))
        /\ \A l \in Methods : Matches(x, l) => e.seen[Key(x, l)] = e.drawn
    BY <2>0, <2>1, <2>2 DEF ControlInv, EntriesCount
  <2>4. Cardinality(Matching(decided', x, n, t + 1)) = e.drawn + (IF Matches(x, m) THEN 1 ELSE 0)
    BY <2>0, <2>1, <2>3, AskMatching
  <2>5. k \in DrawsFor(m) <=> Matches(x, m)
    BY <2>x, AskedKinds
  <2>6. /\ f.spec = x /\ f.drawn = e.drawn + (IF Matches(x, m) THEN 1 ELSE 0)
        /\ \A l \in Methods : Matches(x, l) => f.seen[Key(x, l)] = f.drawn
    <3>1. CASE Matches(x, m)
      BY <2>5, <2>x, <3>1, AskDraws
    <3>2. CASE ~Matches(x, m)
      <4>1. f = e
        BY <2>5, <3>2, AskEntries
      <4> QED BY <2>2, <2>3, <3>2, <4>1
    <3> QED BY <3>1, <3>2
  <2>7. total' = t + 1
    BY <2>0, AskHistory
  <2> QED BY <2>1, <2>4, <2>6, <2>7
<1>3. "teardown" \in KindsOf(CurrentSet) =>
        ctlEntries'["teardown"].drawn = Cardinality(Armings(arms, Len(installs), Len(arms)))
  <2>1. "teardown" \notin DrawsFor(m)
    BY AskedKinds
  <2>2. "teardown" \in KindsOf(CurrentSet) => ctlEntries'["teardown"] = ctlEntries["teardown"]
    BY <2>1, AskEntries
  <2> QED BY <2>2 DEF ControlInv, EntriesCount
<1>4. CurrentSet' = CurrentSet /\ installs' = installs /\ arms' = arms
  BY AskEntries DEF Ask
<1>5. EntriesCount'
  BY <1>2, <1>3, <1>4 DEF EntriesCount
<1> QED BY <1>1, <1>5

(* The sets of the history.                                                *)
LEMMA InstallFacts ==
  ASSUME ControlInv, NEW n \in DOMAIN installs
  PROVE  /\ n \in Nat /\ n <= Len(installs) /\ installs[n].at \in Nat /\ installs[n].at <= total
         /\ installs[n].set \in ControlSets
<1>1. installs \in Seq([at : Nat, set : ControlSets]) /\ HistoryComplete
  BY DEF ControlInv, ControlTypeOK
<1>2. installs[n] \in [at : Nat, set : ControlSets]
  BY <1>1, InSeq
<1> QED BY <1>1, <1>2 DEF HistoryComplete

(* What was decided stays right: a later request does not count for it.    *)
LEMMA AskKeepsRuled ==
  ASSUME ControlInv, NEW m \in Methods, Ask(m),
         NEW n \in DOMAIN installs, NEW k, NEW i \in DOMAIN decided
  PROVE  /\ InForce(n, i)' <=> InForce(n, i)
         /\ RuledBy(n, k, i)' <=> RuledBy(n, k, i)
<1>1. installs' = installs /\ stream' = stream
  BY DEF Ask
<1>2. decided'[i] = decided[i] /\ i \in Nat /\ i <= total /\ total \in Nat
  BY AskHistory
<1>3. ASSUME NEW x
      PROVE  Matching(decided', x, installs[n].at, i) = Matching(decided, x, installs[n].at, i)
  <2>1. PICK a \in Nat : a = installs[n].at
    BY InstallFacts
  <2>2. PICK t \in Nat : t = total
    BY <1>2
  <2>3. i \in Nat /\ i <= t
    BY <1>2, <2>2
  <2>4. Matching(decided', x, a, i) = Matching(decided, x, a, i)
    BY <2>2, <2>3, AskMatching
  <2> QED BY <2>1, <2>4
<1>4. InForce(n, i)' <=> InForce(n, i)
  BY <1>1 DEF InForce
<1>5. ASSUME NEW x, NEW j
      PROVE  Ruled(k, x, j)' <=> Ruled(k, x, j)
  BY <1>1 DEF Ruled
<1>6. RuledBy(n, k, i)' <=> RuledBy(n, k, i)
  <2> DEFINE x == SpecOf(installs[n].set, k)
             c == Cardinality(Matching(decided, x, installs[n].at, i))
  <2>1. RuledBy(n, k, i) <=> /\ k \in KindsOf(installs[n].set) /\ Matches(x, decided[i].method)
                             /\ Ruled(k, x, c)
    BY DEF RuledBy
  <2>2. RuledBy(n, k, i)' <=> /\ k \in KindsOf(installs[n].set) /\ Matches(x, decided[i].method)
                              /\ Ruled(k, x, c)
    BY <1>1, <1>2, <1>3 DEF RuledBy, Ruled
  <2> QED BY <2>1, <2>2
<1> QED BY <1>4, <1>6

(* The new request is decided as the current set rules.                    *)
LEMMA AskDecides ==
  ASSUME ControlInv, NEW m \in Methods, Ask(m), NEW t \in Nat, t = total,
         NEW n, n = Len(installs), NEW k, k # "teardown"
  PROVE  RuledBy(n, k, t + 1)' <=> k \in DrawsFor(m) /\ Fires(k, ctlEntries[k], m)
<1>1. installs' = installs /\ stream' = stream /\ decided'[t + 1].method = m
  BY AskHistory DEF Ask
<1>2. PICK x : x = SpecOf(CurrentSet, k)
  OBVIOUS
<1>3. PICK a \in Nat : a = installs[n].at /\ a <= t
  BY CurrentFacts
<1>4. k \in DrawsFor(m) <=> k \in KindsOf(CurrentSet) /\ Matches(x, m)
  BY <1>2, AskedKinds
<1>5. RuledBy(n, k, t + 1)' <=> /\ k \in DrawsFor(m)
                                /\ Ruled(k, x, Cardinality(Matching(decided', x, a, t + 1)))
  BY <1>1, <1>2, <1>3, <1>4 DEF RuledBy, CurrentSet, Ruled
<1>6. ASSUME k \in DrawsFor(m)
      PROVE  Fires(k, ctlEntries[k], m) <=> Ruled(k, x, Cardinality(Matching(decided', x, a, t + 1)))
  <2>1. k \in KindsOf(CurrentSet) \ {"teardown"} /\ Matches(x, m)
    BY <1>2, <1>6, AskedKinds
  <2>2. ctlEntries[k].spec = x
    BY <1>2, <2>1, CurrentFacts
  <2>3. ctlEntries[k].drawn = Cardinality(Matching(decided, x, a, t))
    BY <1>3, <2>1, <2>2 DEF ControlInv, EntriesCount
  <2>4. Cardinality(Matching(decided', x, a, t + 1)) = Cardinality(Matching(decided, x, a, t)) + 1
    BY <1>3, <2>1, AskMatching
  <2>5. Fires(k, ctlEntries[k], m) <=> Ruled(k, x, ctlEntries[k].drawn + 1)
    BY <1>2, <1>6, FiresAsRuled
  <2> QED BY <2>3, <2>4, <2>5
<1> QED BY <1>5, <1>6

LEMMA AskKeepsHistory ==
  ASSUME ControlInv, NEW m \in Methods, Ask(m)
  PROVE  HistoryComplete' /\ DecidedRight' /\ ArmedRight'
<1>1. installs' = installs /\ stream' = stream /\ arms' = arms
  BY DEF Ask
<1>2. PICK t \in Nat : t = total
  BY AskHistory
<1>3. /\ DOMAIN decided = 1 .. t /\ DOMAIN decided' = 1 .. t + 1 /\ total' = t + 1
      /\ Len(decided') = total' /\ \A i \in 1 .. t : decided'[i] = decided[i]
      /\ decided'[t + 1] = Decided(m)
  BY <1>2, AskHistory
<1>4. HistoryComplete'
  <2>1. ASSUME NEW n \in DOMAIN installs
        PROVE  installs[n].at <= total'
    BY <1>2, <1>3, <2>1, InstallFacts
  <2>2. ASSUME NEW i \in DOMAIN arms
        PROVE  arms[i].install \in DOMAIN installs /\ arms[i].request \in DOMAIN decided'
    BY <1>3 DEF ControlInv, HistoryComplete
  <2> QED BY <1>1, <1>3, <2>1, <2>2 DEF HistoryComplete
<1>5. ASSUME NEW i \in 1 .. t + 1
      PROVE  \E n \in DOMAIN installs :
               /\ InForce(n, i)'
               /\ decided'[i].error <=> RuledBy(n, "rtsp_error", i)'
               /\ decided'[i].lie <=> RuledBy(n, "sdp_lie", i)' /\ ~decided'[i].error
  <2>1. CASE i \in 1 .. t
    <3>1. PICK n \in DOMAIN installs :
             /\ InForce(n, i)
             /\ decided[i].error <=> RuledBy(n, "rtsp_error", i)
             /\ decided[i].lie <=> RuledBy(n, "sdp_lie", i) /\ ~decided[i].error
      BY <1>3, <2>1 DEF ControlInv, DecidedRight
    <3>2. /\ InForce(n, i)' <=> InForce(n, i)
          /\ RuledBy(n, "rtsp_error", i)' <=> RuledBy(n, "rtsp_error", i)
          /\ RuledBy(n, "sdp_lie", i)' <=> RuledBy(n, "sdp_lie", i)
      BY <1>3, <2>1, AskKeepsRuled
    <3>3. decided'[i] = decided[i]
      BY <1>3, <2>1
    <3> QED BY <3>1, <3>2, <3>3
  <2>2. CASE i = t + 1
    <3>1. PICK n \in DOMAIN installs : n = Len(installs)
      BY CurrentFacts
    <3>2. InForce(n, i)'
      <4>1. \A l \in DOMAIN installs : l <= n
        BY <3>1, InstallFacts
      <4>2. installs[n].at < i
        BY <1>2, <2>2, InstallFacts
      <4> QED BY <1>1, <4>1, <4>2 DEF InForce
    <3> DEFINE fired == {l \in DrawsFor(m) : Fires(l, ctlEntries[l], m)}
    <3>3. /\ RuledBy(n, "rtsp_error", i)' <=> "rtsp_error" \in fired
          /\ RuledBy(n, "sdp_lie", i)' <=> "sdp_lie" \in fired
      BY <1>2, <2>2, <3>1, AskDecides
    <3>4. fired \subseteq {"rtsp_error", "sdp_lie"}
      <4>1. \A l \in DrawsFor(m) : l \in KindsOf(CurrentSet) \ {"teardown"}
        BY AskedKinds
      <4>2. \A l \in KindsOf(CurrentSet) : l \in ControlKinds
        BY CurrentFacts
      <4> QED BY <4>1, <4>2 DEF ControlKinds
    <3>5. /\ Decided(m).error <=> "rtsp_error" \in fired
          /\ Decided(m).lie <=> fired = {"sdp_lie"}
      <4> DEFINE d == [method |-> m, error |-> "rtsp_error" \in fired, lie |-> fired = {"sdp_lie"}]
      <4>1. Decided(m) = d
        BY DEF Decided
      <4>2. d.error <=> "rtsp_error" \in fired
        <5> HIDE DEF fired
        <5> QED BY Zenon
      <4>3. d.lie <=> fired = {"sdp_lie"}
        <5> HIDE DEF fired
        <5> QED BY Zenon
      <4> HIDE DEF d, fired
      <4> QED BY <4>1, <4>2, <4>3, Zenon
    <3>6. /\ decided'[i].error <=> "rtsp_error" \in fired
          /\ decided'[i].lie <=> fired = {"sdp_lie"}
      <4>1. decided'[i] = Decided(m)
        BY <1>3, <2>2
      <4> HIDE DEF fired
      <4> QED BY <3>5, <4>1, Zenon
    <3>7. fired = {"sdp_lie"} <=> "sdp_lie" \in fired /\ "rtsp_error" \notin fired
      BY <3>4
    <3> QED BY <3>2, <3>3, <3>6, <3>7
  <2> QED BY <1>2, <2>1, <2>2
<1>6. DecidedRight'
  BY <1>1, <1>3, <1>5 DEF DecidedRight
<1>7. ArmedRight'
  <2>1. ASSUME NEW i \in DOMAIN arms
        PROVE  arms[i].armed <=> ArmedBy(arms[i].install, i)' /\ ~decided'[arms[i].request].error
    <3>1. arms[i].request \in 1 .. t
      BY <1>3 DEF ControlInv, HistoryComplete
    <3>2. decided'[arms[i].request] = decided[arms[i].request]
      BY <1>3, <3>1
    <3>3. PICK n : n = arms[i].install
      OBVIOUS
    <3>4. ArmedBy(n, i)' <=> ArmedBy(n, i)
      BY <1>1 DEF ArmedBy, Ruled
    <3>5. arms[i].armed <=> ArmedBy(n, i) /\ ~decided[arms[i].request].error
      BY <3>3 DEF ControlInv, ArmedRight
    <3>6. ArmedBy(arms[i].install, i)' <=> ArmedBy(n, i)'
      BY <1>1, <3>3 DEF ArmedBy
    <3> QED BY <3>2, <3>4, <3>5, <3>6
  <2> QED BY <1>1, <2>1 DEF ArmedRight
<1> QED BY <1>4, <1>6, <1>7

(***************************************************************************)
(* The steps.                                                              *)
(***************************************************************************)
(* A connection that asks goes on to answer, or to arm, by what was        *)
(* decided; the other connections are not concerned.                       *)
LEMMA AskServing ==
  ASSUME ControlInv, NEW m \in Methods, Ask(m), NEW c \in Conns, serving[c] = Idle,
         NEW at \in {"answer", "arm"},
         serving' = [serving EXCEPT ![c] = [at |-> at, request |-> total + 1, ok |-> ~Decided(m).error]]
  PROVE  /\ ControlTypeOK' /\ PlayKnows'
         /\ c \notin DOMAIN pendingLie
         /\ \A d \in Conns \ {c} : serving'[d] = serving[d]
         /\ serving'[c].at = at /\ serving'[c].request = total + 1
<1>1. ControlTypeOK /\ PlayKnows /\ LiesPending
  BY DEF ControlInv
<1>2. serving \in [Conns -> {Idle} \cup [at : {"answer", "arm"}, request : Nat, ok : BOOLEAN]]
  BY <1>1 DEF ControlTypeOK
<1>3. PICK ok \in BOOLEAN : ok = ~Decided(m).error
  OBVIOUS
<1>4. total + 1 \in Nat /\ DOMAIN decided \subseteq DOMAIN decided' /\ total + 1 \in DOMAIN decided'
      /\ decided'[total + 1] = Decided(m) /\ \A i \in DOMAIN decided : decided'[i] = decided[i]
  BY AskHistory
<1>5. /\ serving'[c] = [at |-> at, request |-> total + 1, ok |-> ok]
      /\ \A d \in Conns \ {c} : serving'[d] = serving[d]
  BY <1>2, <1>3
<1>6. serving' \in [Conns -> {Idle} \cup [at : {"answer", "arm"}, request : Nat, ok : BOOLEAN]]
  <2>1. [at |-> at, request |-> total + 1, ok |-> ok] \in [at : {"answer", "arm"}, request : Nat, ok : BOOLEAN]
    BY <1>4
  <2> QED BY <1>2, <1>3, <2>1
<1>7. ControlTypeOK'
  BY <1>1, <1>6, AskHistory DEF ControlTypeOK, Ask
<1>8. ASSUME NEW d \in Conns, serving'[d].at = "arm"
      PROVE  /\ serving'[d].request \in DOMAIN decided'
             /\ serving'[d].ok <=> ~decided'[serving'[d].request].error
  <2>1. CASE d = c
    <3>1. serving'[d].request = total + 1 /\ serving'[d].ok = ok
      BY <1>5, <2>1
    <3> QED BY <1>3, <1>4, <3>1
  <2>2. CASE d # c
    <3>1. serving'[d] = serving[d] /\ serving[d].at = "arm"
      BY <1>5, <1>8, <2>2
    <3>2. /\ serving[d].request \in DOMAIN decided
          /\ serving[d].ok <=> ~decided[serving[d].request].error
      BY <1>1, <3>1 DEF PlayKnows
    <3>3. decided'[serving[d].request] = decided[serving[d].request]
      BY <1>4, <3>2
    <3> QED BY <1>4, <3>1, <3>2, <3>3
  <2> QED BY <2>1, <2>2
<1>9. c \notin DOMAIN pendingLie
  <2>1. serving[c].at = "idle"
    BY DEF Idle
  <2> QED BY <1>1, <2>1 DEF LiesPending
<1> QED BY <1>5, <1>7, <1>8, <1>9 DEF PlayKnows

LEMMA DescribeKeeps ==
  ASSUME ControlInv, NEW c \in Conns, Describe(c)
  PROVE  ControlInv'
<1>1. Ask("describe") /\ "describe" \in Methods /\ serving[c] = Idle
  BY DEF Describe, Ask, Decide, Methods
<1>2. serving' = [serving EXCEPT ![c] = [at |-> "answer", request |-> total + 1, ok |-> ~Decided("describe").error]]
  BY DEF Describe
<1>3. /\ ControlTypeOK' /\ PlayKnows' /\ c \notin DOMAIN pendingLie
      /\ \A d \in Conns \ {c} : serving'[d] = serving[d]
      /\ serving'[c].at = "answer" /\ serving'[c].request = total + 1
  BY <1>1, <1>2, AskServing
<1>4. /\ \A i \in DOMAIN decided : decided'[i] = decided[i]
      /\ DOMAIN decided \subseteq DOMAIN decided' /\ total + 1 \in DOMAIN decided'
      /\ decided'[total + 1] = Decided("describe") /\ decided'[total + 1].method = "describe"
  BY <1>1, AskHistory
<1>5. LiesPending'
  <2>1. /\ DOMAIN pendingLie' \subseteq DOMAIN pendingLie \cup {c}
        /\ \A d \in DOMAIN pendingLie' :
             \/ d # c /\ d \in DOMAIN pendingLie /\ pendingLie'[d] = pendingLie[d]
             \/ d = c /\ pendingLie'[c] = total + 1 /\ Decided("describe").lie
    <3>1. CASE Decided("describe").lie
      <4>1. pendingLie' = [x \in DOMAIN pendingLie \cup {c} |->
                              IF x = c THEN total + 1 ELSE pendingLie[x]]
        BY <3>1 DEF Describe
      <4> QED BY <3>1, <4>1
    <3>2. CASE ~Decided("describe").lie
      <4>1. pendingLie' = pendingLie
        BY <3>2 DEF Describe
      <4> QED BY <1>3, <4>1
    <3> QED BY <3>1, <3>2
  <2>2. ASSUME NEW d \in DOMAIN pendingLie'
        PROVE  /\ d \in Conns /\ serving'[d].at = "answer" /\ serving'[d].request = pendingLie'[d]
               /\ pendingLie'[d] \in DOMAIN decided'
               /\ decided'[pendingLie'[d]].lie /\ decided'[pendingLie'[d]].method = "describe"
    <3>1. CASE d # c /\ d \in DOMAIN pendingLie /\ pendingLie'[d] = pendingLie[d]
      <4>1. /\ d \in Conns /\ serving[d].at = "answer" /\ serving[d].request = pendingLie[d]
            /\ pendingLie[d] \in DOMAIN decided
            /\ decided[pendingLie[d]].lie /\ decided[pendingLie[d]].method = "describe"
        BY <3>1 DEF ControlInv, LiesPending
      <4>2. serving'[d] = serving[d] /\ decided'[pendingLie[d]] = decided[pendingLie[d]]
        BY <1>3, <1>4, <3>1, <4>1
      <4> QED BY <1>4, <3>1, <4>1, <4>2
    <3>2. CASE d = c /\ pendingLie'[c] = total + 1 /\ Decided("describe").lie
      BY <1>3, <1>4, <3>2
    <3> QED BY <2>1, <3>1, <3>2
  <2> QED BY <2>2 DEF LiesPending
<1> QED BY <1>1, <1>3, <1>5, AskKeepsEntries, AskKeepsHistory DEF ControlInv

(* SETUP and PLAY leave the lies alone.                                    *)
LEMMA SetupPlayKeep ==
  ASSUME ControlInv, NEW c \in Conns, Setup(c) \/ Play(c)
  PROVE  ControlInv'
<1>1. PICK m \in Methods, at \in {"answer", "arm"} :
        /\ Ask(m)
        /\ serving' = [serving EXCEPT ![c] = [at |-> at, request |-> total + 1, ok |-> ~Decided(m).error]]
  <2>1. CASE Setup(c)
    <3>1. "setup" \in Methods /\ Ask("setup")
      BY <2>1 DEF Setup, Ask, Decide, Methods
    <3>2. serving' = [serving EXCEPT ![c] = [at |-> "answer", request |-> total + 1, ok |-> ~Decided("setup").error]]
      BY <2>1 DEF Setup
    <3> QED BY <3>1, <3>2
  <2>2. CASE Play(c)
    <3>1. "play" \in Methods /\ Ask("play")
      BY <2>2 DEF Play, Ask, Decide, Methods
    <3>2. serving' = [serving EXCEPT ![c] = [at |-> "arm", request |-> total + 1, ok |-> ~Decided("play").error]]
      BY <2>2 DEF Play
    <3> QED BY <3>1, <3>2
  <2> QED BY <2>1, <2>2
<1>2. pendingLie' = pendingLie /\ serving[c] = Idle
  BY DEF Setup, Play
<1>3. /\ ControlTypeOK' /\ PlayKnows' /\ c \notin DOMAIN pendingLie
      /\ \A d \in Conns \ {c} : serving'[d] = serving[d]
  BY <1>1, <1>2, AskServing
<1>4. /\ \A i \in DOMAIN decided : decided'[i] = decided[i]
      /\ DOMAIN decided \subseteq DOMAIN decided'
  BY <1>1, AskHistory
<1>5. LiesPending'
  <2>1. ASSUME NEW d \in DOMAIN pendingLie
        PROVE  /\ d \in Conns /\ serving'[d].at = "answer" /\ serving'[d].request = pendingLie[d]
               /\ pendingLie[d] \in DOMAIN decided'
               /\ decided'[pendingLie[d]].lie /\ decided'[pendingLie[d]].method = "describe"
    <3>1. /\ d \in Conns /\ serving[d].at = "answer" /\ serving[d].request = pendingLie[d]
          /\ pendingLie[d] \in DOMAIN decided
          /\ decided[pendingLie[d]].lie /\ decided[pendingLie[d]].method = "describe"
      BY DEF ControlInv, LiesPending
    <3>2. serving'[d] = serving[d] /\ decided'[pendingLie[d]] = decided[pendingLie[d]]
      BY <1>3, <1>4, <3>1
    <3> QED BY <1>4, <3>1, <3>2
  <2> QED BY <1>2, <2>1 DEF LiesPending
<1> QED BY <1>1, <1>3, <1>5, AskKeepsEntries, AskKeepsHistory DEF ControlInv

(* Steps that only end or begin something on one connection.               *)
LEMMA ConnectionKeeps ==
  ASSUME ControlInv, NEW c \in Conns,
         UNCHANGED <<stream, ctlEntries, total, controlHistory>>,
         NEW s \in {Idle} \cup [at : {"answer"}, request : Nat, ok : BOOLEAN],
         serving' = [serving EXCEPT ![c] = s],
         \A d \in DOMAIN pendingLie' :
           d # c /\ d \in DOMAIN pendingLie /\ pendingLie'[d] = pendingLie[d]
  PROVE  ControlInv'
<1>1. ControlTypeOK /\ PlayKnows /\ LiesPending
  BY DEF ControlInv
<1>2. UNCHANGED <<stream, ctlEntries, total, decided, installs, arms>>
  BY DEF controlHistory
<1>3. serving \in [Conns -> {Idle} \cup [at : {"answer", "arm"}, request : Nat, ok : BOOLEAN]]
  BY <1>1 DEF ControlTypeOK
<1>4. s \in {Idle} \cup [at : {"answer", "arm"}, request : Nat, ok : BOOLEAN] /\ s.at # "arm"
  BY DEF Idle
<1>5. /\ serving' \in [Conns -> {Idle} \cup [at : {"answer", "arm"}, request : Nat, ok : BOOLEAN]]
      /\ serving'[c] = s /\ \A d \in Conns \ {c} : serving'[d] = serving[d]
  BY <1>3, <1>4
<1>6. ControlTypeOK'
  BY <1>1, <1>2, <1>5 DEF ControlTypeOK
<1>7. PlayKnows'
  BY <1>1, <1>2, <1>4, <1>5 DEF PlayKnows
<1>8. LiesPending'
  BY <1>1, <1>2, <1>5 DEF LiesPending
<1>9. EntriesOfSet' /\ HistoryComplete' /\ EntriesCount' /\ DecidedRight' /\ ArmedRight'
  <2>1. CurrentSet' = CurrentSet
    BY <1>2 DEF CurrentSet
  <2>2. EntriesOfSet'
    BY <1>2, <2>1 DEF ControlInv, EntriesOfSet
  <2>3. HistoryComplete'
    BY <1>2 DEF ControlInv, HistoryComplete
  <2>4. EntriesCount'
    BY <1>2, <2>1 DEF ControlInv, EntriesCount
  <2>5. DecidedRight'
    BY <1>2 DEF ControlInv, DecidedRight, InForce, RuledBy, Ruled
  <2>6. ArmedRight'
    BY <1>2 DEF ControlInv, ArmedRight, ArmedBy, Ruled
  <2> QED BY <2>2, <2>3, <2>4, <2>5, <2>6
<1> QED BY <1>6, <1>7, <1>8, <1>9 DEF ControlInv

LEMMA OtherAnswerCloseKeep ==
  ASSUME ControlInv, NEW c \in Conns, OtherRequest(c) \/ Answer(c) \/ CloseConn(c)
  PROVE  ControlInv'
<1>1. LiesPending
  BY DEF ControlInv
<1>2. CASE OtherRequest(c)
  <2>1. serving[c].at # "answer"
    BY <1>2 DEF OtherRequest, Idle
  <2>2. \A d \in DOMAIN pendingLie : d # c
    BY <1>1, <2>1 DEF LiesPending
  <2>3. PICK ok \in BOOLEAN : serving' = [serving EXCEPT ![c] = [at |-> "answer", request |-> 0, ok |-> ok]]
    BY <1>2 DEF OtherRequest
  <2>4. [at |-> "answer", request |-> 0, ok |-> ok]
          \in {Idle} \cup [at : {"answer"}, request : Nat, ok : BOOLEAN]
    OBVIOUS
  <2>5. pendingLie' = pendingLie /\ UNCHANGED <<stream, ctlEntries, total, controlHistory>>
    BY <1>2 DEF OtherRequest
  <2> QED BY <2>2, <2>3, <2>4, <2>5, ConnectionKeeps
<1>3. CASE Answer(c) \/ CloseConn(c)
  <2>1. serving' = [serving EXCEPT ![c] = Idle] /\ UNCHANGED <<stream, ctlEntries, total, controlHistory>>
    BY <1>3 DEF Answer, CloseConn
  <2>2. pendingLie' = [x \in DOMAIN pendingLie \ {c} |-> pendingLie[x]]
    BY <1>3 DEF Answer, CloseConn, TakeLie, Without
  <2>3. \A d \in DOMAIN pendingLie' :
          d # c /\ d \in DOMAIN pendingLie /\ pendingLie'[d] = pendingLie[d]
    BY <2>2
  <2> QED BY <2>1, <2>3, ConnectionKeeps
<1> QED BY <1>2, <1>3

(* Arming counts the draw of the teardown, and decides no request.         *)
LEMMA ArmKeeps ==
  ASSUME ControlInv, NEW c \in Conns, Arm(c)
  PROVE  ControlInv'
<1>1. /\ ControlTypeOK /\ EntriesOfSet /\ HistoryComplete /\ EntriesCount
      /\ DecidedRight /\ ArmedRight /\ PlayKnows /\ LiesPending
  BY DEF ControlInv
<1>2. serving[c].at = "arm" /\ UNCHANGED <<stream, total, pendingLie, decided, installs>>
  BY DEF Arm
<1>3. PICK K \in Nat : K = Len(arms) /\ DOMAIN arms = 1 .. K
  BY <1>1 DEF ControlTypeOK
<1>4. PICK n \in DOMAIN installs : n = Len(installs)
  BY CurrentFacts
<1>5. PICK x : x = SpecOf(CurrentSet, "teardown")
  OBVIOUS
<1>6. PICK drawn : drawn = ctlEntries["teardown"].drawn
  OBVIOUS
<1>7. "teardown" \in KindsOf(CurrentSet) =>
        /\ ctlEntries["teardown"] \in [spec : {x}, seen : Counters, drawn : Nat]
        /\ x.kind = "teardown" /\ Accepts(x) /\ ctlEntries["teardown"].spec = x
        /\ drawn \in Nat /\ drawn = Cardinality(Armings(arms, n, K))
  BY <1>1, <1>3, <1>4, <1>5, <1>6, CurrentFacts DEF EntriesOfSet, EntriesCount
<1>8. TakesDraw(c) <=> "teardown" \in KindsOf(CurrentSet)
  BY CurrentFacts DEF TakesDraw
<1>9. /\ serving[c].request \in DOMAIN decided
      /\ serving[c].ok <=> ~decided[serving[c].request].error
      /\ serving[c].request \in Nat
  <2>1. /\ serving[c].request \in DOMAIN decided
        /\ serving[c].ok <=> ~decided[serving[c].request].error
    BY <1>1, <1>2 DEF PlayKnows
  <2>2. DOMAIN decided \subseteq Nat
    BY <1>1 DEF ControlTypeOK
  <2> QED BY <2>1, <2>2
<1>10. PICK armed \in BOOLEAN :
         /\ armed <=> /\ TakesDraw(c) /\ stream["teardown"][drawn + 1] < DrawRate(x)
                      /\ serving[c].ok
         /\ arms' = Append(arms, [request |-> serving[c].request, install |-> Len(installs), armed |-> armed])
  <2> DEFINE e == ctlEntries["teardown"]
             armed == (TakesDraw(c) /\ stream["teardown"][e.drawn + 1] < DrawRate(e.spec)) /\ serving[c].ok
  <2>1. arms' = Append(arms, [request |-> serving[c].request, install |-> Len(installs), armed |-> armed])
    BY DEF Arm
  <2>2. PICK b \in BOOLEAN : b = armed
    OBVIOUS
  <2>3. armed <=> /\ TakesDraw(c) /\ stream["teardown"][drawn + 1] < DrawRate(x)
                  /\ serving[c].ok
    BY <1>6, <1>7, <1>8
  <2> HIDE DEF armed
  <2> QED BY <2>1, <2>2, <2>3
<1>11. /\ Len(arms') = K + 1 /\ DOMAIN arms' = 1 .. K + 1
       /\ \A i \in 1 .. K : arms'[i] = arms[i]
       /\ arms'[K + 1] = [request |-> serving[c].request, install |-> n, armed |-> armed]
       /\ arms' \in Seq([request : Nat, install : Nat, armed : BOOLEAN])
  <2>1. arms \in Seq([request : Nat, install : Nat, armed : BOOLEAN]) /\ installs \in Seq([at : Nat, set : ControlSets])
    BY <1>1 DEF ControlTypeOK
  <2>2. [request |-> serving[c].request, install |-> n, armed |-> armed]
          \in [request : Nat, install : Nat, armed : BOOLEAN]
    BY <1>4, <1>9, <2>1
  <2>3. arms' = Append(arms, [request |-> serving[c].request, install |-> n, armed |-> armed])
    BY <1>4, <1>10
  <2> QED BY <1>3, <2>1, <2>2, <2>3
<1>12. /\ \A l, i : i \in 0 .. K => Armings(arms', l, i) = Armings(arms, l, i)
       /\ Cardinality(Armings(arms', n, K + 1)) = Cardinality(Armings(arms, n, K)) + 1
  <2>1. ASSUME NEW l, NEW i \in 0 .. K
        PROVE  Armings(arms', l, i) = Armings(arms, l, i)
    BY <1>11 DEF Armings
  <2>2. Armings(arms', n, K + 1) = Armings(arms, n, K) \cup {K + 1}
    <3>1. 1 .. K + 1 = (1 .. K) \cup {K + 1}
      OBVIOUS
    <3>2. arms'[K + 1].install = n
      BY <1>11
    <3> QED BY <1>11, <3>1, <3>2 DEF Armings
  <2>3. K + 1 \notin Armings(arms, n, K)
    BY DEF Armings
  <2> QED BY <2>1, <2>2, <2>3, ArmingsFinite, CountOneMore
<1>13. /\ CurrentSet' = CurrentSet
       /\ ctlEntries' = [k \in KindsOf(CurrentSet) |-> ctlEntries'[k]]
       /\ \A k \in KindsOf(CurrentSet) \ {"teardown"} : ctlEntries'[k] = ctlEntries[k]
       /\ "teardown" \in KindsOf(CurrentSet) =>
            ctlEntries'["teardown"] \in [spec : {x}, seen : Counters, drawn : {drawn + 1}]
  <2>1. CurrentSet' = CurrentSet
    BY <1>2 DEF CurrentSet
  <2>2. DOMAIN ctlEntries = KindsOf(CurrentSet) /\ ctlEntries = [k \in KindsOf(CurrentSet) |-> ctlEntries[k]]
    BY <1>1, CurrentFacts DEF EntriesOfSet
  <2>3. CASE "teardown" \in KindsOf(CurrentSet)
    <3>1. ctlEntries' = [ctlEntries EXCEPT !["teardown"].drawn = @ + 1]
      BY <1>8, <2>3 DEF Arm
    <3>2. PICK e : e = ctlEntries["teardown"]
      OBVIOUS
    <3>3. ctlEntries' = [ctlEntries EXCEPT !["teardown"] = [e EXCEPT !.drawn = @ + 1]]
      BY <3>1, <3>2
    <3>4. e \in [spec : {x}, seen : Counters, drawn : Nat] /\ e.drawn = drawn
      BY <1>6, <1>7, <2>3, <3>2
    <3>5. [e EXCEPT !.drawn = @ + 1] \in [spec : {x}, seen : Counters, drawn : {drawn + 1}]
      BY <3>4
    <3> QED BY <2>1, <2>2, <2>3, <3>3, <3>5
  <2>4. CASE "teardown" \notin KindsOf(CurrentSet)
    <3>1. ctlEntries' = ctlEntries
      BY <1>8, <2>4 DEF Arm
    <3> QED BY <2>1, <2>2, <2>4, <3>1
  <2> QED BY <2>3, <2>4
<1>14. EntriesOfSet'
  <2>1. ASSUME NEW k \in KindsOf(CurrentSet)
        PROVE  ctlEntries'[k] \in [spec : {SpecOf(CurrentSet, k)}, seen : Counters, drawn : Nat]
    <3>1. CASE k = "teardown"
      <4>1. drawn + 1 \in Nat
        BY <1>7, <3>1
      <4> QED BY <1>5, <1>13, <3>1, <4>1
    <3>2. CASE k # "teardown"
      BY <1>1, <1>13, <3>2 DEF EntriesOfSet
    <3> QED BY <3>1, <3>2
  <2> QED BY <1>13, <2>1 DEF EntriesOfSet
<1>15. EntriesCount'
  <2>1. ASSUME NEW k \in KindsOf(CurrentSet) \ {"teardown"}
        PROVE  LET e == ctlEntries'[k]
               IN  /\ e.drawn = Cardinality(Matching(decided, e.spec, installs[Len(installs)].at, total))
                   /\ \A m \in Methods : Matches(e.spec, m) => e.seen[Key(e.spec, m)] = e.drawn
    BY <1>1, <1>13 DEF EntriesCount
  <2>2. "teardown" \in KindsOf(CurrentSet) =>
          ctlEntries'["teardown"].drawn = Cardinality(Armings(arms', Len(installs), Len(arms')))
    <3>1. ASSUME "teardown" \in KindsOf(CurrentSet)
          PROVE  ctlEntries'["teardown"].drawn = drawn + 1 /\ drawn = Cardinality(Armings(arms, n, K))
      BY <1>7, <1>13, <3>1
    <3> QED BY <1>4, <1>11, <1>12, <3>1
  <2> QED BY <1>2, <1>13, <2>1, <2>2 DEF EntriesCount
<1>16. HistoryComplete'
  <2>1. ASSUME NEW i \in 1 .. K + 1
        PROVE  arms'[i].install \in DOMAIN installs /\ arms'[i].request \in DOMAIN decided
    <3>1. CASE i \in 1 .. K
      BY <1>1, <1>3, <1>11, <3>1 DEF HistoryComplete
    <3>2. CASE i = K + 1
      BY <1>4, <1>9, <1>11, <3>2
    <3> QED BY <3>1, <3>2
  <2> QED BY <1>1, <1>2, <1>11, <2>1 DEF HistoryComplete
<1>17. ArmedRight'
  <2>1. ASSUME NEW i \in 1 .. K + 1, NEW l, l = arms'[i].install
        PROVE  arms'[i].armed <=> ArmedBy(l, i)' /\ ~decided[arms'[i].request].error
    <3>1. CASE i \in 1 .. K
      <4>2. arms'[i] = arms[i] /\ i \in DOMAIN arms /\ i \in 0 .. K
        BY <1>3, <1>11, <3>1
      <4>1. l = arms[i].install
        BY <2>1, <4>2
      <4>3. arms[i].armed <=> ArmedBy(l, i) /\ ~decided[arms[i].request].error
        BY <1>1, <4>1, <4>2 DEF ArmedRight
      <4>4. Armings(arms', l, i) = Armings(arms, l, i)
        BY <1>12, <4>2
      <4>5. ArmedBy(l, i)' <=> ArmedBy(l, i)
        BY <1>2, <4>4 DEF ArmedBy, Ruled
      <4> QED BY <4>2, <4>3, <4>5
    <3>2. CASE i = K + 1
      <4>1. arms'[i].install = n /\ arms'[i].request = serving[c].request /\ arms'[i].armed = armed
        BY <1>11, <3>2
      <4>2. installs[n].set = CurrentSet
        BY <1>4 DEF CurrentSet
      <4>3. ArmedBy(n, i)' <=> /\ "teardown" \in KindsOf(CurrentSet)
                               /\ Ruled("teardown", x, Cardinality(Armings(arms', n, i)))
        BY <1>2, <1>5, <4>2 DEF ArmedBy, Ruled
      <4>4. "teardown" \in KindsOf(CurrentSet) =>
              (Ruled("teardown", x, Cardinality(Armings(arms', n, i)))
                 <=> stream["teardown"][drawn + 1] < DrawRate(x))
        BY <1>7, <1>12, <3>2, TeardownDraws
      <4>5. l = n
        BY <2>1, <4>1
      <4> QED BY <1>8, <1>9, <1>10, <4>1, <4>3, <4>4, <4>5
    <3> QED BY <3>1, <3>2
  <2> QED BY <1>2, <1>11, <2>1 DEF ArmedRight, ArmedBy
<1>18. DecidedRight'
  BY <1>1, <1>2 DEF DecidedRight, InForce, RuledBy, Ruled
<1>19. serving' \in [Conns -> {Idle} \cup [at : {"answer", "arm"}, request : Nat, ok : BOOLEAN]]
       /\ serving'[c].at = "answer" /\ \A d \in Conns \ {c} : serving'[d] = serving[d]
  <2>1. serving \in [Conns -> {Idle} \cup [at : {"answer", "arm"}, request : Nat, ok : BOOLEAN]]
    BY <1>1 DEF ControlTypeOK
  <2>2. serving[c] \in [at : {"answer", "arm"}, request : Nat, ok : BOOLEAN]
    BY <1>2, <2>1 DEF Idle
  <2>3. PICK s : s = [serving[c] EXCEPT !.at = "answer"]
    OBVIOUS
  <2>4. s \in [at : {"answer", "arm"}, request : Nat, ok : BOOLEAN] /\ s.at = "answer"
    BY <2>2, <2>3
  <2>5. serving' = [serving EXCEPT ![c] = s]
    BY <2>3 DEF Arm
  <2> QED BY <2>1, <2>4, <2>5
<1>20. ControlTypeOK'
  BY <1>1, <1>2, <1>11, <1>19 DEF ControlTypeOK
<1>21. PlayKnows' /\ LiesPending'
  <2>1. PlayKnows'
    BY <1>1, <1>2, <1>19 DEF PlayKnows
  <2>2. \A d \in DOMAIN pendingLie : d # c
    BY <1>1, <1>2 DEF LiesPending
  <2>3. LiesPending'
    BY <1>1, <1>2, <1>19, <2>2 DEF LiesPending
  <2> QED BY <2>1, <2>3
<1> QED BY <1>14, <1>15, <1>16, <1>17, <1>18, <1>20, <1>21 DEF ControlInv

(* The entries of a set that has just come have counted nothing.           *)
LEMMA FreshFacts ==
  ASSUME NEW set \in ControlSets
  PROVE  /\ Fresh(set) = [k \in KindsOf(set) |-> Fresh(set)[k]]
         /\ \A k \in KindsOf(set) :
              LET e == Fresh(set)[k]
              IN  /\ e \in [spec : {SpecOf(set, k)}, seen : Counters, drawn : Nat]
                  /\ e.drawn = 0
                  /\ k # "teardown" =>
                       \A m \in Methods : Matches(e.spec, m) => e.seen[Key(e.spec, m)] = 0
<1>1. Fresh(set) = [k \in KindsOf(set) |-> Fresh(set)[k]]
  BY DEF Fresh
<1>2. ASSUME NEW k \in KindsOf(set)
      PROVE  LET e == Fresh(set)[k]
             IN  /\ e \in [spec : {SpecOf(set, k)}, seen : Counters, drawn : Nat]
                 /\ e.drawn = 0
                 /\ k # "teardown" =>
                      \A m \in Methods : Matches(e.spec, m) => e.seen[Key(e.spec, m)] = 0
  <2>1. PICK x : x = SpecOf(set, k)
    OBVIOUS
  <2>2. Fresh(set)[k] = [spec |-> x, seen |-> [m \in Methods \cup {"all"} |-> 0], drawn |-> 0]
    BY <2>1 DEF Fresh, Entry
  <2>3. x.kind = k /\ k \in ControlKinds
    BY <2>1, SpecOfKind
  <2>4. ASSUME NEW m \in Methods, Matches(x, m), k # "teardown"
        PROVE  Key(x, m) \in Methods \cup {"all"}
    <3>1. x.kind \in {"rtsp_error", "sdp_lie"}
      BY <2>3, <2>4 DEF ControlKinds
    <3> QED BY <2>4, <3>1, OneKey
  <2>5. PICK c \in Counters : c = [m \in Methods \cup {"all"} |-> 0]
    BY DEF Counters
  <2>6. Fresh(set)[k] = [spec |-> x, seen |-> c, drawn |-> 0]
    BY <2>2, <2>5
  <2> QED BY <2>1, <2>4, <2>5, <2>6
<1> QED BY <1>1, <1>2

LEMMA SetControlKeeps ==
  ASSUME ControlInv, NEW set \in ControlSets, SetControl(set)
  PROVE  ControlInv'
<1>1. /\ ControlTypeOK /\ EntriesOfSet /\ HistoryComplete /\ EntriesCount
      /\ DecidedRight /\ ArmedRight /\ PlayKnows /\ LiesPending
  BY DEF ControlInv
<1>2. /\ UNCHANGED <<stream, total, serving, pendingLie, decided, arms>>
      /\ installs' = Append(installs, [at |-> total, set |-> set]) /\ ctlEntries' = Fresh(set)
  BY DEF SetControl
<1>3. PICK N \in Nat : N = Len(installs) /\ DOMAIN installs = 1 .. N
  BY <1>1 DEF ControlTypeOK
<1>4. PICK t \in Nat : t = total
  BY <1>1 DEF ControlTypeOK
<1>5. /\ installs' \in Seq([at : Nat, set : ControlSets]) /\ installs' # <<>>
      /\ Len(installs') = N + 1 /\ DOMAIN installs' = 1 .. N + 1
      /\ \A i \in 1 .. N : installs'[i] = installs[i]
      /\ installs'[N + 1].at = t /\ installs'[N + 1].set = set
  <2>1. installs \in Seq([at : Nat, set : ControlSets])
    BY <1>1 DEF ControlTypeOK
  <2>2. [at |-> total, set |-> set] \in [at : Nat, set : ControlSets]
    BY <1>4
  <2> QED BY <1>2, <1>3, <1>4, <2>1, <2>2
<1>6. CurrentSet' = set
  BY <1>5 DEF CurrentSet
<1>7. EntriesOfSet'
  BY <1>2, <1>6, FreshFacts DEF EntriesOfSet
<1>8. DOMAIN decided = 1 .. t
  BY <1>1, <1>4 DEF ControlTypeOK, HistoryComplete
<1>9. HistoryComplete'
  <2>1. ASSUME NEW n \in DOMAIN installs'
        PROVE  installs'[n].at <= total
    <3>1. CASE n \in 1 .. N
      BY <1>1, <1>3, <1>5, <3>1 DEF HistoryComplete
    <3>2. CASE n = N + 1
      BY <1>4, <1>5, <3>2
    <3> QED BY <1>5, <3>1, <3>2
  <2>2. DOMAIN installs \subseteq DOMAIN installs'
    BY <1>3, <1>5
  <2> QED BY <1>1, <1>2, <2>1, <2>2 DEF HistoryComplete
<1>10. EntriesCount'
  <2>1. ASSUME NEW x
        PROVE  Cardinality(Matching(decided, x, t, t)) = 0
    <3>1. Matching(decided, x, t, t) = {}
      BY DEF Matching
    <3> QED BY <3>1, FS_EmptySet
  <2>2. Cardinality(Armings(arms, N + 1, Len(arms))) = 0
    <3>1. \A j \in 1 .. Len(arms) : arms[j].install # N + 1
      BY <1>1, <1>3 DEF HistoryComplete, ControlTypeOK
    <3>2. Armings(arms, N + 1, Len(arms)) = {}
      BY <3>1 DEF Armings
    <3> QED BY <3>2, FS_EmptySet
  <2>3. ASSUME NEW k \in KindsOf(set) \ {"teardown"}
        PROVE  LET e == Fresh(set)[k]
               IN  /\ e.drawn = Cardinality(Matching(decided, e.spec, installs'[Len(installs')].at, total))
                   /\ \A m \in Methods : Matches(e.spec, m) => e.seen[Key(e.spec, m)] = e.drawn
    <3>1. installs'[Len(installs')].at = t
      BY <1>5
    <3> QED BY <1>4, <2>1, <3>1, FreshFacts
  <2>4. "teardown" \in KindsOf(set) =>
          Fresh(set)["teardown"].drawn = Cardinality(Armings(arms, Len(installs'), Len(arms)))
    BY <1>5, <2>2, FreshFacts
  <2> QED BY <1>2, <1>6, <2>3, <2>4 DEF EntriesCount
<1>11. DecidedRight'
  <2>1. ASSUME NEW i \in DOMAIN decided
        PROVE  \E n \in DOMAIN installs' :
                 /\ InForce(n, i)'
                 /\ decided[i].error <=> RuledBy(n, "rtsp_error", i)'
                 /\ decided[i].lie <=> RuledBy(n, "sdp_lie", i)' /\ ~decided[i].error
    <3>1. PICK n \in DOMAIN installs :
            /\ InForce(n, i)
            /\ decided[i].error <=> RuledBy(n, "rtsp_error", i)
            /\ decided[i].lie <=> RuledBy(n, "sdp_lie", i) /\ ~decided[i].error
      BY <1>1 DEF DecidedRight
    <3>2. n \in 1 .. N /\ n \in DOMAIN installs' /\ installs'[n] = installs[n]
      BY <1>3, <1>5
    <3>3. InForce(n, i)'
      <4>1. ASSUME NEW m \in DOMAIN installs', installs'[m].at < i
            PROVE  m <= n
        <5>1. m # N + 1
          BY <1>5, <1>8, <4>1
        <5>2. m \in DOMAIN installs /\ installs[m].at < i
          BY <1>3, <1>5, <4>1, <5>1
        <5> QED BY <3>1, <5>2 DEF InForce
      <4> QED BY <3>1, <3>2, <4>1 DEF InForce
    <3>4. ASSUME NEW k
          PROVE  RuledBy(n, k, i)' <=> RuledBy(n, k, i)
      BY <1>2, <3>2 DEF RuledBy, Ruled
    <3> QED BY <3>1, <3>2, <3>3, <3>4
  <2> QED BY <1>2, <2>1 DEF DecidedRight
<1>12. ArmedRight'
  <2>1. ASSUME NEW i \in DOMAIN arms, NEW l, l = arms[i].install
        PROVE  arms[i].armed <=> ArmedBy(l, i)' /\ ~decided[arms[i].request].error
    <3>1. l \in 1 .. N /\ installs'[l] = installs[l]
      BY <1>1, <1>3, <1>5, <2>1 DEF HistoryComplete
    <3>2. ArmedBy(l, i)' <=> ArmedBy(l, i)
      BY <1>2, <3>1 DEF ArmedBy, Ruled
    <3> QED BY <1>1, <2>1, <3>2 DEF ArmedRight
  <2> QED BY <1>2, <2>1 DEF ArmedRight, ArmedBy
<1>13. ControlTypeOK' /\ PlayKnows' /\ LiesPending'
  BY <1>1, <1>2, <1>5 DEF ControlTypeOK, PlayKnows, LiesPending
<1> QED BY <1>7, <1>9, <1>10, <1>11, <1>12, <1>13 DEF ControlInv

LEMMA ControlStart == ControlInit => ControlInv
<1> SUFFICES ASSUME ControlInit
             PROVE  ControlInv
  OBVIOUS
<1>1. PICK set \in ControlSets :
        /\ ctlEntries = Fresh(set) /\ total = 0 /\ serving = [c \in Conns |-> Idle]
        /\ pendingLie = <<>> /\ decided = <<>> /\ arms = <<>>
        /\ installs = <<[at |-> 0, set |-> set]>>
  BY DEF ControlInit
<1>2. /\ installs \in Seq([at : Nat, set : ControlSets]) /\ installs # <<>> /\ Len(installs) = 1
      /\ DOMAIN installs = {1} /\ installs[1].at = 0 /\ installs[1].set = set
  <2>1. [at |-> 0, set |-> set] \in [at : Nat, set : ControlSets]
    OBVIOUS
  <2> QED BY <1>1, <2>1
<1>3. /\ decided \in Seq(Decisions) /\ DOMAIN decided = {} /\ Len(decided) = 0
      /\ arms \in Seq([request : Nat, install : Nat, armed : BOOLEAN]) /\ DOMAIN arms = {}
      /\ Len(arms) = 0 /\ DOMAIN pendingLie = {}
  BY <1>1
<1>4. CurrentSet = set
  BY <1>2 DEF CurrentSet
<1>5. ControlTypeOK
  BY <1>1, <1>2, <1>3 DEF ControlTypeOK
<1>6. EntriesOfSet
  BY <1>1, <1>4, FreshFacts DEF EntriesOfSet
<1>7. EntriesCount
  <2>1. \A x : Cardinality(Matching(decided, x, 0, 0)) = 0
    <3> TAKE x
    <3>1. Matching(decided, x, 0, 0) = {}
      BY DEF Matching
    <3> QED BY <3>1, FS_EmptySet
  <2>2. Cardinality(Armings(arms, 1, 0)) = 0
    <3>1. Armings(arms, 1, 0) = {}
      BY DEF Armings
    <3> QED BY <3>1, FS_EmptySet
  <2>3. installs[Len(installs)].at = 0
    BY <1>2
  <2> QED BY <1>1, <1>2, <1>3, <1>4, <2>1, <2>2, <2>3, FreshFacts DEF EntriesCount
<1>8. HistoryComplete
  BY <1>1, <1>2, <1>3 DEF HistoryComplete
<1>9. DecidedRight /\ ArmedRight /\ LiesPending
  BY <1>3 DEF DecidedRight, ArmedRight, LiesPending
<1>10. PlayKnows
  BY <1>1 DEF PlayKnows, Idle
<1> QED BY <1>5, <1>6, <1>7, <1>8, <1>9, <1>10 DEF ControlInv

LEMMA ControlSteps == ControlInv /\ [ControlNext]_controlVars => ControlInv'
<1> SUFFICES ASSUME ControlInv, [ControlNext]_controlVars
             PROVE  ControlInv'
  OBVIOUS
<1>1. ASSUME NEW c \in Conns, Describe(c)
      PROVE  ControlInv'
  BY <1>1, DescribeKeeps
<1>2. ASSUME NEW c \in Conns, Setup(c) \/ Play(c)
      PROVE  ControlInv'
  BY <1>2, SetupPlayKeep
<1>3. ASSUME NEW c \in Conns, Arm(c)
      PROVE  ControlInv'
  BY <1>3, ArmKeeps
<1>4. ASSUME NEW c \in Conns, OtherRequest(c) \/ Answer(c) \/ CloseConn(c)
      PROVE  ControlInv'
  BY <1>4, OtherAnswerCloseKeep
<1>5. ASSUME NEW set \in ControlSets, SetControl(set)
      PROVE  ControlInv'
  BY <1>5, SetControlKeeps
<1>6. CASE UNCHANGED controlVars
  <2>1. UNCHANGED <<stream, ctlEntries, total, serving, pendingLie, decided, installs, arms>>
    BY <1>6 DEF controlVars
  <2>2. CurrentSet' = CurrentSet
    BY <2>1 DEF CurrentSet
  <2>3. ControlTypeOK' /\ HistoryComplete' /\ PlayKnows' /\ LiesPending'
    BY <2>1 DEF ControlInv, ControlTypeOK, HistoryComplete, PlayKnows, LiesPending
  <2>4. EntriesOfSet' /\ EntriesCount'
    BY <2>1, <2>2 DEF ControlInv, EntriesOfSet, EntriesCount
  <2>5. DecidedRight' /\ ArmedRight'
    BY <2>1 DEF ControlInv, DecidedRight, InForce, RuledBy, Ruled, ArmedRight, ArmedBy
  <2> QED BY <2>3, <2>4, <2>5 DEF ControlInv
<1> QED BY <1>1, <1>2, <1>3, <1>4, <1>5, <1>6 DEF ControlNext

(***************************************************************************)
(* The theorems.                                                           *)
(***************************************************************************)
LEMMA InvReplayable == ControlInv => Replayable
<1> SUFFICES ASSUME ControlInv
             PROVE  Replayable
  OBVIOUS
<1>1. ASSUME NEW i \in DOMAIN decided
      PROVE  /\ decided[i].error <=> RuledAt("rtsp_error", i)
             /\ decided[i].lie <=> RuledAt("sdp_lie", i) /\ ~decided[i].error
  <2>1. PICK n \in DOMAIN installs :
          /\ InForce(n, i)
          /\ decided[i].error <=> RuledBy(n, "rtsp_error", i)
          /\ decided[i].lie <=> RuledBy(n, "sdp_lie", i) /\ ~decided[i].error
    BY DEF ControlInv, DecidedRight
  <2>2. ASSUME NEW l \in DOMAIN installs, InForce(l, i)
        PROVE  l = n
    <3>1. l <= n /\ n <= l
      BY <2>1, <2>2 DEF InForce
    <3> QED BY <3>1, InstallFacts
  <2>3. InstallOf(i) = n
    <3>1. InForce(InstallOf(i), i)
      BY <2>1 DEF InForce, InstallOf
    <3> QED BY <2>2, <3>1 DEF InForce
  <2>4. ASSUME NEW k
        PROVE  RuledAt(k, i) <=> RuledBy(n, k, i)
    BY <2>3 DEF RuledAt, RuledBy, Matching
  <2> QED BY <2>1, <2>4
<1>2. ASSUME NEW i \in DOMAIN arms
      PROVE  LET a == arms[i]
                 set == installs[a.install].set
                 rank == Cardinality({j \in 1 .. i : arms[j].install = a.install})
             IN  a.armed <=> /\ "teardown" \in KindsOf(set)
                             /\ Ruled("teardown", SpecOf(set, "teardown"), rank)
                             /\ ~decided[a.request].error
  BY DEF ControlInv, ArmedRight, ArmedBy, Armings
<1> QED BY <1>1, <1>2 DEF Replayable

(* The control engine's state is what ControlTypeOK says.                  *)
THEOREM ControlTypeCorrect == ControlSpec => []ControlTypeOK
<1>1. ControlInv => ControlTypeOK
  BY DEF ControlInv
<1> QED BY <1>1, ControlStart, ControlSteps, PTL DEF ControlSpec

(* A run can be replayed: whatever the fault sets, the seed, the number of *)
(* connections and their interleaving with each other and with SetFaults,  *)
(* what happens to a request follows from the seed, the set it was decided *)
(* under and the matching requests since that set came.                    *)
THEOREM RunsAreReplayable == ControlSpec => []Replayable
BY ControlStart, ControlSteps, InvReplayable, PTL DEF ControlSpec

(* A lie is told only in the answer to the DESCRIBE it was decided for.    *)
THEOREM LiesStayOnTheirAnswer == ControlSpec => []LieOnOwnAnswer
<1>1. ControlInv => LieOnOwnAnswer
  BY DEF ControlInv, LiesPending, LieOnOwnAnswer
<1> QED BY <1>1, ControlStart, ControlSteps, PTL DEF ControlSpec
=============================================================================
