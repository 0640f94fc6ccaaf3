------------------------------ MODULE Catalogue ------------------------------
(***************************************************************************)
(* The fault kinds and the checks their parameters must pass               *)
(* (internal/fault/catalogue.go, control.go, validateFault of spec.go).    *)
(*                                                                         *)
(* A fault is its kind and those of its parameters that are set, which in  *)
(* the code are the ones that are not zero.  Rates and mean burst lengths  *)
(* are in parts of Unit.                                                   *)
(***************************************************************************)
EXTENDS Naturals

CONSTANT Unit
ASSUME CatalogueAssumption == Unit \in Nat \ {0}

Number(min, max) == [type |-> "number", min |-> min, max |-> max]
Enum(options) == [type |-> "enum", options |-> options]
Flag == [type |-> "boolean"]
Rate == Number(0, Unit)

Kind(params, required) == [implemented |-> TRUE, params |-> params, required |-> required]

(* Catalogue: the parameters of each kind, and those it requires.          *)
Kinds ==
  [frame_drop |-> Kind([rate |-> Rate, protectKeyframes |-> Flag], {}),
   packet_loss |-> Kind([rate |-> Rate, meanBurst |-> Number(Unit, 1000 * Unit),
                         protectKeyframes |-> Flag], {}),
   keyframe_starvation |-> Kind([keepEvery |-> Number(2, 1000)], {"keepEvery"}),
   rtsp_error |-> Kind([on |-> Enum({"describe", "setup", "play", "all"}),
                        status |-> Number(400, 599), rate |-> Rate,
                        onlyRequest |-> Number(1, 1000000)], {"on"}),
   teardown |-> Kind([afterFrames |-> Number(1, 100000), mode |-> Enum({"close", "reset"}),
                      rate |-> Rate], {"afterFrames"}),
   sdp_lie |-> Kind([mode |-> Enum({"codec", "sprop", "resolution", "contentBase"}),
                     rate |-> Rate, onlyRequest |-> Number(1, 1000000)], {"mode"}),
   jitter |-> Kind([maxMs |-> Number(1, 5000)], {"maxMs"}),
   burst_delivery |-> Kind([rate |-> Rate, holdFrames |-> Number(2, 300)], {"holdFrames"}),
   pts_dts_mismatch |-> Kind([reorderDepth |-> Number(1, 4)], {"reorderDepth"}),
   pts_delayed |-> Kind([delayMs |-> Number(1, 60000), driftPpm |-> Number(1, 100000)], {}),
   accept_then_silence |-> [implemented |-> FALSE, params |-> <<>>, required |-> {}]]

(* Spec.param: a parameter that is not set reads as zero.                  *)
Value(s, p) == IF p \in DOMAIN s.set THEN s.set[p] ELSE 0

Allowed(param, v) ==
  CASE param.type = "number" -> param.min <= v /\ v <= param.max
    [] param.type = "enum" -> v \in param.options
    [] param.type = "boolean" -> TRUE

(* mutant: any rate below one goes with any burst length.                  *)
LimitNone(rate, burst) == TRUE
(* The highest rate that losses in bursts of a mean length can reach is    *)
(* burst / (1 + burst).                                                    *)
Limit(rate, burst) == rate * (Unit + burst) <= burst * Unit

HasRequired(s) == Kinds[s.kind].required \subseteq DOMAIN s.set

(* checkParams: no parameter of another kind, none missing, each in its    *)
(* range, and the two rules that relate parameters.                        *)
CheckParams(s) ==
  LET burst == Value(s, "meanBurst")
  IN  /\ DOMAIN s.set \subseteq DOMAIN Kinds[s.kind].params
      /\ HasRequired(s)
      /\ \A p \in DOMAIN s.set : Allowed(Kinds[s.kind].params[p], s.set[p])
      /\ s.kind = "packet_loss" /\ burst # 0 =>
           /\ burst > Unit
           /\ Value(s, "rate") < Unit
           /\ Limit(Value(s, "rate"), burst)
      /\ s.kind = "pts_delayed" => Value(s, "delayMs") # 0 \/ Value(s, "driftPpm") # 0

(* validateFault: what a fleet file, AddCamera and Inject let through.     *)
Accepts(s) ==
  /\ s.kind \in DOMAIN Kinds /\ Kinds[s.kind].implemented
  /\ CheckParams(s)

(***************************************************************************)
(* What the engines make of a fault they are given.                        *)
(***************************************************************************)
(* rateOrOne.                                                              *)
RateOrOne(r) == IF r = 0 THEN Unit ELSE r

(* SetAt fills in the defaults of an rtsp_error: 503, and a fifth.         *)
WithDefaults(s) ==
  [status |-> IF Value(s, "status") = 0 THEN 503 ELSE Value(s, "status"),
   rate |-> IF Value(s, "rate") = 0 /\ Value(s, "onlyRequest") = 0 THEN Unit \div 5 ELSE Value(s, "rate")]

(* New: the probabilities of packet_loss with bursts, p from good to bad   *)
(* and q from bad to bad, as fractions <<numerator, denominator>>.         *)
LossP(s) == <<Value(s, "rate") * Unit, Value(s, "meanBurst") * (Unit - Value(s, "rate"))>>
LossQ(s) == <<Value(s, "meanBurst") - Unit, Value(s, "meanBurst")>>
Probability(f) == f[2] > 0 /\ 0 <= f[1] /\ f[1] <= f[2]

(* The engines can work with a fault: nothing is divided by zero or taken  *)
(* modulo zero, no hold, count-down or status is senseless, and what is    *)
(* compared with a draw is a probability.                                  *)
Workable(s) ==
  CASE s.kind = "packet_loss" ->
         IF Value(s, "meanBurst") > Unit THEN Probability(LossP(s)) /\ Probability(LossQ(s))
         ELSE Value(s, "rate") <= Unit
    [] s.kind = "keyframe_starvation" -> Value(s, "keepEvery") > 0
    [] s.kind = "burst_delivery" -> Value(s, "holdFrames") > 1
    [] s.kind = "teardown" -> Value(s, "afterFrames") > 0
    [] s.kind = "jitter" -> Value(s, "maxMs") > 0
    [] s.kind = "rtsp_error" -> WithDefaults(s).status \in 400 .. 599 /\ WithDefaults(s).rate <= Unit
    [] s.kind = "pts_delayed" -> Value(s, "delayMs") + Value(s, "driftPpm") > 0
    [] OTHER -> s.kind \in DOMAIN Kinds
=============================================================================
