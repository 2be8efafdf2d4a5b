----------------------------- MODULE CostPolicy ------------------------------
(***************************************************************************)
(* The evaluation of an execution policy: a ladder of five stages, cheapest *)
(* first, that says how a response came about, and the model calls it cost. *)
(* A pure function of the trace, evaluated here for every trace in bounds.  *)
(***************************************************************************)
EXTENDS Integers, Sequences, FiniteSets

CONSTANTS PolicyModels,   \* identifiers of models, as numbers in their order
          MaxCalls        \* model calls in a trace

ASSUME PolicyAssumption ==
    /\ PolicyModels \subseteq Nat \ {0} /\ 1 \in PolicyModels
    /\ MaxCalls \in Nat

VARIABLES trace,     \* the trace evaluated last
          verdict    \* and its verdict

policyVars == <<trace, verdict>>

LadderStages == <<"no_agent", "script", "targeted_read", "reuse_reference", "model">>

(* An attempt that did not suffice is accounted for by a reason, a reference to
   its evidence and a positive count of observations. *)
Outcomes == {"sufficient", "attempted", "unreasoned", "unevidenced", "skipped", "invalid"}

Calls == [role : {"executor", "correction", "judge"}, model : PolicyModels \cup {0},
          agrees : BOOLEAN, recursive : BOOLEAN, escalated : BOOLEAN]
Rosters == [PolicyModels -> [rank : 0 .. 1, capable : BOOLEAN]]

PlainCall(m) == [role |-> "executor", model |-> m, agrees |-> TRUE, recursive |-> FALSE,
                 escalated |-> FALSE]

(* Every ladder with at most one plain call, and every sequence of calls under
   the ladder that ends at the model. *)
Ladder(n) == [i \in 1 .. 5 |-> IF i < n THEN "attempted" ELSE IF i = n THEN "sufficient" ELSE "skipped"]

Traces ==
    [stages : [1 .. 5 -> Outcomes], roster : {[m \in PolicyModels |-> [rank |-> 0, capable |-> TRUE]]},
     twice : BOOLEAN, calls : {<<>>, <<PlainCall(1)>>}]
    \cup [stages : {Ladder(5)}, roster : Rosters, twice : {FALSE},
          calls : UNION {[1 .. n -> Calls] : n \in 0 .. MaxCalls}]

-----------------------------------------------------------------------------
(* The first stage that sufficed; 6 when none did. *)
SufficientIndex(t) ==
    LET found == {i \in 1 .. 5 : t.stages[i] = "sufficient"}
    IN  IF found = {} THEN 6 ELSE CHOOSE i \in found : \A j \in found : i <= j

StageReasons(t) ==
    LET first == SufficientIndex(t) IN
    {<<"POLICY_STAGE_REASON_MISSING", i>> : i \in {j \in 1 .. 5 : t.stages[j] = "unreasoned"}}
    \cup {<<"POLICY_STAGE_EVIDENCE_MISSING", i>> :
            i \in {j \in 1 .. 5 : j < first /\ t.stages[j] = "unevidenced"}}
    \cup {<<"POLICY_STAGE_INVALID", i>> :
            i \in {j \in 1 .. 5 : \/ t.stages[j] = "invalid"
                                  \/ j > first /\ t.stages[j] # "skipped"}}
    \cup {<<"POLICY_STAGE_SKIPPED", i>> :
            i \in {j \in 1 .. 5 : j < first /\ first < 6 /\ t.stages[j] = "skipped"}}
    \cup {<<"POLICY_NO_SUFFICIENT_STAGE", i>> : i \in {j \in {6} : first = j}}

LadderReasons(t) ==
    LET first == SufficientIndex(t) IN
    {<<"PRE_MODEL_STAGE_MODEL_CALL", i>> : i \in {j \in 1 .. 4 : first = j /\ t.calls # <<>>}}
    \cup {<<"MODEL_STAGE_WITHOUT_CALL", i>> : i \in {j \in {5} : t.stages[j] = "sufficient" /\ t.calls = <<>>}}
    \cup {<<"MODEL_ROSTER_INVALID", i>> : i \in {j \in {0} : t.twice}}

(* Mutant: every configured model is taken to be capable. *)
BugCapable(t) == DOMAIN t.roster

Capable(t) == {m \in PolicyModels : t.roster[m].capable}

LowestRank(t, models) == CHOOSE r \in 0 .. 1 : /\ \E m \in models : t.roster[m].rank = r
                                               /\ \A m \in models : r <= t.roster[m].rank

(* Whether the model of a call was the one to choose: configured, capable, no
   dearer than it must be, and the first of the models that cost the same. *)
ChoiceReasons(t, call) ==
    IF call.model = 0 THEN {"MODEL_NOT_CONFIGURED"}
    ELSE IF call.model \notin Capable(t) THEN {"MODEL_CAPABILITY_MISMATCH"}
    ELSE LET rank == t.roster[call.model].rank IN
         {r \in {"MODEL_NOT_CHEAPEST_CAPABLE"} :
            rank > LowestRank(t, Capable(t)) /\ ~call.escalated}
         \cup {r \in {"MODEL_ESCALATION_REASON_MISSING"} :
            rank > LowestRank(t, PolicyModels) /\ ~call.escalated}
         \cup {r \in {"MODEL_TIE_BREAK_MISMATCH"} :
            \E m \in Capable(t) : t.roster[m].rank = rank /\ m < call.model}

Corrections(t) == {i \in DOMAIN t.calls : t.calls[i].role = "correction"}

CallReasons(t) ==
    (UNION {{<<r, i>> : r \in ChoiceReasons(t, t.calls[i])
               \cup {s \in {"AUXILIARY_JUDGE_FORBIDDEN"} : t.calls[i].role = "judge"}
               \cup {s \in {"RECURSIVE_AGENT_FORBIDDEN"} : t.calls[i].recursive}
               \cup {s \in {"MODEL_REQUIREMENTS_MISMATCH"} : ~t.calls[i].agrees}}
            : i \in DOMAIN t.calls})
    \cup {<<"CORRECTION_BUDGET_EXCEEDED", i>> : i \in {j \in {0} : Cardinality(Corrections(t)) > 1}}

EvaluateExecutionPolicy(t) ==
    IF StageReasons(t) \cup LadderReasons(t) \cup CallReasons(t) = {} THEN "PASS" ELSE "FAIL"

-----------------------------------------------------------------------------
NoTrace == [stages |-> [i \in 1 .. 5 |-> "skipped"], calls |-> <<>>, twice |-> FALSE,
            roster |-> [m \in PolicyModels |-> [rank |-> 0, capable |-> TRUE]]]

PolicyInit == trace = NoTrace /\ verdict = "FAIL"

Evaluate ==
    /\ trace = NoTrace
    /\ trace' \in Traces
    /\ verdict' = EvaluateExecutionPolicy(trace')

PolicyNext == Evaluate
PolicySpec == PolicyInit /\ [][PolicyNext]_policyVars

(* What the evaluation is there for: a trace passes when and only when it climbed
   the ladder stage by stage with an account of each and stopped at the first that
   sufficed, and called models at the last stage only: an executor or a single
   correction, by the first of the cheapest models that can do the work, or, with a
   reason to escalate, by the first of its own rank. (cost-policy.ts,
   evaluateExecutionPolicy) *)
LeastCost(t) ==
    /\ \E n \in 1 .. 5 : /\ t.stages = Ladder(n)
                         /\ n = 5 <=> t.calls # <<>>
    /\ ~t.twice
    /\ \A i, j \in DOMAIN t.calls :
          t.calls[i].role = "correction" /\ t.calls[j].role = "correction" => i = j
    /\ \A i \in DOMAIN t.calls :
          LET call == t.calls[i] IN
          /\ call.role \in {"executor", "correction"} /\ call.agrees /\ ~call.recursive
          /\ call.model # 0
          /\ t.roster[call.model].capable
          /\ \A m \in PolicyModels :
                /\ t.roster[m].rank < t.roster[call.model].rank => call.escalated
                /\ t.roster[m].rank = t.roster[call.model].rank /\ t.roster[m].capable
                      => m >= call.model

(* The evaluation of a trace passes exactly when the trace is of least cost in this sense
   (continuation/cost-policy.ts, evaluateExecutionPolicy). *)
PolicyIsLeastCost == trace # NoTrace => (verdict = "PASS" <=> LeastCost(trace))
=============================================================================
