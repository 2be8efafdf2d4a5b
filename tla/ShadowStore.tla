----------------------------- MODULE ShadowStore -----------------------------
(***************************************************************************)
(* What is kept of a scheduled response: the audit of its validation, the  *)
(* shadow record that refers to the audit, and the closure gate that later *)
(* lets work complete on the strength of the two.                          *)
(*                                                                         *)
(* Records are files named by the digest of their whole content and the    *)
(* time they were recorded at; their identity leaves the time out.  So two *)
(* files may hold the same identity, and then no reader accepts the        *)
(* directory any more.  A lease guards each of the two directories (module *)
(* Lease): one observation and one audit are under way at a time, and a    *)
(* strategic review audits into the same directory as the observation.     *)
(***************************************************************************)
EXTENDS Integers, FiniteSets

CONSTANTS ShadowRuns,       \* runs of a schedule, each with one response
          Ladders,          \* how the execution policies of the schedule end
          ReviewLadders,    \* and those of the strategic reviews
          Instants,         \* times a record may carry
          MaxAudits,        \* audit files
          MaxShadows,       \* shadow files
          MaxShadowFaults   \* failures and deaths

ASSUME ShadowAssumption ==
    /\ ShadowRuns # {} /\ Instants # {}
    /\ Ladders \subseteq {"no_agent", "script", "model", "failing"}
    /\ ReviewLadders \subseteq Ladders
    /\ {MaxAudits, MaxShadows, MaxShadowFaults} \subseteq Nat

VARIABLES
    auditFiles,    \* the audit records
    auditIndex,    \* the records in index.json
    auditJsonl,    \* the records in index.jsonl
    auditing,      \* the audit that holds the lease of the audits
    shadowFiles,   \* the shadow records
    observation,   \* the observation that holds the lease of the shadows
    delivered,     \* shadow contents whose verdict PASS was returned
    shadowFaults

auditVars == <<auditFiles, auditIndex, auditJsonl>>
shadowVars == <<auditVars, auditing, shadowFiles, observation, delivered, shadowFaults>>

(* A ladder is named by the stage that sufficed, or failing (module CostPolicy). *)
Surfaces == {"scheduled", "review"}
AuditContents == [run : ShadowRuns, surface : Surfaces, valid : BOOLEAN, policy : Ladders]
Audits == [content : AuditContents, at : Instants]

(* valid is the verdict of the ledger's validation; audit says whether the
   record refers to its audit, or why it does not. *)
ShadowContents == [run : ShadowRuns, route : {"LLM", "NO_AGENT"}, valid : BOOLEAN,
                   policy : Ladders, audit : {"kept", "failed", "route", "missing", "none"}]
Shadows == [content : ShadowContents, at : Instants]

NoAuditing == [by |-> "none", stage |-> "none"]
NoObservation == [stage |-> "none"]

ShadowTypeOK ==
    /\ auditFiles \subseteq Audits
    /\ auditIndex \subseteq Audits
    /\ auditJsonl \subseteq Audits
    /\ auditing \in {NoAuditing} \cup
          [by : {"observation", "review"}, stage : {"write", "project", "jsonl"},
           content : AuditContents] \cup
          [by : {"rebuild"}, stage : {"project", "jsonl"}]
    /\ shadowFiles \subseteq Shadows
    /\ observation \in {NoObservation} \cup
          [stage : {"audit", "auditing", "record"}, content : ShadowContents]
    /\ delivered \subseteq ShadowContents
    /\ shadowFaults \in 0 .. MaxShadowFaults

ShadowInit ==
    /\ auditFiles = {} /\ auditIndex = {} /\ auditJsonl = {}
    /\ auditing = NoAuditing
    /\ shadowFiles = {}
    /\ observation = NoObservation
    /\ delivered = {}
    /\ shadowFaults = 0

Contents(files) == {f.content : f \in files}

(* readRecordsUnlocked: a second file of one identity makes the read throw. *)
Readable(files) == \A f, g \in files : f.content = g.content => f = g

AuditVerdict(c) == c.valid /\ c.policy # "failing"

(* The verdict of a shadow record: a response without a model passes when the
   ladder ends before one, any other when its audit was kept and passed. *)
ShadowVerdict(c) ==
    IF c.route = "NO_AGENT" THEN c.policy = "no_agent"
    ELSE c.audit = "kept" /\ c.valid /\ c.policy # "failing"

AuditOf(c) == [run |-> c.run, surface |-> "scheduled", valid |-> c.valid, policy |-> c.policy]

-----------------------------------------------------------------------------
(* persistContinuationAudit, under the lease of the audits. *)

(* Mutant: the record is written again whether or not its identity is there. *)
BugAuditStage(c) == "write"

AuditStage(c) == IF c \in Contents(auditFiles) THEN "project" ELSE "write"

(* What the observation does next when its audit ends with the outcome given. *)
AuditEnds(outcome) ==
    IF auditing.by = "observation"
    THEN observation' = [stage |-> "record",
                         content |-> [observation.content EXCEPT !.audit = outcome]]
    ELSE UNCHANGED observation

AuditBegins(by, c) ==
    /\ auditing = NoAuditing
    /\ Readable(auditFiles)
    /\ auditing' = [by |-> by, stage |-> AuditStage(c), content |-> c]
    /\ UNCHANGED <<auditVars, shadowFiles, delivered, shadowFaults>>

ObservationAudits ==
    /\ observation.stage = "audit"
    /\ AuditBegins("observation", AuditOf(observation.content))
    /\ observation' = [observation EXCEPT !.stage = "auditing"]

ReviewAudits ==
    /\ \E run \in ShadowRuns, valid \in BOOLEAN, policy \in ReviewLadders :
          AuditBegins("review", [run |-> run, surface |-> "review", valid |-> valid,
                                 policy |-> policy])
    /\ UNCHANGED observation

(* A directory that cannot be read, or a lease that is not to be had. *)
ObservationCannotAudit ==
    /\ observation.stage = "audit"
    /\ auditing # NoAuditing \/ ~Readable(auditFiles)
    /\ observation' = [stage |-> "record",
                       content |-> [observation.content EXCEPT !.audit = "failed"]]
    /\ UNCHANGED <<auditVars, auditing, shadowFiles, delivered, shadowFaults>>

AuditWrite ==
    /\ auditing.stage = "write"
    /\ Cardinality(auditFiles) < MaxAudits
    /\ \E at \in Instants : auditFiles' = auditFiles \cup {[content |-> auditing.content, at |-> at]}
    /\ auditing' = [auditing EXCEPT !.stage = "project"]
    /\ UNCHANGED <<auditIndex, auditJsonl, shadowFiles, observation, delivered, shadowFaults>>

(* rebuildContinuationAuditProjection *)
RebuildBegins ==
    /\ auditing = NoAuditing
    /\ auditing' = [by |-> "rebuild", stage |-> "project"]
    /\ UNCHANGED <<auditVars, shadowFiles, observation, delivered, shadowFaults>>

(* rebuildProjectionUnlocked: index.json, then index.jsonl from the same read. *)
ProjectIndex ==
    /\ auditing.stage = "project"
    /\ IF Readable(auditFiles)
       THEN /\ auditIndex' = auditFiles
            /\ auditing' = [auditing EXCEPT !.stage = "jsonl"]
            /\ UNCHANGED observation
       ELSE /\ auditing' = NoAuditing
            /\ AuditEnds("failed")
            /\ UNCHANGED auditIndex
    /\ UNCHANGED <<auditFiles, auditJsonl, shadowFiles, delivered, shadowFaults>>

ProjectJsonl ==
    /\ auditing.stage = "jsonl"
    /\ auditJsonl' = auditIndex
    /\ auditing' = NoAuditing
    /\ AuditEnds("kept")
    /\ UNCHANGED <<auditFiles, auditIndex, shadowFiles, delivered, shadowFaults>>

-----------------------------------------------------------------------------
(* observeScheduledResponse, under the lease of the shadows. *)

ObservationBegins ==
    /\ observation = NoObservation
    /\ \E run \in ShadowRuns, route \in {"LLM", "NO_AGENT"}, valid \in BOOLEAN, policy \in Ladders :
          /\ route = "NO_AGENT" => valid
          /\ observation' = [stage |-> IF route = "LLM" THEN "audit" ELSE "record",
                             content |-> [run |-> run, route |-> route, valid |-> valid,
                                          policy |-> policy, audit |-> "none"]]
    /\ UNCHANGED <<auditVars, auditing, shadowFiles, delivered, shadowFaults>>

(* llmOutcome: the audit is read again; a ladder that needed no model makes the
   route invalid, and then no audit record has the reasons of the outcome. *)
Outcome(c) ==
    IF c.route = "NO_AGENT" \/ c.audit = "failed" THEN c
    ELSE [c EXCEPT !.audit =
            CASE c.policy = "no_agent" -> "route"
              [] c.policy # "no_agent" /\ Readable(auditFiles) /\ AuditOf(c) \in Contents(auditFiles) -> "kept"
              [] OTHER -> "missing"]

(* persistShadowRecordUnlocked: the record there is returned as it is. *)
Record ==
    /\ observation.stage = "record"
    /\ LET c == Outcome(observation.content) IN
          /\ Readable(shadowFiles)
          /\ IF c \in Contents(shadowFiles)
             THEN UNCHANGED shadowFiles
             ELSE /\ Cardinality(shadowFiles) < MaxShadows
                  /\ \E at \in Instants : shadowFiles' = shadowFiles \cup {[content |-> c, at |-> at]}
          /\ delivered' = IF ShadowVerdict(c) THEN delivered \cup {c} ELSE delivered
    /\ observation' = NoObservation
    /\ UNCHANGED <<auditVars, auditing, shadowFaults>>

(* An error inside an audit is caught and noted; one outside it, before or after
   the record is written, is returned as a failing verdict. *)
AuditFails ==
    /\ shadowFaults < MaxShadowFaults
    /\ auditing # NoAuditing
    /\ auditing' = NoAuditing
    /\ AuditEnds("failed")
    /\ shadowFaults' = shadowFaults + 1
    /\ UNCHANGED <<auditVars, shadowFiles, delivered>>

ObservationFails ==
    /\ shadowFaults < MaxShadowFaults
    /\ observation.stage = "record"
    /\ observation' = NoObservation
    /\ \/ UNCHANGED shadowFiles
       \/ LET c == Outcome(observation.content) IN
             /\ Readable(shadowFiles)
             /\ c \notin Contents(shadowFiles)
             /\ Cardinality(shadowFiles) < MaxShadows
             /\ \E at \in Instants : shadowFiles' = shadowFiles \cup {[content |-> c, at |-> at]}
    /\ shadowFaults' = shadowFaults + 1
    /\ UNCHANGED <<auditVars, auditing, delivered>>

(* A process is killed inside its audit; the observation dies with its own. *)
AuditorDies ==
    /\ shadowFaults < MaxShadowFaults
    /\ auditing # NoAuditing
    /\ auditing' = NoAuditing
    /\ observation' = IF auditing.by = "observation" THEN NoObservation ELSE observation
    /\ shadowFaults' = shadowFaults + 1
    /\ UNCHANGED <<auditVars, shadowFiles, delivered>>

ShadowNext ==
    \/ ObservationBegins \/ ObservationAudits \/ ObservationCannotAudit
    \/ ReviewAudits \/ AuditWrite
    \/ RebuildBegins \/ ProjectIndex \/ ProjectJsonl
    \/ Record \/ AuditFails \/ ObservationFails \/ AuditorDies

ShadowSpec == ShadowInit /\ [][ShadowNext]_shadowVars

-----------------------------------------------------------------------------
(* loadContinuationClosureVerdict for the proof with this content, asked for by
   the run it names: the proof is found and passes, its audit is found, passes
   as well, and is that of a response a model gave. *)
GateOpens(c) ==
    /\ Readable(shadowFiles)
    /\ c \in Contents(shadowFiles)
    /\ ShadowVerdict(c)
    /\ c.route = "LLM"
    /\ Readable(auditFiles)
    /\ AuditOf(c) \in Contents(auditFiles)
    /\ AuditVerdict(AuditOf(c))
    /\ c.policy = "model"

(* A verdict PASS that was delivered for a response a model gave opens the
   closure gate from then on, whatever is audited, rebuilt, repeated or lost
   afterwards. (closure.ts, loadContinuationClosureVerdict) *)
DeliveredPassCloses ==
    \A c \in delivered : c.route = "LLM" /\ c.policy = "model" => GateOpens(c)

(* The index never lists what is not a record, nor the line file what the index
   does not, and the audit of every delivered verdict is in both: a projection
   that a crash left behind is rebuilt before the audit it lacks is used.
   (audit.ts, rebuildProjectionUnlocked) *)
ProjectionFollows ==
    /\ auditJsonl \subseteq auditIndex /\ auditIndex \subseteq auditFiles
    /\ \A c \in delivered : c.audit = "kept" => AuditOf(c) \in Contents(auditJsonl)

(* What the gate and the projection promise together. *)
AuditsHold == DeliveredPassCloses /\ ProjectionFollows

=============================================================================
