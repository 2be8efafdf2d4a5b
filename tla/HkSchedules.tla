----------------------------- MODULE HkSchedules -----------------------------
(***************************************************************************)
(* Installing the scheduled slots and signing scheduler origins: key files,*)
(* the published origin, the projection of the schedule, the registration  *)
(* with the task scheduler, and one signed record.                         *)
(*                                                                         *)
(* A job is a list of stages, one per write; it may die between any two.   *)
(* Key pairs are numbers, a file holds the number of its pair.             *)
(***************************************************************************)
EXTENDS Naturals, Sequences

CONSTANTS MaxHkJobs,   \* installations and signatures started
          MaxHkDeaths

ASSUME HkAssumption == {MaxHkJobs, MaxHkDeaths} \subseteq Nat

VARIABLES
    hkPrivate, hkPublic,   \* the key files
    hkOrigin,              \* the public key in pm-scheduler-origins.json
    hkProjected,           \* schedules.json
    hkTasks,               \* whether the task scheduler knows the slots
    hkRecord, hkSignature, \* the origin record, and what its signature signs
    hkJob,                 \* the job in progress
    hkJobs, hkDeaths

hkFiles == <<hkPrivate, hkPublic, hkOrigin, hkProjected, hkTasks, hkRecord, hkSignature>>
hkVars == <<hkFiles, hkJob, hkJobs, hkDeaths>>

NoHkPair == 0
HkPairs == 1 .. MaxHkJobs
NoHkJob == [todo |-> <<>>, pair |-> NoHkPair, apply |-> FALSE, registered |-> FALSE]

HkStages == {"private", "public", "origin", "project", "register", "reproject",
           "record", "sign"}

HkTypeOK ==
    /\ {hkPrivate, hkPublic, hkOrigin} \subseteq HkPairs \cup {NoHkPair}
    /\ hkProjected \in {"absent", "dry", "registered"}
    /\ hkTasks \in BOOLEAN
    /\ hkRecord \in 0 .. MaxHkJobs
    /\ hkSignature \in [record : 0 .. MaxHkJobs, pair : HkPairs \cup {NoHkPair}]
    /\ hkJob.todo \in Seq(HkStages)
    /\ hkJob.pair \in HkPairs \cup {NoHkPair}
    /\ hkJob.apply \in BOOLEAN /\ hkJob.registered \in BOOLEAN
    /\ hkJobs \in 0 .. MaxHkJobs /\ hkDeaths \in 0 .. MaxHkDeaths

HkInit ==
    /\ hkPrivate = NoHkPair /\ hkPublic = NoHkPair /\ hkOrigin = NoHkPair
    /\ hkProjected = "absent"
    /\ hkTasks = FALSE
    /\ hkRecord = 0 /\ hkSignature = [record |-> 0, pair |-> NoHkPair]
    /\ hkJob = NoHkJob
    /\ hkJobs = 0 /\ hkDeaths = 0

HkKeysExist == hkPrivate # NoHkPair /\ hkPublic # NoHkPair

(* Mutant: only the file that is missing is written. *)
BugHkKeyStages ==
    (IF hkPrivate = NoHkPair THEN <<"private">> ELSE <<>>)
        \o (IF hkPublic = NoHkPair THEN <<"public">> ELSE <<>>)

(* ensureKeyPair: an existing pair is read, otherwise both files are written. *)
HkKeyStages == IF HkKeysExist THEN <<>> ELSE <<"private", "public">>

HkInstallStages(apply) ==
    HkKeyStages \o <<"origin", "project">>
        \o (IF apply THEN <<"register">> ELSE <<>>) \o <<"reproject">>

(* installHkNaturalSchedules remembers a registration it finds projected. *)
HkInstall ==
    /\ hkJob = NoHkJob /\ hkJobs < MaxHkJobs
    /\ hkJobs' = hkJobs + 1
    /\ \E apply \in BOOLEAN :
          hkJob' = [todo |-> HkInstallStages(apply), apply |-> apply,
                    pair |-> IF HkKeysExist THEN hkPrivate ELSE hkJobs + 1,
                    registered |-> hkProjected = "registered"]
    /\ UNCHANGED <<hkFiles, hkDeaths>>

(* writeSignedHkSchedulerOrigin installs first when no schedule is projected. *)
HkSign ==
    /\ hkJob = NoHkJob /\ hkJobs < MaxHkJobs
    /\ hkJobs' = hkJobs + 1
    /\ hkJob' = [todo |-> (IF hkProjected = "absent" THEN HkInstallStages(FALSE) ELSE HkKeyStages)
                             \o <<"origin", "record", "sign">>,
                 apply |-> FALSE,
                 pair |-> IF HkKeysExist THEN hkPrivate ELSE hkJobs + 1,
                 registered |-> FALSE]
    /\ UNCHANGED <<hkFiles, hkDeaths>>

HkAt(stage) == hkJob.todo # <<>> /\ Head(hkJob.todo) = stage

HkDone == IF Tail(hkJob.todo) = <<>> THEN NoHkJob ELSE [hkJob EXCEPT !.todo = Tail(@)]

HkWrites ==
    /\ \/ /\ HkAt("private") /\ hkPrivate' = hkJob.pair
          /\ UNCHANGED <<hkPublic, hkOrigin, hkRecord, hkSignature>>
       \/ /\ HkAt("public") /\ hkPublic' = hkJob.pair
          /\ UNCHANGED <<hkPrivate, hkOrigin, hkRecord, hkSignature>>
       \/ /\ HkAt("origin") /\ hkOrigin' = hkJob.pair
          /\ UNCHANGED <<hkPrivate, hkPublic, hkRecord, hkSignature>>
       \/ /\ HkAt("record") /\ hkRecord' = hkJobs
          /\ UNCHANGED <<hkPrivate, hkPublic, hkOrigin, hkSignature>>
       \/ /\ HkAt("sign") /\ hkSignature' = [record |-> hkJobs, pair |-> hkJob.pair]
          /\ UNCHANGED <<hkPrivate, hkPublic, hkOrigin, hkRecord>>
    /\ hkJob' = HkDone
    /\ UNCHANGED <<hkProjected, hkTasks, hkJobs, hkDeaths>>

(* writeProjections, before and after the registration. *)
HkProject ==
    /\ HkAt("project") \/ HkAt("reproject")
    /\ hkProjected' = IF hkJob.registered THEN "registered" ELSE "dry"
    /\ hkJob' = HkDone
    /\ UNCHANGED <<hkPrivate, hkPublic, hkOrigin, hkTasks, hkRecord, hkSignature, hkJobs, hkDeaths>>

(* The script registers the tasks; without a task scheduler nothing runs; and
   when the script fails, having registered them or not, the installation ends. *)
HkRegister ==
    /\ HkAt("register")
    /\ \/ hkTasks' = TRUE /\ hkJob' = [HkDone EXCEPT !.registered = TRUE]
       \/ UNCHANGED hkTasks /\ hkJob' = [HkDone EXCEPT !.registered = FALSE]
       \/ hkTasks' \in {hkTasks, TRUE} /\ hkJob' = NoHkJob
    /\ UNCHANGED <<hkPrivate, hkPublic, hkOrigin, hkProjected, hkRecord, hkSignature, hkJobs, hkDeaths>>

HkDies ==
    /\ hkJob # NoHkJob /\ hkDeaths < MaxHkDeaths
    /\ hkJob' = NoHkJob
    /\ hkDeaths' = hkDeaths + 1
    /\ UNCHANGED <<hkFiles, hkJobs>>

HkNext == HkInstall \/ HkSign \/ HkWrites \/ HkProject \/ HkRegister \/ HkDies

HkSpec == HkInit /\ [][HkNext]_hkVars

-----------------------------------------------------------------------------
(* Properties. *)

(* A signature on disk was made with the key the origin manifest publishes,
   wherever earlier installations and signatures died: a key pair once
   published is never replaced, and a half-written pair never used. *)
SignedByPublishedKey ==
    hkSignature.pair # NoHkPair =>
        hkSignature.pair = hkOrigin /\ hkOrigin = hkPublic

=============================================================================
