---------------------------- MODULE Records_proofs ----------------------------
(***************************************************************************)
(* Theorems about the components that keep records of the loop on disk: the*)
(* natural schedules and their keys (HkSchedules), the missed-slot watchdog*)
(* (Watchdog), the origins of actors and of schedulers (OriginReads), the  *)
(* audits and the shadow store (ShadowStore), the rollback switches        *)
(* (EnforcementRollback), the migration of a V2 state (Migration), the     *)
(* commit of a canary (PinnedCommit) and the promotion of knowledge        *)
(* (KnowledgePromotion).                                                   *)
(*                                                                         *)
(* All of them write several files for one change and may die between two  *)
(* of them. Each inductive invariant says what is on disk between any two  *)
(* writes, and what a process in each of its stages may count on.          *)
(***************************************************************************)
EXTENDS HkSchedules, Watchdog, OriginReads, ShadowStore, EnforcementRollback, Migration,
        PinnedCommit, KnowledgePromotion, SequenceTheorems, FiniteSetTheorems, TLAPS

-----------------------------------------------------------------------------
(* HkSchedules. The pair on disk is one, only a whole one is published, and a job has
   its key stages first (KeysComeFirst, JobUsesThePair). *)
HkJobRecords ==
    [todo : Seq(HkStages), pair : HkPairs \cup {NoHkPair}, apply : BOOLEAN, registered : BOOLEAN]

(* A pair is whole once its public half is there: the halves are of one pair. *)
KeysAgree == hkPublic # NoHkPair => hkPrivate = hkPublic

(* Only a whole pair is published, and only what is published signs. *)
PublishedIsKept == hkOrigin # NoHkPair => hkOrigin = hkPublic

SignedIsPublished == hkSignature.pair # NoHkPair => hkSignature.pair = hkOrigin

(* Key stages come first and together; what remains uses the pair that is there. *)
KeysComeFirst ==
    \A i \in 1 .. Len(hkJob.todo) :
        /\ hkJob.todo[i] = "private" => i = 1 /\ Len(hkJob.todo) >= 2 /\ hkJob.todo[2] = "public"
        /\ hkJob.todo[i] = "public" => i = 1 \/ (i = 2 /\ hkJob.todo[1] = "private")

JobUsesThePair ==
    hkJob.todo # <<>> =>
        /\ hkJob.pair # NoHkPair
        /\ hkJob.todo[1] \in {"private", "public"} => hkPublic = NoHkPair
        /\ hkJob.todo[1] = "public" => hkPrivate = hkJob.pair
        /\ hkJob.todo[1] \notin {"private", "public"} => hkPublic = hkJob.pair

(* A job signs after it has published its pair. *)
PublishedBeforeSigned ==
    \A i \in 1 .. Len(hkJob.todo) :
        hkJob.todo[i] = "sign" =>
            hkOrigin = hkJob.pair \/ \E j \in 1 .. (i - 1) : hkJob.todo[j] = "origin"

HkInv ==
    /\ HkTypeOK /\ hkJob \in HkJobRecords
    /\ KeysAgree /\ PublishedIsKept /\ SignedIsPublished
    /\ KeysComeFirst /\ JobUsesThePair /\ PublishedBeforeSigned

-----------------------------------------------------------------------------
LEMMA HkInitially == HkInit => HkInv
<1> SUFFICES ASSUME HkInit PROVE HkInv  OBVIOUS
<1> USE DEF HkInit
<1>1. hkJob \in HkJobRecords /\ hkJob.todo = <<>>
    BY EmptySeq DEF NoHkJob, HkJobRecords
<1>2. HkTypeOK
  <2>1. MaxHkJobs \in Nat /\ MaxHkDeaths \in Nat  BY HkAssumption
  <2>2. hkSignature \in [record : 0 .. MaxHkJobs, pair : HkPairs \cup {NoHkPair}]
    BY <2>1
  <2>3. /\ hkJob.todo \in Seq(HkStages) /\ hkJob.pair \in HkPairs \cup {NoHkPair}
        /\ hkJob.apply \in BOOLEAN /\ hkJob.registered \in BOOLEAN
    BY <1>1 DEF HkJobRecords
  <2>4. 0 \in 0 .. MaxHkJobs /\ 0 \in 0 .. MaxHkDeaths  BY <2>1
  <2>5. QED  BY <2>2, <2>3, <2>4 DEF HkTypeOK
<1>3. QED
    BY <1>1, <1>2
       DEF HkInv, KeysAgree, PublishedIsKept, SignedIsPublished, KeysComeFirst, JobUsesThePair,
           PublishedBeforeSigned, NoHkPair

(* A list of stages a job may start with: the key stages first, or none of them when
   there is a pair, and no signature before the pair is published. *)
StartsWell(s) ==
    /\ s \in Seq(HkStages)
    /\ IF HkKeysExist
       THEN \A i \in 1 .. Len(s) : s[i] \notin {"private", "public"}
       ELSE /\ Len(s) >= 2 /\ s[1] = "private" /\ s[2] = "public"
            /\ \A i \in 3 .. Len(s) : s[i] \notin {"private", "public"}
    /\ \A i \in 1 .. Len(s) : s[i] = "sign" => \E j \in 1 .. (i - 1) : s[j] = "origin"

(* Stages without a key stage, that sign only what they have published. *)
OtherStages(t) ==
    /\ t \in Seq(HkStages \ {"private", "public"})
    /\ \A i \in 1 .. Len(t) : t[i] = "sign" => \E j \in 1 .. (i - 1) : t[j] = "origin"

LEMMA StartsWithKeys == StartsWell(HkKeyStages)
<1>1. CASE HkKeysExist
  <2>1. HkKeyStages = <<>>  BY <1>1 DEF HkKeyStages
  <2>2. QED  BY <1>1, <2>1 DEF StartsWell
<1>2. CASE ~HkKeysExist
  <2> DEFINE s == <<"private", "public">>
  <2>1. /\ s \in Seq(HkStages) /\ Len(s) = 2 /\ s[1] = "private" /\ s[2] = "public"
    BY DEF HkStages
  <2>2. \A i \in 1 .. Len(s) : s[i] # "sign"  OBVIOUS
  <2> HIDE DEF s
  <2>3. StartsWell(s)  BY <1>2, <2>1, <2>2 DEF StartsWell
  <2>4. QED  BY <1>2, <2>3 DEF HkKeyStages, s
<1>3. QED  BY <1>1, <1>2

(* What follows has no key stage, and signs only what it has published. *)
LEMMA StartsWellThen ==
    ASSUME NEW s, StartsWell(s), NEW t, OtherStages(t)
    PROVE  StartsWell(s \o t)
<1>1. s \in Seq(HkStages) /\ t \in Seq(HkStages)  BY DEF StartsWell, OtherStages
<1>2. /\ s \o t \in Seq(HkStages)
      /\ Len(s \o t) = Len(s) + Len(t)
      /\ \A i \in 1 .. Len(s) + Len(t) :
            (s \o t)[i] = IF i <= Len(s) THEN s[i] ELSE t[i - Len(s)]
    BY <1>1, ConcatProperties
<1>3. \A i \in 1 .. Len(t) : t[i] \notin {"private", "public"}
    BY DEF OtherStages
<1>4. ASSUME NEW i \in 1 .. Len(s \o t), (s \o t)[i] = "sign"
      PROVE  \E j \in 1 .. (i - 1) : (s \o t)[j] = "origin"
  <2>1. CASE i <= Len(s)
    BY <1>1, <1>2, <1>4, <2>1 DEF StartsWell
  <2>2. CASE i > Len(s)
    <3>1. i - Len(s) \in 1 .. Len(t) /\ t[i - Len(s)] = "sign"
      BY <1>1, <1>2, <1>4, <2>2
    <3>2. PICK j \in 1 .. (i - Len(s) - 1) : t[j] = "origin"  BY <3>1 DEF OtherStages
    <3>3. j + Len(s) \in 1 .. (i - 1) /\ (s \o t)[j + Len(s)] = "origin"
      BY <1>1, <1>2, <3>1, <3>2
    <3>4. QED  BY <3>3
  <2>3. QED  BY <1>1, <1>2, <2>1, <2>2
<1>5. CASE HkKeysExist
  BY <1>1, <1>2, <1>3, <1>4, <1>5 DEF StartsWell
<1>6. CASE ~HkKeysExist
  <2>1. /\ Len(s \o t) >= 2 /\ (s \o t)[1] = "private" /\ (s \o t)[2] = "public"
    BY <1>1, <1>2, <1>6 DEF StartsWell
  <2>2. ASSUME NEW i \in 3 .. Len(s \o t) PROVE (s \o t)[i] \notin {"private", "public"}
    BY <1>1, <1>2, <1>3, <1>6 DEF StartsWell
  <2>3. QED  BY <1>2, <1>4, <1>6, <2>1, <2>2 DEF StartsWell
<1>7. QED  BY <1>5, <1>6

LEMMA InstallStartsWell ==
    ASSUME NEW apply \in BOOLEAN
    PROVE  StartsWell(HkInstallStages(apply))
<1>1. OtherStages(<<"origin", "project">>)  BY DEF OtherStages, HkStages
<1>2. OtherStages(<<"register">>)  BY DEF OtherStages, HkStages
<1>3. OtherStages(<<>>)  BY DEF OtherStages, HkStages
<1>4. OtherStages(<<"reproject">>)  BY DEF OtherStages, HkStages
<1>5. StartsWell(HkKeyStages \o <<"origin", "project">>)
    BY <1>1, StartsWithKeys, StartsWellThen
<1>6. StartsWell(HkKeyStages \o <<"origin", "project">>
                     \o (IF apply THEN <<"register">> ELSE <<>>))
    BY <1>2, <1>3, <1>5, StartsWellThen
<1>7. QED  BY <1>4, <1>6, StartsWellThen DEF HkInstallStages

LEMMA SignStartsWell ==
    StartsWell((IF hkProjected = "absent" THEN HkInstallStages(FALSE) ELSE HkKeyStages)
                   \o <<"origin", "record", "sign">>)
<1> DEFINE t == <<"origin", "record", "sign">>
<1>1. t \in Seq(HkStages \ {"private", "public"}) /\ t[1] = "origin" /\ Len(t) = 3
    BY DEF HkStages
<1>2. \A i \in 1 .. 3 : t[i] = "sign" => i = 3  OBVIOUS
<1> HIDE DEF t
<1>3. OtherStages(t)  BY <1>1, <1>2 DEF OtherStages
<1>4. QED  BY <1>3, StartsWithKeys, InstallStartsWell, StartsWellThen DEF t

-----------------------------------------------------------------------------
(* A job that starts has the stages of a list that starts well, and the pair that is
   there or a new one. *)
LEMMA HkStarts ==
    ASSUME HkInv, HkInstall \/ HkSign
    PROVE  HkInv'
<1>1. /\ hkJobs' = hkJobs + 1 /\ hkJobs < MaxHkJobs /\ UNCHANGED <<hkFiles, hkDeaths>>
      /\ StartsWell(hkJob'.todo)
      /\ hkJob'.pair = IF HkKeysExist THEN hkPrivate ELSE hkJobs + 1
      /\ hkJob' = [todo |-> hkJob'.todo, pair |-> hkJob'.pair, apply |-> hkJob'.apply,
                   registered |-> hkJob'.registered]
      /\ hkJob'.apply \in BOOLEAN /\ hkJob'.registered \in BOOLEAN
  <2>1. CASE HkInstall
    <3>1. PICK apply \in BOOLEAN :
            hkJob' = [todo |-> HkInstallStages(apply), apply |-> apply,
                      pair |-> IF HkKeysExist THEN hkPrivate ELSE hkJobs + 1,
                      registered |-> hkProjected = "registered"]
      BY <2>1 DEF HkInstall
    <3>2. QED  BY <2>1, <3>1, InstallStartsWell DEF HkInstall
  <2>2. CASE HkSign
    BY <2>2, SignStartsWell DEF HkSign
  <2>3. QED  BY <2>1, <2>2
<1>2. MaxHkJobs \in Nat /\ hkJobs \in 0 .. MaxHkJobs
    BY HkAssumption DEF HkInv, HkTypeOK
<1>3. hkJob'.pair \in HkPairs
    BY <1>1, <1>2 DEF HkInv, HkTypeOK, HkPairs, HkKeysExist
<1>4. hkJob' \in HkJobRecords
    BY <1>1, <1>3 DEF StartsWell, HkJobRecords
<1>5. HkTypeOK'
    BY <1>1, <1>2, <1>4 DEF HkInv, HkTypeOK, hkFiles, HkJobRecords, HkPairs
<1>6. KeysAgree' /\ PublishedIsKept' /\ SignedIsPublished'
    BY <1>1 DEF HkInv, KeysAgree, PublishedIsKept, SignedIsPublished, hkFiles
<1>7. KeysComeFirst'
    BY <1>1 DEF StartsWell, KeysComeFirst
<1>8. JobUsesThePair'
  <2>1. CASE HkKeysExist
    BY <1>1, <1>3, <1>4, <2>1
       DEF StartsWell, JobUsesThePair, HkInv, KeysAgree, HkKeysExist, hkFiles, HkPairs, NoHkPair,
           HkJobRecords
  <2>2. CASE ~HkKeysExist
    BY <1>1, <1>3, <1>4, <2>2
       DEF StartsWell, JobUsesThePair, HkInv, KeysAgree, HkKeysExist, hkFiles, HkPairs, NoHkPair,
           HkJobRecords
  <2>3. QED  BY <2>1, <2>2
<1>9. PublishedBeforeSigned'
    BY <1>1 DEF StartsWell, PublishedBeforeSigned
<1>10. QED  BY <1>4, <1>5, <1>6, <1>7, <1>8, <1>9 DEF HkInv

(* A job goes on: its first stage is done, and the files are as the rest wants them. *)
LEMMA HkGoesOn ==
    ASSUME HkInv, hkJob.todo # <<>>, hkJob' \in HkJobRecords,
           hkJob'.todo = Tail(hkJob.todo), hkJob'.todo # <<>> => hkJob'.pair = hkJob.pair,
           hkOrigin' = IF hkJob.todo[1] = "origin" THEN hkJob.pair ELSE hkOrigin,
           hkPrivate' = IF hkJob.todo[1] = "private" THEN hkJob.pair ELSE hkPrivate,
           hkPublic' = IF hkJob.todo[1] = "public" THEN hkJob.pair ELSE hkPublic
    PROVE  /\ KeysComeFirst' /\ JobUsesThePair' /\ PublishedBeforeSigned'
           /\ KeysAgree' /\ PublishedIsKept'
<1>1. hkJob.todo \in Seq(HkStages) /\ hkJob'.todo \in Seq(HkStages)
    BY DEF HkInv, HkJobRecords
<1>2. /\ Len(hkJob'.todo) = Len(hkJob.todo) - 1
      /\ \A i \in 1 .. Len(hkJob'.todo) : hkJob'.todo[i] = hkJob.todo[i + 1]
      /\ Len(hkJob.todo) \in Nat /\ Len(hkJob.todo) >= 1
      /\ hkJob'.todo # <<>> => Len(hkJob.todo) >= 2
    BY <1>1, HeadTailProperties
<1>3. KeysComeFirst'
    BY <1>1, <1>2 DEF HkInv, KeysComeFirst
<1>4. JobUsesThePair'
  <2> SUFFICES ASSUME hkJob'.todo # <<>> PROVE JobUsesThePair'
    BY DEF JobUsesThePair
  <2>1. hkJob'.todo[1] = hkJob.todo[2] /\ Len(hkJob.todo) >= 2  BY <1>1, <1>2
  <2>2. hkJob.todo[1] = "private" => hkJob.todo[2] = "public"
    BY <1>2, <2>1 DEF HkInv, KeysComeFirst
  <2>3. hkJob.todo[2] = "public" => hkJob.todo[1] = "private"
    BY <1>2, <2>1 DEF HkInv, KeysComeFirst
  <2>4. hkJob.todo[2] # "private"
    BY <1>2, <2>1 DEF HkInv, KeysComeFirst
  <2>5. QED
    BY <2>1, <2>2, <2>3, <2>4 DEF HkInv, JobUsesThePair
<1>5. PublishedBeforeSigned'
  <2> SUFFICES ASSUME NEW i \in 1 .. Len(hkJob'.todo), hkJob'.todo[i] = "sign"
               PROVE  hkOrigin' = hkJob'.pair \/ \E j \in 1 .. (i - 1) : hkJob'.todo[j] = "origin"
    BY DEF PublishedBeforeSigned
  <2>1. /\ i + 1 \in 1 .. Len(hkJob.todo) /\ hkJob.todo[i + 1] = "sign"
        /\ hkJob'.pair = hkJob.pair
    <3>1. hkJob'.todo # <<>>
      <4>1. Len(hkJob'.todo) # 0  BY <1>1
      <4>2. Len(<<>>) = 0  OBVIOUS
      <4>3. QED  BY <4>1, <4>2, Zenon
    <3>2. QED  BY <1>1, <1>2, <3>1
  <2>2. CASE hkOrigin = hkJob.pair \/ hkJob.todo[1] = "origin"
    <3>1. hkOrigin' = hkJob.pair  BY <2>2
    <3>2. QED  BY <2>1, <3>1
  <2>3. ASSUME NEW j \in 1 .. i, hkJob.todo[j] = "origin", j # 1
        PROVE  \E k \in 1 .. (i - 1) : hkJob'.todo[k] = "origin"
    <3>1. j - 1 \in 1 .. (i - 1) /\ hkJob'.todo[j - 1] = "origin"
      BY <1>2, <2>1, <2>3
    <3>2. QED  BY <3>1
  <2>4. QED
    BY <2>1, <2>2, <2>3 DEF HkInv, PublishedBeforeSigned
<1>6. KeysAgree' /\ PublishedIsKept'
  <2>1. CASE hkJob.todo[1] \in {"private", "public"}
    BY <2>1 DEF HkInv, KeysAgree, PublishedIsKept, JobUsesThePair
  <2>2. CASE hkJob.todo[1] \notin {"private", "public"}
    <3>1. hkPrivate' = hkPrivate /\ hkPublic' = hkPublic /\ hkPublic = hkJob.pair
      BY <2>2 DEF HkInv, JobUsesThePair
    <3>2. QED  BY <3>1 DEF HkInv, KeysAgree, PublishedIsKept
  <2>3. QED  BY <2>1, <2>2
<1>7. QED  BY <1>3, <1>4, <1>5, <1>6

(* The next stage of the job is done. *)
LEMMA HkDoneFacts ==
    ASSUME HkInv, hkJob.todo # <<>>
    PROVE  /\ HkDone \in HkJobRecords
           /\ HkDone.todo = Tail(hkJob.todo)
           /\ HkDone.todo # <<>> => HkDone.pair = hkJob.pair
           /\ Head(hkJob.todo) = hkJob.todo[1]
<1>1. Tail(hkJob.todo) \in Seq(HkStages)  BY HeadTailProperties DEF HkInv, HkJobRecords
<1>2. CASE Tail(hkJob.todo) = <<>>
  <2>1. HkDone = NoHkJob  BY <1>2 DEF HkDone
  <2>2. NoHkJob \in HkJobRecords /\ NoHkJob.todo = <<>>
    BY EmptySeq DEF NoHkJob, HkJobRecords
  <2>3. QED  BY <1>2, <2>1, <2>2
<1>3. CASE Tail(hkJob.todo) # <<>>
  <2>1. HkDone = [hkJob EXCEPT !.todo = Tail(@)]  BY <1>3 DEF HkDone
  <2>2. QED  BY <1>1, <2>1 DEF HkInv, HkJobRecords
<1>4. QED  BY <1>2, <1>3

LEMMA HkWritesOn ==
    ASSUME HkInv, HkWrites
    PROVE  HkInv'
<1>1. hkJob.todo # <<>> /\ hkJob' = HkDone  BY DEF HkWrites, HkAt
<1>2. /\ hkJob' \in HkJobRecords /\ hkJob'.todo = Tail(hkJob.todo)
      /\ hkJob'.todo # <<>> => hkJob'.pair = hkJob.pair
      /\ Head(hkJob.todo) = hkJob.todo[1]
    BY <1>1, HkDoneFacts
<1>3. /\ hkOrigin' = IF hkJob.todo[1] = "origin" THEN hkJob.pair ELSE hkOrigin
      /\ hkPrivate' = IF hkJob.todo[1] = "private" THEN hkJob.pair ELSE hkPrivate
      /\ hkPublic' = IF hkJob.todo[1] = "public" THEN hkJob.pair ELSE hkPublic
      /\ hkSignature' = IF hkJob.todo[1] = "sign" THEN [record |-> hkJobs, pair |-> hkJob.pair]
                        ELSE hkSignature
      /\ hkRecord' \in {hkRecord, hkJobs}
    BY <1>2 DEF HkWrites, HkAt
<1>4. /\ KeysComeFirst' /\ JobUsesThePair' /\ PublishedBeforeSigned'
      /\ KeysAgree' /\ PublishedIsKept'
    BY <1>1, <1>2, <1>3, HkGoesOn
<1>5. SignedIsPublished'
  <2>1. CASE hkJob.todo[1] = "sign"
    <3>1. hkOrigin = hkJob.pair
      <4>1. 1 \in 1 .. Len(hkJob.todo)  BY <1>1 DEF HkInv, HkJobRecords
      <4>2. QED  BY <2>1, <4>1 DEF HkInv, PublishedBeforeSigned
    <3>2. QED  BY <1>3, <2>1, <3>1 DEF SignedIsPublished
  <2>2. CASE hkJob.todo[1] = "origin"
    <3>1. hkPublic = hkJob.pair
      BY <1>1, <2>2 DEF HkInv, JobUsesThePair
    <3>2. hkSignature.pair # NoHkPair => hkSignature.pair = hkPublic
      BY DEF HkInv, SignedIsPublished, PublishedIsKept
    <3>3. QED  BY <1>3, <2>2, <3>1, <3>2 DEF SignedIsPublished
  <2>3. CASE hkJob.todo[1] \notin {"sign", "origin"}
    BY <1>3, <2>3 DEF HkInv, SignedIsPublished
  <2>4. QED  BY <2>1, <2>2, <2>3
<1>6. HkTypeOK'
  <2>1. /\ hkJob.pair \in HkPairs \cup {NoHkPair} /\ hkJobs \in 0 .. MaxHkJobs
        /\ hkJob'.todo \in Seq(HkStages) /\ hkJob'.pair \in HkPairs \cup {NoHkPair}
        /\ hkJob'.apply \in BOOLEAN /\ hkJob'.registered \in BOOLEAN
    BY <1>2 DEF HkInv, HkTypeOK, HkJobRecords
  <2>2. hkSignature' \in [record : 0 .. MaxHkJobs, pair : HkPairs \cup {NoHkPair}]
    BY <1>3, <2>1 DEF HkInv, HkTypeOK
  <2>3. /\ {hkPrivate', hkPublic', hkOrigin'} \subseteq HkPairs \cup {NoHkPair}
        /\ hkRecord' \in 0 .. MaxHkJobs
    BY <1>3, <2>1 DEF HkInv, HkTypeOK
  <2>4. QED  BY <2>1, <2>2, <2>3 DEF HkWrites, HkInv, HkTypeOK
<1>7. QED  BY <1>2, <1>4, <1>5, <1>6 DEF HkInv

LEMMA HkProjectsOn ==
    ASSUME HkInv, HkProject
    PROVE  HkInv'
<1>1. /\ hkJob.todo # <<>> /\ hkJob' = HkDone
      /\ UNCHANGED <<hkPrivate, hkPublic, hkOrigin, hkTasks, hkRecord, hkSignature, hkJobs,
                     hkDeaths>>
      /\ hkProjected' \in {"dry", "registered"}
    BY DEF HkProject, HkAt
<1>2. /\ hkJob' \in HkJobRecords /\ hkJob'.todo = Tail(hkJob.todo)
      /\ hkJob'.todo # <<>> => hkJob'.pair = hkJob.pair
      /\ Head(hkJob.todo) = hkJob.todo[1]
    BY <1>1, HkDoneFacts
<1>3. hkJob.todo[1] \in {"project", "reproject"}  BY <1>2 DEF HkProject, HkAt
<1>4. /\ KeysComeFirst' /\ JobUsesThePair' /\ PublishedBeforeSigned'
      /\ KeysAgree' /\ PublishedIsKept'
    BY <1>1, <1>2, <1>3, HkGoesOn
<1>5. SignedIsPublished'  BY <1>1 DEF HkInv, SignedIsPublished
<1>6. HkTypeOK'
    BY <1>1, <1>2 DEF HkInv, HkTypeOK, HkJobRecords
<1>7. QED  BY <1>2, <1>4, <1>5, <1>6 DEF HkInv

(* A job that is over, or dead, asks nothing of the files. *)
LEMMA HkEnds ==
    ASSUME HkInv, hkJob' = NoHkJob, hkTasks' \in BOOLEAN, hkDeaths' \in 0 .. MaxHkDeaths,
           UNCHANGED <<hkPrivate, hkPublic, hkOrigin, hkProjected, hkRecord, hkSignature, hkJobs>>
    PROVE  HkInv'
<1>1. hkJob' \in HkJobRecords /\ hkJob'.todo = <<>>
    BY EmptySeq DEF NoHkJob, HkJobRecords
<1>2. HkTypeOK'  BY <1>1 DEF HkInv, HkTypeOK, HkJobRecords
<1>3. QED
    BY <1>1, <1>2
       DEF HkInv, KeysAgree, PublishedIsKept, SignedIsPublished, KeysComeFirst, JobUsesThePair,
           PublishedBeforeSigned

LEMMA HkRegistersOn ==
    ASSUME HkInv, HkRegister
    PROVE  HkInv'
<1>1. /\ hkJob.todo # <<>> /\ hkDeaths' = hkDeaths
      /\ UNCHANGED <<hkPrivate, hkPublic, hkOrigin, hkProjected, hkRecord, hkSignature, hkJobs>>
      /\ hkTasks' \in BOOLEAN
    BY DEF HkRegister, HkAt, HkInv, HkTypeOK
<1>2. CASE hkJob' = NoHkJob
    BY <1>1, <1>2, HkEnds DEF HkInv, HkTypeOK
<1>3. ASSUME NEW b \in BOOLEAN, hkJob' = [HkDone EXCEPT !.registered = b]
      PROVE  HkInv'
  <2>1. /\ hkJob' \in HkJobRecords /\ hkJob'.todo = Tail(hkJob.todo)
        /\ hkJob'.todo # <<>> => hkJob'.pair = hkJob.pair
        /\ Head(hkJob.todo) = hkJob.todo[1]
    BY <1>1, <1>3, HkDoneFacts DEF HkJobRecords
  <2>2. hkJob.todo[1] = "register"  BY <2>1 DEF HkRegister, HkAt
  <2>3. /\ KeysComeFirst' /\ JobUsesThePair' /\ PublishedBeforeSigned'
        /\ KeysAgree' /\ PublishedIsKept'
    BY <1>1, <2>1, <2>2, HkGoesOn
  <2>4. SignedIsPublished'  BY <1>1 DEF HkInv, SignedIsPublished
  <2>5. HkTypeOK'
    BY <1>1, <2>1 DEF HkInv, HkTypeOK, HkJobRecords
  <2>6. QED  BY <2>1, <2>3, <2>4, <2>5 DEF HkInv
<1>4. QED  BY <1>2, <1>3 DEF HkRegister

LEMMA HkDiesAnywhere ==
    ASSUME HkInv, HkDies
    PROVE  HkInv'
<1>1. hkDeaths' \in 0 .. MaxHkDeaths
    BY HkAssumption DEF HkDies, HkInv, HkTypeOK
<1>2. QED
    BY <1>1, HkEnds DEF HkDies, hkFiles, HkInv, HkTypeOK

LEMMA HkStep ==
    ASSUME HkInv, [HkNext]_hkVars
    PROVE  HkInv'
<1>1. CASE UNCHANGED hkVars
    BY <1>1
       DEF hkVars, hkFiles, HkInv, HkTypeOK, KeysAgree, PublishedIsKept, SignedIsPublished,
           KeysComeFirst, JobUsesThePair, PublishedBeforeSigned
<1>2. QED
    BY <1>1, HkStarts, HkWritesOn, HkProjectsOn, HkRegistersOn, HkDiesAnywhere DEF HkNext

(* The state of the natural schedules has its type. *)
THEOREM HkTyped == HkSpec => []HkTypeOK
<1>1. HkInv => HkTypeOK  BY DEF HkInv
<1>2. HkInv /\ [HkNext]_hkVars => HkInv'  BY HkStep
<1>3. QED  BY <1>1, <1>2, HkInitially, PTL DEF HkSpec

(* Whatever installations, signatures and registrations overlap or die, a signature on
   disk is of the key pair the origin manifest publishes (module HkSchedules). *)
THEOREM SignaturesArePublished == HkSpec => []SignedByPublishedKey
<1>1. HkInv => SignedByPublishedKey
    BY DEF HkInv, SignedIsPublished, PublishedIsKept, SignedByPublishedKey
<1>2. HkInv /\ [HkNext]_hkVars => HkInv'  BY HkStep
<1>3. QED  BY <1>1, <1>2, HkInitially, PTL DEF HkSpec

-----------------------------------------------------------------------------
(* Watchdog. A tick that has looked holds what it saw, and as long as nobody died what
   is remembered is the open gap (RememberedIsOpen). *)
TickRecords == [at : {"none", "observed", "acted"}, live : GapIds \cup {NoGap},
          missed : SUBSET AllSlots, resolved : BOOLEAN]

SlotReceipts == [byHand : {"none", "ok", "failed"}, labelled : BOOLEAN, natural : BOOLEAN]

GapRecords == [status : {"none", "open", "resolved"}, missed : SUBSET AllSlots]

OneOpenGap == \A g, h \in OpenGaps : g = h

VouchedFor == \A s \in AllSlots : receipts[s].labelled /\ receipts[s].byHand = "ok" => s \in vouched

(* While nobody died: outside a tick the remembered issue is open; a tick that has
   acted holds the id it will remember, or has just resolved the open one. *)
RememberedIsOpen ==
    /\ tick = NoTick \/ grading = NoGrade
    /\ tick.at # "acted" /\ watchdog.live # NoGap => watchdog.live \in OpenGaps
    /\ tick.at = "observed" => tick.live = watchdog.live /\ ~tick.resolved
    /\ tick.at = "acted" =>
          /\ watchdog.live # NoGap => OpenGaps \subseteq {watchdog.live}
          /\ IF tick.resolved THEN OpenGaps = {}
             ELSE tick.live # NoGap => tick.live \in OpenGaps

WatchdogInv ==
    /\ WatchdogTypeOK
    /\ clock >= SlotCount + 1
    /\ OneOpenGap
    /\ deaths = 0 /\ ~GradeOverlaps => RememberedIsOpen
    /\ VouchedFor
    /\ CycleReceiptIsEarned

WatchdogState == WatchdogTypeOK /\ clock >= SlotCount + 1

-----------------------------------------------------------------------------
LEMMA ClockDays ==
    ASSUME WatchdogState
    PROVE  /\ Today \in 1 .. LastDay
           /\ SlotsOf(Today) \subseteq AllSlots
           /\ Due \subseteq AllSlots
           /\ \A d \in SlotDays : SlotsOf(d) \subseteq AllSlots
<1> DEFINE n == SlotCount + 1
<1>1. /\ SlotCount \in Nat /\ SlotCount > 0 /\ LastDay \in Nat /\ LastDay > 0 /\ clock \in Nat
      /\ n <= clock /\ clock <= (LastDay + 1) * n - 1
    BY WatchdogAssumption DEF WatchdogState, WatchdogTypeOK
<1>2. /\ clock \div n \in Int /\ clock % n \in 0 .. SlotCount
      /\ clock = n * (clock \div n) + (clock % n)
    BY <1>1
<1>3. clock \div n \in 1 .. LastDay
  <2> DEFINE q == clock \div n
             r == clock % n
  <2> SUFFICES ASSUME n \in Nat, n > 1, q \in Int, r \in 0 .. n - 1, clock = n * q + r,
                      n <= clock, clock <= (LastDay + 1) * n - 1
               PROVE  q \in 1 .. LastDay
      BY <1>1, <1>2
  <2> HIDE DEF n, q, r
  <2>1. q >= 1
    <3> SUFFICES ASSUME q <= 0 PROVE FALSE  OBVIOUS
    <3>1. n * q <= 0  OBVIOUS
    <3>2. QED  BY <3>1
  <2>2. q <= LastDay
    <3> SUFFICES ASSUME q >= LastDay + 1 PROVE FALSE  BY <1>1
    <3>1. n * q >= n * (LastDay + 1)  BY <1>1
    <3>2. n * (LastDay + 1) = (LastDay + 1) * n  BY <1>1
    <3>3. QED  BY <1>1, <3>1, <3>2
  <2>3. QED  BY <1>1, <2>1, <2>2
<1>4. Today \in 1 .. LastDay  BY <1>3 DEF Today
<1>5. \A d \in SlotDays : SlotsOf(d) \subseteq AllSlots  BY DEF SlotsOf, AllSlots
<1>6. {Today, Today - 1} \subseteq SlotDays  BY <1>1, <1>4 DEF SlotDays
<1>7. QED  BY <1>4, <1>5, <1>6 DEF Due

LEMMA NoTickRecord ==
    /\ NoTick \in TickRecords /\ NoTick.at = "none"
    /\ NoRun.stage = "none" /\ NoGrade.day = -1
BY DEF NoTick, TickRecords, NoRun, NoGrade

LEMMA WatchdogInitially == WatchdogInit => WatchdogInv
<1> SUFFICES ASSUME WatchdogInit PROVE WatchdogInv  OBVIOUS
<1>1. /\ SlotCount \in Nat /\ SlotCount > 0 /\ LastDay \in Nat /\ LastDay > 0
      /\ MaxRecords \in Nat /\ MaxDeaths \in Nat /\ MaxGaps \in Nat
    BY WatchdogAssumption
<1>2. SlotCount + 1 \in 0 .. (LastDay + 1) * (SlotCount + 1) - 1
  <2>1. (LastDay + 1) * (SlotCount + 1) >= 2 * (SlotCount + 1)  BY <1>1
  <2>2. (LastDay + 1) * (SlotCount + 1) \in Nat  BY <1>1
  <2>3. QED  BY <1>1, <2>1, <2>2
<1>3. receipts \in [AllSlots -> SlotReceipts]  BY DEF WatchdogInit, SlotReceipts
<1>4. workflows \in [SlotDays -> SUBSET Kinds]  BY DEF WatchdogInit
<1>5. gaps \in [GapIds -> GapRecords] /\ OpenGaps = {}
    BY DEF WatchdogInit, GapRecords, OpenGaps
<1>6. WatchdogTypeOK
    BY <1>1, <1>2, <1>3, <1>4, <1>5, NoTickRecord
       DEF WatchdogInit, WatchdogTypeOK, SlotReceipts, GapRecords, TickRecords
<1>7. VouchedFor  BY DEF WatchdogInit, VouchedFor
<1>8. CycleReceiptIsEarned
  <2> SUFFICES ASSUME NEW d \in SlotDays, <<"watchdog", 0>> \in workflows[d], NEW s \in SlotsOf(d)
               PROVE  receipts[s].natural
      BY DEF CycleReceiptIsEarned
  <2>1. d = 0  BY DEF WatchdogInit
  <2>2. s \in AllSlots /\ s[1] = 0  BY <2>1 DEF SlotsOf, AllSlots
  <2>3. QED  BY <2>2 DEF WatchdogInit
<1>9. RememberedIsOpen  BY NoTickRecord DEF WatchdogInit, RememberedIsOpen
<1>10. QED  BY <1>1, <1>5, <1>6, <1>7, <1>8, <1>9 DEF WatchdogInv, OneOpenGap, WatchdogInit

-----------------------------------------------------------------------------
(* What the steps of the runner and the operator leave to show, and what those of
   the watchdog and the grading do. *)

LEMMA SlotStepKeeps ==
    ASSUME WatchdogInv, WatchdogTypeOK', clock' = clock, UNCHANGED gapVars, deaths' = deaths,
           VouchedFor', CycleReceiptIsEarned'
    PROVE  WatchdogInv'
<1>1. UNCHANGED <<gaps, watchdog, tick, grading>>  BY DEF gapVars
<1>2. OpenGaps' = OpenGaps  BY <1>1 DEF OpenGaps
<1>3. QED  BY <1>1, <1>2 DEF WatchdogInv, OneOpenGap, RememberedIsOpen

LEMMA GapStepKeeps ==
    ASSUME WatchdogInv, WatchdogTypeOK', clock' \in {clock, clock + 1}, UNCHANGED slotVars,
           OneOpenGap', deaths' = 0 /\ ~GradeOverlaps => RememberedIsOpen'
    PROVE  WatchdogInv'
<1>1. UNCHANGED <<receipts, workflows, vouched>>  BY DEF slotVars
<1>2. VouchedFor' /\ CycleReceiptIsEarned'
    BY <1>1 DEF WatchdogInv, VouchedFor, CycleReceiptIsEarned
<1>3. clock' >= SlotCount + 1
    BY WatchdogAssumption DEF WatchdogInv, WatchdogTypeOK
<1>4. QED  BY <1>2, <1>3 DEF WatchdogInv

-----------------------------------------------------------------------------
LEMMA TimePassesKeeps ==
    ASSUME WatchdogInv, TimePasses
    PROVE  WatchdogInv'
<1>1. /\ clock' = clock + 1 /\ clock < (LastDay + 1) * (SlotCount + 1) - 1
      /\ UNCHANGED <<slotVars, gapVars, deaths>>
    BY DEF TimePasses
<1>2. UNCHANGED <<gaps, watchdog, tick, grading, receipts, workflows, runner, vouched, records>>
    BY <1>1 DEF gapVars, slotVars
<1>3. (LastDay + 1) * (SlotCount + 1) \in Int  BY WatchdogAssumption
<1>4. WatchdogTypeOK'
    BY <1>1, <1>2, <1>3 DEF WatchdogInv, WatchdogTypeOK
<1>5. OpenGaps' = OpenGaps  BY <1>2 DEF OpenGaps
<1>6. OneOpenGap' /\ (deaths' = 0 /\ ~GradeOverlaps => RememberedIsOpen')
    BY <1>1, <1>2, <1>5 DEF WatchdogInv, OneOpenGap, RememberedIsOpen
<1>7. QED  BY <1>1, <1>4, <1>6, GapStepKeeps

(* A workflow receipt of a role or the scout is not the watchdog's. *)
LEMMA RunnerWrites ==
    ASSUME WatchdogInv, NEW d \in SlotDays, NEW k \in Kinds,
           workflows' = [workflows EXCEPT ![d] = @ \cup {k}],
           k = <<"watchdog", 0>> => AllNaturalSlots(d),
           UNCHANGED <<receipts, vouched>>
    PROVE  /\ workflows' \in [SlotDays -> SUBSET Kinds]
           /\ VouchedFor' /\ CycleReceiptIsEarned'
<1>1. workflows' \in [SlotDays -> SUBSET Kinds]
    BY DEF WatchdogInv, WatchdogTypeOK
<1>2. VouchedFor'  BY DEF WatchdogInv, VouchedFor
<1>3. ASSUME NEW e \in SlotDays, <<"watchdog", 0>> \in workflows'[e], NEW s \in SlotsOf(e)
      PROVE  receipts[s].natural \/ s \in vouched
  <2>1. CASE <<"watchdog", 0>> \in workflows[e]
      BY <1>3, <2>1 DEF WatchdogInv, CycleReceiptIsEarned
  <2>2. CASE <<"watchdog", 0>> \notin workflows[e]
    <3>1. e = d /\ k = <<"watchdog", 0>>
        BY <1>3, <2>2 DEF WatchdogInv, WatchdogTypeOK
    <3>2. NaturalHit(s)  BY <1>3, <3>1 DEF AllNaturalSlots
    <3>3. s \in AllSlots  BY <1>3 DEF SlotsOf, AllSlots
    <3>4. QED  BY <3>2, <3>3 DEF NaturalHit, WatchdogInv, VouchedFor
  <2>3. QED  BY <2>1, <2>2
<1>4. QED  BY <1>1, <1>2, <1>3 DEF CycleReceiptIsEarned

(* The slot a runner has: one of the calendar, until the run is over. *)
LEMMA RunnerSlot ==
    ASSUME WatchdogInv, runner.stage \in {"receipt", "scout", "watchdog"}
    PROVE  /\ runner \in [slot : AllSlots, stage : {"receipt", "scout", "watchdog"}]
           /\ runner.slot \in AllSlots /\ runner.slot[1] \in SlotDays
           /\ runner.slot[2] \in 1 .. SlotCount
<1>1. runner \in [slot : AllSlots, stage : {"receipt", "scout", "watchdog"}]
    BY NoTickRecord DEF WatchdogInv, WatchdogTypeOK
<1>2. runner.slot \in AllSlots  BY <1>1
<1>3. QED  BY <1>1, <1>2 DEF AllSlots

LEMMA RunSlotKeeps ==
    ASSUME WatchdogInv, RunSlot
    PROVE  WatchdogInv'
<1>1. PICK s \in SlotsOf(Today) :
          /\ workflows' = [workflows EXCEPT ![s[1]] = @ \cup {<<"role", s[2]>>}]
          /\ runner' = [slot |-> s, stage |-> "receipt"]
    BY DEF RunSlot
<1>2. UNCHANGED <<clock, receipts, gapVars, vouched, records, deaths>>  BY DEF RunSlot
<1>3. s \in AllSlots  BY ClockDays DEF WatchdogInv, WatchdogState
<1>4. s[1] \in SlotDays /\ s[2] \in 1 .. SlotCount  BY <1>3 DEF AllSlots
<1>5. <<"role", s[2]>> \in Kinds /\ <<"role", s[2]>> # <<"watchdog", 0>>  BY <1>4 DEF Kinds
<1>6. /\ workflows' \in [SlotDays -> SUBSET Kinds] /\ VouchedFor' /\ CycleReceiptIsEarned'
    BY <1>1, <1>2, <1>4, <1>5, RunnerWrites
<1>7. runner' \in [slot : AllSlots, stage : {"receipt", "scout", "watchdog"}]  BY <1>1, <1>3
<1>8. WatchdogTypeOK'
    BY <1>2, <1>6, <1>7 DEF WatchdogInv, WatchdogTypeOK, gapVars
<1>9. QED  BY <1>2, <1>6, <1>8, SlotStepKeeps

LEMMA WriteSlotReceiptKeeps ==
    ASSUME WatchdogInv, WriteSlotReceipt
    PROVE  WatchdogInv'
<1> DEFINE s == runner.slot
<1>1. /\ receipts' = [receipts EXCEPT ![s].natural = TRUE]
      /\ UNCHANGED <<clock, workflows, gapVars, vouched, records, deaths>>
    BY DEF WriteSlotReceipt
<1>2. /\ runner \in [slot : AllSlots, stage : {"receipt", "scout", "watchdog"}]
      /\ s \in AllSlots
    BY RunnerSlot DEF WriteSlotReceipt
<1>3. receipts \in [AllSlots -> SlotReceipts]
    BY DEF WatchdogInv, WatchdogTypeOK, SlotReceipts
<1>4. [receipts[s] EXCEPT !.natural = TRUE] \in SlotReceipts  BY <1>2, <1>3 DEF SlotReceipts
<1>5. receipts' \in [AllSlots -> SlotReceipts]  BY <1>1, <1>2, <1>3, <1>4
<1>6. ASSUME NEW u \in AllSlots
      PROVE  /\ receipts'[u].labelled = receipts[u].labelled
             /\ receipts'[u].byHand = receipts[u].byHand
             /\ receipts[u].natural => receipts'[u].natural
  <2>1. receipts[u] \in SlotReceipts  BY <1>3
  <2>2. QED  BY <1>1, <1>2, <1>3, <2>1 DEF SlotReceipts
<1>7. VouchedFor'  BY <1>1, <1>6 DEF WatchdogInv, VouchedFor
<1>8. CycleReceiptIsEarned'
    BY <1>1, <1>6, ClockDays DEF WatchdogInv, WatchdogState, CycleReceiptIsEarned
<1>9. runner' \in [slot : AllSlots, stage : {"receipt", "scout", "watchdog"}]
    BY <1>2 DEF WriteSlotReceipt
<1>10. WatchdogTypeOK'
    BY <1>1, <1>5, <1>9 DEF WatchdogInv, WatchdogTypeOK, gapVars, SlotReceipts
<1>11. QED  BY <1>1, <1>7, <1>8, <1>10, SlotStepKeeps

LEMMA WriteScoutPointerKeeps ==
    ASSUME WatchdogInv, WriteScoutPointer
    PROVE  WatchdogInv'
<1>1. /\ workflows' = [workflows EXCEPT ![runner.slot[1]] = @ \cup {<<"scout", 1>>}]
      /\ UNCHANGED <<clock, receipts, gapVars, vouched, records, deaths>>
    BY DEF WriteScoutPointer
<1>2. /\ runner \in [slot : AllSlots, stage : {"receipt", "scout", "watchdog"}]
      /\ runner.slot[1] \in SlotDays
    BY RunnerSlot DEF WriteScoutPointer
<1>3. <<"scout", 1>> \in Kinds /\ <<"scout", 1>> # <<"watchdog", 0>>  BY DEF Kinds
<1>4. /\ workflows' \in [SlotDays -> SUBSET Kinds] /\ VouchedFor' /\ CycleReceiptIsEarned'
    BY <1>1, <1>2, <1>3, RunnerWrites
<1>5. runner' \in [slot : AllSlots, stage : {"receipt", "scout", "watchdog"}]
    BY <1>2 DEF WriteScoutPointer
<1>6. WatchdogTypeOK'
    BY <1>1, <1>4, <1>5 DEF WatchdogInv, WatchdogTypeOK, gapVars
<1>7. QED  BY <1>1, <1>4, <1>6, SlotStepKeeps

LEMMA FinishSlotKeeps ==
    ASSUME WatchdogInv, FinishSlot
    PROVE  WatchdogInv'
<1> DEFINE d == runner.slot[1]
<1>1. /\ workflows' = [workflows EXCEPT ![d] = IF AllNaturalSlots(d) THEN @ \cup {<<"watchdog", 0>>}
                                              ELSE @]
      /\ runner' = NoRun
      /\ UNCHANGED <<clock, receipts, gapVars, vouched, records, deaths>>
    BY DEF FinishSlot
<1>2. d \in SlotDays  BY RunnerSlot DEF FinishSlot
<1>3. <<"watchdog", 0>> \in Kinds  BY DEF Kinds
<1>4. /\ workflows' \in [SlotDays -> SUBSET Kinds] /\ VouchedFor' /\ CycleReceiptIsEarned'
  <2>1. CASE AllNaturalSlots(d)
    <3>1. workflows' = [workflows EXCEPT ![d] = @ \cup {<<"watchdog", 0>>}]  BY <1>1, <2>1
    <3>2. QED  BY <1>1, <1>2, <1>3, <2>1, <3>1, RunnerWrites
  <2>2. CASE ~AllNaturalSlots(d)
    <3>1. workflows' = workflows
        BY <1>1, <1>2, <2>2 DEF WatchdogInv, WatchdogTypeOK
    <3>2. QED
        BY <1>1, <3>1 DEF WatchdogInv, WatchdogTypeOK, VouchedFor, CycleReceiptIsEarned
  <2>3. QED  BY <2>1, <2>2
<1>5. WatchdogTypeOK'
    BY <1>1, <1>4 DEF WatchdogInv, WatchdogTypeOK, gapVars
<1>6. QED  BY <1>1, <1>4, <1>5, SlotStepKeeps

LEMMA RecordByHandKeeps ==
    ASSUME WatchdogInv, RecordByHand
    PROVE  WatchdogInv'
<1>1. PICK s \in Due, status \in {"ok", "failed"}, natural \in BOOLEAN :
          /\ receipts' = [receipts EXCEPT ![s] = [@ EXCEPT !.byHand = status, !.labelled = natural]]
          /\ vouched' = IF natural /\ status = "ok" THEN vouched \cup {s} ELSE vouched
    BY DEF RecordByHand
<1>2. /\ records < MaxRecords /\ records' = records + 1
      /\ UNCHANGED <<clock, workflows, runner, gapVars, deaths>>
    BY DEF RecordByHand
<1>3. s \in AllSlots  BY ClockDays DEF WatchdogInv, WatchdogState
<1>4. receipts \in [AllSlots -> SlotReceipts]
    BY DEF WatchdogInv, WatchdogTypeOK, SlotReceipts
<1>5. [receipts[s] EXCEPT !.byHand = status, !.labelled = natural] \in SlotReceipts
    BY <1>3, <1>4 DEF SlotReceipts
<1>6. receipts' \in [AllSlots -> SlotReceipts]  BY <1>1, <1>3, <1>4, <1>5
<1>7. vouched' \subseteq AllSlots /\ vouched \subseteq vouched'
    BY <1>1, <1>3 DEF WatchdogInv, WatchdogTypeOK
<1>8. ASSUME NEW u \in AllSlots
      PROVE  /\ receipts'[u].labelled /\ receipts'[u].byHand = "ok" => u \in vouched'
             /\ receipts'[u].natural = receipts[u].natural
  <2>1. receipts[u] \in SlotReceipts  BY <1>4
  <2>2. CASE u = s
    <3>1. /\ receipts'[u].labelled = natural /\ receipts'[u].byHand = status
          /\ receipts'[u].natural = receipts[u].natural
        BY <1>1, <1>4, <2>1, <2>2 DEF SlotReceipts
    <3>2. QED  BY <1>1, <2>2, <3>1
  <2>3. CASE u # s
      BY <1>1, <1>4, <1>7, <2>3 DEF WatchdogInv, VouchedFor
  <2>4. QED  BY <2>2, <2>3
<1>9. VouchedFor'  BY <1>8 DEF VouchedFor
<1>10. CycleReceiptIsEarned'
    BY <1>2, <1>7, <1>8, ClockDays DEF WatchdogInv, WatchdogState, CycleReceiptIsEarned
<1>11. WatchdogTypeOK'
    BY <1>2, <1>6, <1>7, WatchdogAssumption DEF WatchdogInv, WatchdogTypeOK, gapVars, SlotReceipts
<1>12. QED  BY <1>2, <1>9, <1>10, <1>11, SlotStepKeeps

-----------------------------------------------------------------------------
(* A step of the watchdog or the grading that writes no issue. *)
LEMMA IssuesStay ==
    ASSUME WatchdogInv, UNCHANGED <<clock, slotVars, gaps>>,
           tick' \in TickRecords,
           grading' \in [day : SlotDays, missed : SUBSET AllSlots] \cup {NoGrade},
           watchdog' \in [enabled : BOOLEAN, live : GapIds \cup {NoGap}],
           deaths' \in 0 .. MaxDeaths,
           deaths' = 0 /\ ~GradeOverlaps => RememberedIsOpen'
    PROVE  WatchdogInv'
<1>1. UNCHANGED <<receipts, workflows, runner, vouched, records>>  BY DEF slotVars
<1>2. WatchdogTypeOK'
    BY <1>1 DEF WatchdogInv, WatchdogTypeOK, TickRecords
<1>3. OneOpenGap'  BY DEF WatchdogInv, OneOpenGap, OpenGaps
<1>4. QED  BY <1>2, <1>3, GapStepKeeps

LEMMA TickObserveKeeps ==
    ASSUME WatchdogInv, TickObserve
    PROVE  WatchdogInv'
<1> DEFINE missed == {s \in Due : ~Satisfied(s)}
<1>1. /\ tick = NoTick /\ (grading = NoGrade \/ GradeOverlaps)
      /\ tick' = [at |-> "observed", live |-> watchdog.live, missed |-> missed, resolved |-> FALSE]
      /\ UNCHANGED <<clock, slotVars, gaps, watchdog, grading, deaths>>
    BY DEF TickObserve
<1>2. missed \in SUBSET AllSlots  BY ClockDays DEF WatchdogInv, WatchdogState
<1> HIDE DEF missed
<1>3. watchdog.live \in GapIds \cup {NoGap}  BY DEF WatchdogInv, WatchdogTypeOK
<1>4. /\ tick' \in TickRecords /\ tick'.at = "observed"
      /\ tick'.live = watchdog.live /\ ~tick'.resolved
    BY <1>1, <1>2, <1>3 DEF TickRecords
<1>5. OpenGaps' = OpenGaps  BY <1>1 DEF OpenGaps
<1>6. deaths' = 0 /\ ~GradeOverlaps => RememberedIsOpen'
    BY <1>1, <1>4, <1>5, NoTickRecord DEF WatchdogInv, RememberedIsOpen
<1>7. QED  BY <1>1, <1>4, <1>6, IssuesStay DEF WatchdogInv, WatchdogTypeOK

LEMMA TickConflictsKeeps ==
    ASSUME WatchdogInv, TickConflicts
    PROVE  WatchdogInv'
<1>1. /\ tick.at = "observed" /\ tick' = NoTick
      /\ UNCHANGED <<clock, slotVars, gaps, watchdog, grading, deaths>>
    BY DEF TickConflicts
<1>2. OpenGaps' = OpenGaps  BY <1>1 DEF OpenGaps
<1>3. deaths' = 0 /\ ~GradeOverlaps => RememberedIsOpen'
    BY <1>1, <1>2, NoTickRecord DEF WatchdogInv, RememberedIsOpen
<1>4. QED  BY <1>1, <1>3, NoTickRecord, IssuesStay DEF WatchdogInv, WatchdogTypeOK

(* The one open issue is the one that is found. *)
LEMMA FindLiveFinds ==
    ASSUME WatchdogTypeOK, OneOpenGap
    PROVE  /\ FindLive = NoGap <=> OpenGaps = {}
           /\ OpenGaps # {} => FindLive \in GapIds /\ OpenGaps = {FindLive}
<1>1. GapIds \subseteq Nat \ {0}  BY WatchdogAssumption DEF GapIds
<1>2. CASE OpenGaps = {}  BY <1>2 DEF FindLive
<1>3. CASE OpenGaps # {}
  <2>1. PICK g \in OpenGaps : TRUE  BY <1>3
  <2>2. g \in GapIds /\ g \in Nat \ {0}  BY <1>1 DEF OpenGaps
  <2>3. \A h \in OpenGaps : g <= h  BY <2>2 DEF OneOpenGap
  <2>4. FindLive \in OpenGaps  BY <1>3, <2>3 DEF FindLive
  <2>5. FindLive = g  BY <2>4 DEF OneOpenGap
  <2>6. QED  BY <1>3, <2>2, <2>5 DEF OneOpenGap, NoGap
<1>4. QED  BY <1>2, <1>3

LEMMA CreateOrUpdateKeeps ==
    ASSUME WatchdogTypeOK, OneOpenGap, NEW missed \in SUBSET AllSlots, NEW g \in GapIds,
           CreateOrUpdate(missed, g)
    PROVE  /\ gaps' \in [GapIds -> GapRecords]
           /\ OpenGaps' = {g} /\ OpenGaps \subseteq {g} /\ OneOpenGap'
<1>1. gaps \in [GapIds -> GapRecords]  BY DEF WatchdogTypeOK, GapRecords
<1>2. gaps' = [gaps EXCEPT ![g] = [status |-> "open", missed |-> missed]]  BY DEF CreateOrUpdate
<1>3. [status |-> "open", missed |-> missed] \in GapRecords  BY DEF GapRecords
<1>4. gaps' \in [GapIds -> GapRecords]  BY <1>1, <1>2, <1>3
<1>5. OpenGaps \subseteq {g}  BY FindLiveFinds DEF CreateOrUpdate
<1>6. OpenGaps' = {g}
  <2>1. \A h \in GapIds :
           gaps'[h] = IF h = g THEN [status |-> "open", missed |-> missed] ELSE gaps[h]
      BY <1>1, <1>2
  <2>2. \A h \in GapIds : h # g => gaps[h].status # "open"  BY <1>5 DEF OpenGaps
  <2>3. QED  BY <2>1, <2>2 DEF OpenGaps
<1>7. QED  BY <1>4, <1>5, <1>6 DEF OneOpenGap

(* What a step that writes an issue leaves to show. *)
LEMMA IssueStepKeeps ==
    ASSUME WatchdogInv, UNCHANGED <<clock, slotVars, watchdog, deaths>>,
           gaps' \in [GapIds -> GapRecords], tick' \in TickRecords,
           grading' \in {grading, NoGrade}, OneOpenGap',
           deaths = 0 /\ ~GradeOverlaps => RememberedIsOpen'
    PROVE  WatchdogInv'
<1>1. UNCHANGED <<receipts, workflows, runner, vouched, records>>  BY DEF slotVars
<1>2. WatchdogTypeOK'
    BY <1>1 DEF WatchdogInv, WatchdogTypeOK, TickRecords, GapRecords
<1>3. QED  BY <1>2, GapStepKeeps

LEMMA TickActsKeeps ==
    ASSUME WatchdogInv, TickActs
    PROVE  WatchdogInv'
<1>1. /\ tick.at = "observed" /\ tick \in TickRecords
      /\ UNCHANGED <<clock, slotVars, watchdog, grading, deaths>>
    BY DEF TickActs, WatchdogInv, WatchdogTypeOK, TickRecords
<1>2. tick # NoTick  BY <1>1, NoTickRecord
<1>3. /\ OpenGaps \in SUBSET GapIds /\ watchdog.live \in GapIds \cup {NoGap}
      /\ tick.missed \in SUBSET AllSlots /\ tick.live \in GapIds \cup {NoGap}
      /\ NoGap \notin GapIds
    BY <1>1, WatchdogAssumption
       DEF OpenGaps, WatchdogInv, WatchdogTypeOK, TickRecords, GapIds, NoGap
<1>4. deaths = 0 /\ ~GradeOverlaps =>
          /\ grading = NoGrade /\ tick.live = watchdog.live /\ ~tick.resolved
          /\ watchdog.live # NoGap => watchdog.live \in OpenGaps
    BY <1>1, <1>2 DEF WatchdogInv, RememberedIsOpen
<1>5. ASSUME NEW g \in GapIds, CreateOrUpdate(tick.missed, g),
             tick' = [tick EXCEPT !.at = "acted", !.live = g]
      PROVE  WatchdogInv'
  <2>1. /\ gaps' \in [GapIds -> GapRecords] /\ OpenGaps' = {g} /\ OpenGaps \subseteq {g}
        /\ OneOpenGap'
      BY <1>3, <1>5, CreateOrUpdateKeeps DEF WatchdogInv
  <2>2. /\ tick' \in TickRecords /\ tick'.at = "acted" /\ tick'.live = g
      BY <1>1, <1>5 DEF TickRecords
  <2>3. deaths = 0 /\ ~GradeOverlaps => (watchdog.live # NoGap => watchdog.live = g)
      BY <1>4, <2>1
  <2>4. tick'.resolved = tick.resolved  BY <1>1, <1>5 DEF TickRecords
  <2>5. deaths = 0 /\ ~GradeOverlaps => RememberedIsOpen'
      BY <1>1, <1>4, <2>1, <2>2, <2>3, <2>4 DEF RememberedIsOpen
  <2>6. QED  BY <1>1, <2>1, <2>2, <2>5, IssueStepKeeps
<1>6. CASE /\ tick.missed = {} /\ FindLive # NoGap
           /\ gaps' = [gaps EXCEPT ![FindLive].status = "resolved"]
           /\ tick' = [tick EXCEPT !.at = "acted", !.live = FindLive, !.resolved = TRUE]
  <2>1. FindLive \in GapIds /\ OpenGaps = {FindLive}
      BY <1>6, FindLiveFinds DEF WatchdogInv
  <2>2. gaps \in [GapIds -> GapRecords]  BY DEF WatchdogInv, WatchdogTypeOK, GapRecords
  <2>3. [gaps[FindLive] EXCEPT !.status = "resolved"] \in GapRecords
      BY <2>1, <2>2 DEF GapRecords
  <2>4. gaps' \in [GapIds -> GapRecords]  BY <1>6, <2>1, <2>2, <2>3
  <2>5. OpenGaps' = {}
    <3>1. gaps'[FindLive].status = "resolved"
        BY <1>6, <2>1, <2>2 DEF GapRecords
    <3>2. \A h \in GapIds : h # FindLive => gaps'[h] = gaps[h]  BY <1>6, <2>1, <2>2
    <3>3. QED  BY <2>1, <3>1, <3>2 DEF OpenGaps
  <2>6. tick' \in TickRecords /\ tick'.at = "acted" /\ tick'.resolved = TRUE
      BY <1>1, <1>6, <2>1 DEF TickRecords
  <2>7. deaths = 0 /\ ~GradeOverlaps => RememberedIsOpen'
      BY <1>1, <1>4, <2>5, <2>6 DEF RememberedIsOpen
  <2>8. QED  BY <1>1, <2>4, <2>5, <2>6, <2>7, IssueStepKeeps DEF OneOpenGap
<1>7. CASE /\ tick.missed = {} /\ FindLive = NoGap
           /\ tick' = [tick EXCEPT !.at = "acted"] /\ UNCHANGED gaps
  <2>1. OpenGaps = {} /\ OpenGaps' = {}
      BY <1>7, FindLiveFinds DEF WatchdogInv, OpenGaps
  <2>2. tick' \in TickRecords /\ tick'.at = "acted" /\ tick'.live = tick.live
      BY <1>1, <1>7 DEF TickRecords
  <2>3. deaths = 0 /\ ~GradeOverlaps => RememberedIsOpen'
      BY <1>1, <1>4, <2>1, <2>2 DEF RememberedIsOpen
  <2>4. gaps' \in [GapIds -> GapRecords]  BY <1>7 DEF WatchdogInv, WatchdogTypeOK, GapRecords
  <2>5. QED  BY <1>1, <2>1, <2>2, <2>3, <2>4, IssueStepKeeps DEF OneOpenGap
<1>8. QED  BY <1>5, <1>6, <1>7 DEF TickActs

LEMMA TickSavesKeeps ==
    ASSUME WatchdogInv, TickSaves
    PROVE  WatchdogInv'
<1> DEFINE live == IF tick.resolved THEN NoGap ELSE tick.live
<1>1. /\ tick.at = "acted" /\ tick' = NoTick /\ watchdog' = [enabled |-> TRUE, live |-> live]
      /\ UNCHANGED <<clock, slotVars, gaps, grading, deaths>>
    BY DEF TickSaves
<1>2. live \in GapIds \cup {NoGap}  BY DEF WatchdogInv, WatchdogTypeOK, NoTick
<1>3. OpenGaps' = OpenGaps  BY <1>1 DEF OpenGaps
<1>4. deaths = 0 /\ ~GradeOverlaps => (live # NoGap => live \in OpenGaps)
    BY <1>1 DEF WatchdogInv, RememberedIsOpen
<1> HIDE DEF live
<1>5. /\ watchdog' \in [enabled : BOOLEAN, live : GapIds \cup {NoGap}]
      /\ watchdog'.live = live
    BY <1>1, <1>2
<1>6. deaths' = 0 /\ ~GradeOverlaps => RememberedIsOpen'
    BY <1>1, <1>3, <1>4, <1>5, NoTickRecord DEF RememberedIsOpen
<1>7. QED  BY <1>1, <1>5, <1>6, NoTickRecord, IssuesStay DEF WatchdogInv, WatchdogTypeOK

LEMMA SetEnabledKeeps ==
    ASSUME WatchdogInv, SetEnabled
    PROVE  WatchdogInv'
<1>1. /\ tick = NoTick /\ watchdog' = [watchdog EXCEPT !.enabled = ~@]
      /\ UNCHANGED <<clock, slotVars, gaps, tick, grading, deaths>>
    BY DEF SetEnabled
<1>2. /\ watchdog' \in [enabled : BOOLEAN, live : GapIds \cup {NoGap}]
      /\ watchdog'.live = watchdog.live
    BY <1>1 DEF WatchdogInv, WatchdogTypeOK
<1>3. OpenGaps' = OpenGaps  BY <1>1 DEF OpenGaps
<1>4. deaths' = 0 /\ ~GradeOverlaps => RememberedIsOpen'
    BY <1>1, <1>2, <1>3, NoTickRecord DEF WatchdogInv, RememberedIsOpen
<1>5. QED  BY <1>1, <1>2, <1>4, NoTickRecord, IssuesStay DEF WatchdogInv, WatchdogTypeOK

LEMMA GradeDayKeeps ==
    ASSUME WatchdogInv, GradeDay
    PROVE  WatchdogInv'
<1>1. PICK d \in 0 .. Today : grading' = [day |-> d, missed |-> GapMissed(d)]  BY DEF GradeDay
<1>2. /\ tick = NoTick \/ GradeOverlaps
      /\ UNCHANGED <<clock, slotVars, gaps, watchdog, tick, deaths>>
    BY DEF GradeDay
<1>3. d \in SlotDays  BY ClockDays, WatchdogAssumption DEF WatchdogInv, WatchdogState, SlotDays
<1>4. GapMissed(d) \in SUBSET AllSlots
  <2>1. SlotsOf(d) \subseteq AllSlots /\ <<d, 1>> \in AllSlots
      BY <1>3, WatchdogAssumption DEF SlotsOf, AllSlots
  <2>2. QED  BY <2>1 DEF GapMissed
<1>5. grading' \in [day : SlotDays, missed : SUBSET AllSlots]  BY <1>1, <1>3, <1>4
<1>6. OpenGaps' = OpenGaps  BY <1>2 DEF OpenGaps
<1>7. deaths' = 0 /\ ~GradeOverlaps => RememberedIsOpen'
    BY <1>2, <1>6, NoTickRecord DEF WatchdogInv, RememberedIsOpen
<1>8. QED  BY <1>2, <1>5, <1>7, IssuesStay DEF WatchdogInv, WatchdogTypeOK, TickRecords

LEMMA GradeOpensGapKeeps ==
    ASSUME WatchdogInv, GradeOpensGap
    PROVE  WatchdogInv'
<1>1. PICK g \in GapIds : CreateOrUpdate(grading.missed, g)  BY DEF GradeOpensGap
<1>2. /\ grading # NoGrade /\ grading' = NoGrade
      /\ UNCHANGED <<clock, slotVars, watchdog, tick, deaths>>
    BY DEF GradeOpensGap
<1>3. grading.missed \in SUBSET AllSlots  BY <1>2 DEF WatchdogInv, WatchdogTypeOK
<1>4. /\ gaps' \in [GapIds -> GapRecords] /\ OpenGaps' = {g} /\ OpenGaps \subseteq {g}
      /\ OneOpenGap'
    BY <1>1, <1>3, CreateOrUpdateKeeps DEF WatchdogInv
<1>5. deaths = 0 /\ ~GradeOverlaps => RememberedIsOpen'
    BY <1>2, <1>4, NoTickRecord DEF WatchdogInv, RememberedIsOpen
<1>6. QED  BY <1>2, <1>4, <1>5, IssueStepKeeps DEF WatchdogInv, WatchdogTypeOK, TickRecords

LEMMA WatchdogDiesKeeps ==
    ASSUME WatchdogInv, WatchdogDies
    PROVE  WatchdogInv'
<1>1. /\ deaths < MaxDeaths /\ deaths' = deaths + 1
      /\ runner' \in {runner, NoRun} /\ tick' \in {tick, NoTick} /\ grading' \in {grading, NoGrade}
      /\ UNCHANGED <<clock, receipts, workflows, gaps, watchdog, vouched, records>>
    BY DEF WatchdogDies
<1>2. deaths' \in 0 .. MaxDeaths /\ deaths' # 0
    BY <1>1, WatchdogAssumption DEF WatchdogInv, WatchdogTypeOK
<1>3. WatchdogTypeOK'
    BY <1>1, <1>2, NoTickRecord DEF WatchdogInv, WatchdogTypeOK, TickRecords
<1>4. /\ OneOpenGap' /\ VouchedFor' /\ CycleReceiptIsEarned'
    BY <1>1 DEF WatchdogInv, OneOpenGap, OpenGaps, VouchedFor, CycleReceiptIsEarned
<1>5. QED  BY <1>1, <1>2, <1>3, <1>4 DEF WatchdogInv

LEMMA WatchdogStep ==
    ASSUME WatchdogInv, [WatchdogNext]_watchdogVars
    PROVE  WatchdogInv'
<1>1. CASE TimePasses  BY <1>1, TimePassesKeeps
<1>2. CASE RunSlot  BY <1>2, RunSlotKeeps
<1>3. CASE WriteSlotReceipt  BY <1>3, WriteSlotReceiptKeeps
<1>4. CASE WriteScoutPointer  BY <1>4, WriteScoutPointerKeeps
<1>5. CASE FinishSlot  BY <1>5, FinishSlotKeeps
<1>6. CASE RecordByHand  BY <1>6, RecordByHandKeeps
<1>7. CASE TickObserve  BY <1>7, TickObserveKeeps
<1>8. CASE TickConflicts  BY <1>8, TickConflictsKeeps
<1>9. CASE TickActs  BY <1>9, TickActsKeeps
<1>10. CASE TickSaves  BY <1>10, TickSavesKeeps
<1>11. CASE SetEnabled  BY <1>11, SetEnabledKeeps
<1>12. CASE GradeDay  BY <1>12, GradeDayKeeps
<1>13. CASE GradeOpensGap  BY <1>13, GradeOpensGapKeeps
<1>14. CASE WatchdogDies  BY <1>14, WatchdogDiesKeeps
<1>15. CASE UNCHANGED watchdogVars
  <2>1. UNCHANGED <<clock, slotVars, gaps, watchdog, tick, grading, deaths>>
      BY <1>15 DEF watchdogVars, gapVars
  <2>2. RememberedIsOpen => RememberedIsOpen'
      BY <2>1 DEF RememberedIsOpen, OpenGaps
  <2>3. QED  BY <2>1, <2>2, IssuesStay DEF WatchdogInv, WatchdogTypeOK, TickRecords
<1>16. QED
    BY <1>1, <1>2, <1>3, <1>4, <1>5, <1>6, <1>7, <1>8, <1>9, <1>10, <1>11, <1>12, <1>13, <1>14,
       <1>15 DEF WatchdogNext

LEMMA WatchdogAlways == WatchdogSpec => []WatchdogInv
BY WatchdogInitially, WatchdogStep, PTL DEF WatchdogSpec

(* The state of the watchdog has its type. *)
THEOREM WatchdogTyped == WatchdogSpec => []WatchdogTypeOK
<1>1. WatchdogInv => WatchdogTypeOK  BY DEF WatchdogInv
<1>2. QED  BY <1>1, WatchdogAlways, PTL

(* As long as a grading does not overlap a tick, there is at most one open gap issue,
   and while nobody died the watchdog remembers no other, for any number of slots, days,
   gaps and deaths (module Watchdog). That overlap is the hazard the README names. *)
THEOREM OneGapAgreed == ~GradeOverlaps => (WatchdogSpec => []OneAgreedGap)
<1> SUFFICES ASSUME ~GradeOverlaps PROVE WatchdogSpec => []OneAgreedGap  OBVIOUS
<1>1. WatchdogInv => OneAgreedGap
  <2> SUFFICES ASSUME WatchdogInv PROVE OneAgreedGap  OBVIOUS
  <2>1. CASE OpenGaps = {}
    <3>1. Cardinality(OpenGaps) = 0  BY <2>1, FS_EmptySet
    <3>2. FindLive = NoGap  BY <2>1 DEF FindLive
    <3>3. QED  BY <3>1, <3>2 DEF OneAgreedGap
  <2>2. CASE OpenGaps # {}
    <3>1. OpenGaps = {FindLive}  BY <2>2, FindLiveFinds DEF WatchdogInv
    <3>2. Cardinality(OpenGaps) = 1  BY <3>1, FS_Singleton
    <3>3. deaths = 0 /\ watchdog.live # NoGap => FindLive = watchdog.live
      <4> SUFFICES ASSUME deaths = 0, watchdog.live # NoGap
                   PROVE  watchdog.live \in OpenGaps \/ OpenGaps \subseteq {watchdog.live}
          BY <3>1
      <4>1. QED  BY DEF WatchdogInv, RememberedIsOpen
    <3>4. QED  BY <3>2, <3>3 DEF OneAgreedGap
  <2>3. QED  BY <2>1, <2>2
<1>2. QED  BY <1>1, WatchdogAlways, PTL

(* The receipt that completes the natural cycle of a day exists only if each slot of
   that day ran naturally or was vouched for, overlapping gradings included. *)
THEOREM CycleReceiptsAreEarned == WatchdogSpec => []CycleReceiptIsEarned
<1>1. WatchdogInv => CycleReceiptIsEarned  BY DEF WatchdogInv
<1>2. QED  BY <1>1, WatchdogAlways, PTL

-----------------------------------------------------------------------------
(* OriginReads. A file is read in two pieces: the first piece is the file's as long as
   the file has the identity it was opened with (OpenedHolds), which a write never
   brings back (Fresh); hence what was read whole is what the file once held
   (SeenHolds), and what each stage has established of it (ReadEstablished). *)
Heads == OriginRoots \cup OriginKeys \cup SignedRecords
Tails == OriginKeys \cup {"worker", "reviewer"}

Reads == [state : {"read"}, id : OriginIdentities, head : Heads, tail : Tails]
OpenedReads == [state : {"open"}, id : OriginIdentities, head : Heads]
Origins == [state : {"read"}, head : OriginRoots, tail : OriginKeys]
OriginDirs == [state : {"seen", "open"}, at : OriginRoots]

Readers == [stage : ReadStages \cup {"returned", "refused"}, pass : {1, 2}, confirms : BOOLEAN,
            opened : {NotRead} \cup OpenedReads, once : {NotRead} \cup Reads, seen : {NotRead} \cup Reads,
            origin : {NotRead} \cup Origins, dir : {NotRead} \cup OriginDirs,
            record : {NotRead} \cup Reads, signature : {NotRead} \cup Reads]

FilesTyped ==
    /\ originFile \in Manifests
    /\ rootAt \in [OriginRoots -> OriginRoots]
    /\ recordFiles \in [OriginRoots -> [record : RecordFiles, signature : SignatureFiles]]
    /\ published \subseteq [head : OriginRoots, tail : OriginKeys]
    /\ originWrites \in OriginIdentities

(* No file has an identity yet to be given. *)
Fresh ==
    /\ originFile.id <= originWrites
    /\ \A d \in OriginRoots : /\ recordFiles[d].record.id <= originWrites
                              /\ recordFiles[d].signature.id <= originWrites

(* What is in the files was published and signed. *)
Current ==
    /\ Text(originFile) \in published
    /\ \A d \in OriginRoots :
          [record |-> recordFiles[d].signature.head, key |-> recordFiles[d].signature.tail] \in signed

FileStages == ReadStages \ {"pin"}

(* The first piece belongs to the file while the identity is that of the opening. *)
OpenedHolds ==
    /\ reader.stage \in {"pin", "returned"} \/ reader.seen # NotRead => reader.opened = NotRead
    /\ reader.stage \in FileStages /\ reader.opened # NotRead =>
          /\ reader.opened.id <= originWrites
          /\ FileOf(reader.stage).id = reader.opened.id => FileOf(reader.stage).head = reader.opened.head

SeenHolds ==
    /\ reader.stage = "manifest" /\ reader.seen # NotRead => Text(reader.seen) \in published
    /\ reader.stage = "signature" /\ reader.seen # NotRead =>
          [record |-> reader.seen.head, key |-> reader.seen.tail] \in signed

(* What each stage has established. *)
ReadEstablished ==
    /\ reader.stage \notin {"manifest", "refused"} =>
          reader.origin \in Origins /\ reader.dir \in OriginDirs /\ Text(reader.origin) \in published
    /\ reader.stage \in {"record again", "signature again", "returned"} =>
          [record |-> Text(reader.record), key |-> reader.origin.tail] \in signed
    /\ reader.stage = "returned" => reader.record.head = reader.origin.tail

ReaderHolds == reader \in Readers /\ OpenedHolds /\ SeenHolds /\ ReadEstablished

OriginInv == FilesTyped /\ Fresh /\ Current /\ ReaderHolds

-----------------------------------------------------------------------------
LEMMA OriginInitially == OriginInit => OriginInv
<1> SUFFICES ASSUME OriginInit PROVE OriginInv
  OBVIOUS
<1>1. 0 \in OriginIdentities
  BY OriginAssumption DEF OriginIdentities
<1>2. originFile \in Manifests /\ originFile.id = 0
  <2>1. PICK r \in OriginRoots, k \in OriginKeys : TRUE
    BY OriginAssumption
  <2>2. [id |-> 0, head |-> r, tail |-> k] \in Manifests
    BY <1>1 DEF Manifests
  <2>3. \E f \in Manifests : f.id = 0
    BY <2>2
  <2>4. QED
    BY <2>3 DEF OriginInit
<1>3. PICK holds \in [OriginRoots -> OriginKeys] :
         /\ recordFiles = [r \in OriginRoots |->
               [record |-> [id |-> 0, head |-> holds[r], tail |-> "worker"],
                signature |-> [id |-> 0, head |-> [head |-> holds[r], tail |-> "worker"], tail |-> holds[r]]]]
         /\ signed = {[record |-> [head |-> holds[r], tail |-> "worker"], key |-> holds[r]] : r \in OriginRoots}
  BY DEF OriginInit
<1>4. \A r \in OriginRoots :
         /\ recordFiles[r].record \in RecordFiles /\ recordFiles[r].record.id = 0
         /\ recordFiles[r].signature \in SignatureFiles /\ recordFiles[r].signature.id = 0
         /\ recordFiles[r] \in [record : RecordFiles, signature : SignatureFiles]
  BY <1>1, <1>3 DEF RecordFiles, SignatureFiles, SignedRecords
<1>5. Text(originFile) \in [head : OriginRoots, tail : OriginKeys]
  BY <1>2 DEF Text, Manifests
<1>6. FilesTyped
  BY <1>1, <1>2, <1>3, <1>4, <1>5 DEF OriginInit, FilesTyped
<1>7. Fresh
  BY <1>1, <1>2, <1>4 DEF OriginInit, Fresh
<1>8. Current
  <2>1. Text(originFile) \in published
    BY DEF OriginInit
  <2>2. ASSUME NEW d \in OriginRoots
        PROVE  [record |-> recordFiles[d].signature.head, key |-> recordFiles[d].signature.tail] \in signed
    <3>1. /\ recordFiles[d].signature.head = [head |-> holds[d], tail |-> "worker"]
          /\ recordFiles[d].signature.tail = holds[d]
      BY <1>3
    <3>2. QED
      BY <1>3, <3>1
  <2>3. QED
    BY <2>1, <2>2 DEF Current
<1>9. ReaderHolds
  <2>1. PICK confirms \in BOOLEAN :
           reader = [stage |-> "manifest", pass |-> 1, confirms |-> confirms, opened |-> NotRead,
                     once |-> NotRead, seen |-> NotRead, origin |-> NotRead, dir |-> NotRead,
                     record |-> NotRead, signature |-> NotRead]
    BY DEF OriginInit
  <2>2. reader \in Readers
    BY <2>1 DEF Readers, ReadStages
  <2>3. QED
    BY <2>1, <2>2 DEF ReaderHolds, OpenedHolds, SeenHolds, ReadEstablished
<1>10. QED
  BY <1>6, <1>7, <1>8, <1>9 DEF OriginInv

-----------------------------------------------------------------------------
(* The file of a stage has an identity and a text. *)
LEMMA FileTyped ==
    ASSUME FilesTyped, Fresh, reader.stage \in FileStages, ReadEstablished
    PROVE  LET f == FileOf(reader.stage) IN
           f.id \in OriginIdentities /\ f.id <= originWrites /\ f.head \in Heads /\ f.tail \in Tails
<1>1. CASE reader.stage = "manifest"
  BY <1>1 DEF FilesTyped, Fresh, FileOf, Manifests, Heads, Tails
<1>2. CASE reader.stage # "manifest"
  <2>1. reader.dir.at \in OriginRoots
    BY <1>2 DEF ReadEstablished, FileStages, ReadStages, OriginDirs
  <2>2. recordFiles[reader.dir.at].record \in RecordFiles
        /\ recordFiles[reader.dir.at].signature \in SignatureFiles
    BY <2>1 DEF FilesTyped
  <2>3. QED
    BY <1>2, <2>1, <2>2 DEF Fresh, FileOf, RecordFiles, SignatureFiles, Heads, Tails
<1>3. QED
  BY <1>1, <1>2

(* Steps of the reader leave the files alone. *)
LEMMA ReaderSteps ==
    ASSUME OriginInv, UNCHANGED writtenVars, ReaderHolds' PROVE OriginInv'
BY DEF OriginInv, writtenVars, FilesTyped, Fresh, Current

LEMMA HeadKeeps == ASSUME OriginInv, ReadHead PROVE OriginInv'
<1>1. PICK f : f = FileOf(reader.stage)
  OBVIOUS
<1>2. PICK o : o = [state |-> "open", id |-> f.id, head |-> f.head]
  OBVIOUS
<1>3. f.id \in OriginIdentities /\ f.id <= originWrites /\ f.head \in Heads
  BY <1>1, FileTyped DEF ReadHead, OriginInv, ReaderHolds, FileStages
<1>4. o \in OpenedReads /\ o.id = f.id /\ o.head = f.head
  BY <1>2, <1>3 DEF OpenedReads
<1>5. reader' = [reader EXCEPT !.opened = o]
  BY <1>1, <1>2 DEF ReadHead
<1>6. UNCHANGED writtenVars /\ reader.seen = NotRead /\ reader.stage \in FileStages
  BY DEF ReadHead, FileStages
<1>7. UNCHANGED <<originFile, recordFiles, published, signed, originWrites>>
  BY <1>6 DEF writtenVars
<1>8. reader' \in Readers /\ reader'.opened = o
      /\ reader'.stage = reader.stage /\ reader'.seen = reader.seen /\ reader'.dir = reader.dir
      /\ reader'.origin = reader.origin /\ reader'.record = reader.record
  BY <1>4, <1>5 DEF OriginInv, ReaderHolds, Readers
<1>9. FileOf(reader.stage)' = f
  BY <1>1, <1>7, <1>8 DEF FileOf
<1>10. OpenedHolds'
  BY <1>3, <1>4, <1>6, <1>7, <1>8, <1>9 DEF OpenedHolds, FileStages, ReadStages
<1>11. SeenHolds' /\ ReadEstablished'
  BY <1>7, <1>8 DEF OriginInv, ReaderHolds, SeenHolds, ReadEstablished, Text
<1>12. QED
  BY <1>6, <1>8, <1>10, <1>11, ReaderSteps DEF ReaderHolds

(* A refusal holds nothing. *)
LEMMA RefusalKeeps ==
    ASSUME OriginInv, UNCHANGED writtenVars, reader' = [reader EXCEPT !.stage = "refused"],
           reader.stage # "returned"
    PROVE  OriginInv'
<1>1. reader' \in Readers /\ reader'.stage = "refused"
      /\ reader'.seen = reader.seen /\ reader'.opened = reader.opened
  BY DEF OriginInv, ReaderHolds, Readers
<1>2. ReaderHolds'
  BY <1>1 DEF OriginInv, ReaderHolds, OpenedHolds, SeenHolds, ReadEstablished, FileStages, ReadStages
<1>3. QED
  BY <1>2, ReaderSteps

LEMMA TailKeeps == ASSUME OriginInv, ReadTail PROVE OriginInv'
<1> DEFINE f == FileOf(reader.stage)
           got == [state |-> "read", id |-> f.id, head |-> reader.opened.head, tail |-> f.tail]
<1>1. /\ f.id \in OriginIdentities /\ f.tail \in Tails
      /\ reader.opened \in OpenedReads /\ reader.stage \in FileStages
  BY FileTyped DEF ReadTail, OriginInv, ReaderHolds, FileStages, Readers
<1>2. got \in Reads
  BY <1>1 DEF Reads, OpenedReads
<1>3. UNCHANGED writtenVars /\ reader.stage # "returned"
  BY DEF ReadTail, ReadStages
<1>4. CASE reader' = [reader EXCEPT !.stage = "refused"]
  BY <1>3, <1>4, RefusalKeeps
<1>5. CASE reader' = [reader EXCEPT !.opened = NotRead, !.pass = 2, !.once = got]
  <2>1. reader' \in Readers /\ reader'.opened = NotRead
        /\ reader'.stage = reader.stage /\ reader'.seen = reader.seen /\ reader'.dir = reader.dir
        /\ reader'.origin = reader.origin /\ reader'.record = reader.record
    BY <1>2, <1>5 DEF OriginInv, ReaderHolds, Readers
  <2>2. ReaderHolds'
    BY <1>3, <2>1 DEF OriginInv, ReaderHolds, OpenedHolds, SeenHolds, ReadEstablished, writtenVars
  <2>3. QED
    BY <1>3, <2>2, ReaderSteps
<1>6. CASE reader' = [reader EXCEPT !.opened = NotRead, !.seen = got] /\ reader.opened.id = f.id
  <2>1. reader' \in Readers /\ reader'.opened = NotRead
        /\ reader'.stage = reader.stage /\ reader'.seen = got /\ reader'.dir = reader.dir
        /\ reader'.origin = reader.origin /\ reader'.record = reader.record
    BY <1>2, <1>6 DEF OriginInv, ReaderHolds, Readers
  <2>2. f.head = reader.opened.head
    BY <1>1, <1>6 DEF ReadTail, OriginInv, ReaderHolds, OpenedHolds
  <2>3. reader.stage = "manifest" => Text(got) \in published
    BY <2>2 DEF OriginInv, Current, FileOf, Text
  <2>4. reader.stage = "signature" => [record |-> got.head, key |-> got.tail] \in signed
    BY <2>2 DEF OriginInv, ReaderHolds, ReadEstablished, Current, FileOf, OriginDirs
  <2>5. SeenHolds'
    BY <1>3, <2>1, <2>3, <2>4 DEF SeenHolds, writtenVars, Text
  <2>6. OpenedHolds' /\ ReadEstablished'
    BY <1>3, <2>1 DEF OriginInv, ReaderHolds, OpenedHolds, ReadEstablished, writtenVars
  <2>7. QED
    BY <1>3, <2>1, <2>5, <2>6, ReaderSteps DEF ReaderHolds
<1>7. QED
  BY <1>4, <1>5, <1>6 DEF ReadTail, SameFile

(* What one stage hands to the next, none of it read yet. *)
LEMMA NextStage ==
    ASSUME OriginInv, UNCHANGED writtenVars, reader' \in Readers, reader'.opened = NotRead,
           reader'.seen = NotRead, ReadEstablished'
    PROVE  OriginInv'
<1>1. ReaderHolds'
  BY DEF ReaderHolds, OpenedHolds, SeenHolds
<1>2. QED
  BY <1>1, ReaderSteps

LEMMA ManifestKeeps == ASSUME OriginInv, ReadManifest PROVE OriginInv'
<1> DEFINE origin == [state |-> "read", head |-> reader.seen.head, tail |-> reader.seen.tail]
           dir == [state |-> "seen", at |-> rootAt[origin.head]]
<1>1. Text(reader.seen) \in published /\ reader.opened = NotRead
  BY DEF ReadManifest, OriginInv, ReaderHolds, SeenHolds, OpenedHolds
<1>2. Text(reader.seen) \in [head : OriginRoots, tail : OriginKeys]
  BY <1>1 DEF OriginInv, FilesTyped
<1>3. origin \in Origins /\ Text(origin) \in published
  BY <1>1, <1>2 DEF Origins, Text
<1>4. dir \in OriginDirs
  BY <1>3 DEF OriginDirs, Origins, OriginInv, FilesTyped
<1>5. /\ reader' \in Readers /\ reader'.opened = NotRead /\ reader'.seen = NotRead
      /\ reader'.stage = "pin" /\ reader'.origin = origin /\ reader'.dir = dir
  BY <1>1, <1>3, <1>4 DEF ReadManifest, Continues, OriginInv, ReaderHolds, Readers, ReadStages
<1>6. ReadEstablished'
  <2>1. published' = published
    BY DEF ReadManifest, writtenVars
  <2>2. reader'.origin \in Origins /\ reader'.dir \in OriginDirs
    BY <1>3, <1>4, <1>5
  <2>3. [head |-> reader'.origin.head, tail |-> reader'.origin.tail] \in published'
    BY <1>3, <1>5, <2>1 DEF Text
  <2>4. QED
    BY <1>5, <2>2, <2>3 DEF ReadEstablished, Text
<1>7. QED
  BY <1>5, <1>6, NextStage DEF ReadManifest

LEMMA PinKeeps == ASSUME OriginInv, PinOpened PROVE OriginInv'
<1>1. CASE rootAt[reader.origin.head] = reader.dir.at
  <2>1. reader.dir \in OriginDirs /\ reader.opened = NotRead
    BY DEF PinOpened, OriginInv, ReaderHolds, ReadEstablished, OpenedHolds
  <2>2. [reader.dir EXCEPT !.state = "open"] \in OriginDirs
    BY <2>1 DEF OriginDirs
  <2>3. /\ reader' \in Readers /\ reader'.opened = NotRead /\ reader'.seen = NotRead
        /\ reader'.stage = "record" /\ reader'.origin = reader.origin
        /\ reader'.dir = [reader.dir EXCEPT !.state = "open"]
    BY <1>1, <2>1, <2>2 DEF PinOpened, Continues, OriginInv, ReaderHolds, Readers, ReadStages
  <2>4. ReadEstablished'
    <3>1. published' = published /\ reader.stage = "pin"
      BY DEF PinOpened, writtenVars
    <3>2. reader.origin \in Origins /\ Text(reader.origin) \in published
      BY <3>1 DEF OriginInv, ReaderHolds, ReadEstablished
    <3>3. QED
      BY <2>2, <2>3, <3>1, <3>2 DEF ReadEstablished, Text
  <2>5. QED
    BY <2>3, <2>4, NextStage DEF PinOpened
<1>2. CASE rootAt[reader.origin.head] # reader.dir.at
  BY <1>2, RefusalKeeps DEF PinOpened
<1>3. QED
  BY <1>1, <1>2

LEMMA ReadRecordKeeps == ASSUME OriginInv, ReadRecord PROVE OriginInv'
<1>1. reader.opened = NotRead /\ reader.seen \in Reads
  BY DEF ReadRecord, OriginInv, ReaderHolds, OpenedHolds, Readers
<1>2. /\ reader' \in Readers /\ reader'.opened = NotRead /\ reader'.seen = NotRead
      /\ reader'.stage = "signature" /\ reader'.origin = reader.origin /\ reader'.dir = reader.dir
  BY <1>1 DEF ReadRecord, Continues, OriginInv, ReaderHolds, Readers, ReadStages
<1>3. ReadEstablished'
  <2>1. published' = published /\ reader.stage = "record"
    BY DEF ReadRecord, writtenVars
  <2>2. reader.origin \in Origins /\ reader.dir \in OriginDirs /\ Text(reader.origin) \in published
    BY <2>1 DEF OriginInv, ReaderHolds, ReadEstablished
  <2>3. QED
    BY <1>2, <2>1, <2>2 DEF ReadEstablished, Text
<1>4. QED
  BY <1>2, <1>3, NextStage DEF ReadRecord

(* A signature that verifies was made of the record with the key of the origin. *)
LEMMA SignatureKeeps == ASSUME OriginInv, ReadSignature PROVE OriginInv'
<1> DEFINE stage == IF reader.confirms THEN "record again" ELSE "returned"
<1>1. CASE ~Verifies \/ (~reader.confirms /\ ~NamesItsOrigin)
  BY <1>1, RefusalKeeps DEF ReadSignature
<1>2. CASE Verifies /\ (reader.confirms \/ NamesItsOrigin)
  <2>1. reader.opened = NotRead /\ reader.seen \in Reads
    BY DEF ReadSignature, OriginInv, ReaderHolds, OpenedHolds, Readers
  <2>2. /\ reader' \in Readers /\ reader'.opened = NotRead /\ reader'.seen = NotRead
        /\ reader'.stage = stage /\ reader'.origin = reader.origin /\ reader'.dir = reader.dir
        /\ reader'.record = reader.record
    BY <1>2, <2>1 DEF ReadSignature, Continues, OriginInv, ReaderHolds, Readers, ReadStages
  <2>3. [record |-> Text(reader.record), key |-> reader.origin.tail] \in signed
    BY <1>2 DEF ReadSignature, Verifies, OriginInv, ReaderHolds, SeenHolds
  <2>4. ReadEstablished'
    <3>1. UNCHANGED <<published, signed>> /\ reader.stage = "signature"
      BY DEF ReadSignature, writtenVars
    <3>2. stage = "returned" => reader.record.head = reader.origin.tail
      BY <1>2 DEF NamesItsOrigin
    <3>3. reader.origin \in Origins /\ reader.dir \in OriginDirs /\ Text(reader.origin) \in published
      BY <3>1 DEF OriginInv, ReaderHolds, ReadEstablished
    <3>4. QED
      BY <2>2, <2>3, <3>1, <3>2, <3>3 DEF ReadEstablished, Text
  <2>5. QED
    BY <2>2, <2>4, NextStage DEF ReadSignature
<1>3. QED
  BY <1>1, <1>2

LEMMA ConfirmationKeeps ==
    ASSUME OriginInv, ConfirmRecord \/ ConfirmSignature PROVE OriginInv'
<1>1. /\ reader.stage \in {"record again", "signature again"} /\ reader.opened = NotRead
      /\ UNCHANGED writtenVars
  BY DEF ConfirmRecord, ConfirmSignature, OriginInv, ReaderHolds, OpenedHolds
<1>2. CASE reader' = [reader EXCEPT !.stage = "refused"]
  BY <1>1, <1>2, RefusalKeeps
<1>3. CASE \/ reader' = Continues("signature again")
           \/ reader' = Continues("returned") /\ NamesItsOrigin
  <2>1. /\ reader' \in Readers /\ reader'.opened = NotRead /\ reader'.seen = NotRead
        /\ reader'.stage \in {"signature again", "returned"}
        /\ reader'.stage = "returned" => NamesItsOrigin
        /\ reader'.origin = reader.origin /\ reader'.dir = reader.dir /\ reader'.record = reader.record
    BY <1>1, <1>3 DEF Continues, OriginInv, ReaderHolds, Readers, ReadStages
  <2>2. ReadEstablished'
    BY <1>1, <2>1 DEF ReadEstablished, NamesItsOrigin, OriginInv, ReaderHolds, writtenVars
  <2>3. QED
    BY <1>1, <2>1, <2>2, NextStage
<1>4. QED
  BY <1>2, <1>3 DEF ConfirmRecord, ConfirmSignature

-----------------------------------------------------------------------------
(* A write gives the file an identity that nobody has opened. *)
LEMMA WriterSteps ==
    ASSUME OriginInv, reader' = reader, FilesTyped', Fresh', Current', originWrites <= originWrites',
           published \subseteq published', signed \subseteq signed',
           reader.stage \in FileStages =>
               FileOf(reader.stage)' = FileOf(reader.stage) \/ FileOf(reader.stage)'.id > originWrites
    PROVE  OriginInv'
<1>1. originWrites \in Nat /\ originWrites' \in Nat
  BY OriginAssumption DEF OriginInv, FilesTyped, OriginIdentities
<1>2. reader \in Readers /\ (reader.opened # NotRead => reader.opened \in OpenedReads)
  BY DEF OriginInv, ReaderHolds, Readers
<1>3. OpenedHolds'
  <2> SUFFICES ASSUME reader.stage \in FileStages, reader.opened # NotRead
               PROVE  /\ reader.opened.id <= originWrites'
                      /\ FileOf(reader.stage)'.id = reader.opened.id
                            => FileOf(reader.stage)'.head = reader.opened.head
    BY DEF OriginInv, ReaderHolds, OpenedHolds
  <2>1. reader.opened.id \in Nat /\ reader.opened.id <= originWrites
    BY <1>2 DEF OpenedReads, OriginIdentities, OriginInv, ReaderHolds, OpenedHolds
  <2>2. CASE FileOf(reader.stage)' = FileOf(reader.stage)
    BY <1>1, <2>1, <2>2 DEF OriginInv, ReaderHolds, OpenedHolds
  <2>3. CASE FileOf(reader.stage)'.id > originWrites
    BY <1>1, <2>1, <2>3
  <2>4. QED
    BY <2>2, <2>3
<1>4. SeenHolds' /\ ReadEstablished'
  BY DEF OriginInv, ReaderHolds, SeenHolds, ReadEstablished
<1>5. QED
  BY <1>2, <1>3, <1>4 DEF OriginInv, ReaderHolds

LEMMA RepublishKeeps ==
    ASSUME OriginInv, NEW r \in OriginRoots, NEW k \in OriginKeys, Republish(r, k) PROVE OriginInv'
<1>1. originWrites \in Nat /\ originWrites' = originWrites + 1 /\ originWrites' \in OriginIdentities
  BY OriginAssumption DEF Republish, Written, OriginInv, FilesTyped, OriginIdentities
<1>2. /\ originFile' \in Manifests /\ originFile'.id = originWrites + 1
      /\ Text(originFile)' = [head |-> r, tail |-> k]
  BY <1>1 DEF Republish, Manifests, Text
<1>3. FilesTyped'
  BY <1>1, <1>2 DEF Republish, OriginInv, FilesTyped
<1>4. Fresh'
  BY <1>1, <1>2, <1>3 DEF Republish, OriginInv, Fresh, FilesTyped, RecordFiles, SignatureFiles, OriginIdentities
<1>5. Current'
  BY <1>2 DEF Republish, OriginInv, Current
<1>6. FileOf(reader.stage)' = FileOf(reader.stage) \/ FileOf(reader.stage)'.id > originWrites
  <2>1. UNCHANGED <<reader, recordFiles>>
    BY DEF Republish
  <2>2. CASE reader.stage = "manifest"
    BY <1>1, <1>2, <2>1, <2>2 DEF FileOf
  <2>3. CASE reader.stage # "manifest"
    BY <2>1, <2>3 DEF FileOf
  <2>4. QED
    BY <2>2, <2>3
<1>7. QED
  BY <1>1, <1>3, <1>4, <1>5, <1>6, WriterSteps DEF Republish

(* A record or a signature is written. *)
LEMMA FilesOfOneDirectory ==
    ASSUME OriginInv, NEW d \in OriginRoots, NEW f \in [record : RecordFiles, signature : SignatureFiles],
           recordFiles' = [recordFiles EXCEPT ![d] = f], originWrites' = originWrites + 1,
           originWrites' \in OriginIdentities,
           f.record = recordFiles[d].record \/ f.record.id = originWrites + 1,
           f.signature = recordFiles[d].signature \/ f.signature.id = originWrites + 1,
           [record |-> f.signature.head, key |-> f.signature.tail] \in signed',
           signed \subseteq signed', UNCHANGED <<originFile, rootAt, reader, published>>
    PROVE  OriginInv'
<1>1. originWrites \in Nat
  BY OriginAssumption DEF OriginInv, FilesTyped, OriginIdentities
<1>2. recordFiles'[d] = f /\ \A e \in OriginRoots \ {d} : recordFiles'[e] = recordFiles[e]
  BY DEF OriginInv, FilesTyped
<1>3. FilesTyped'
  BY DEF OriginInv, FilesTyped
<1>4. Fresh'
  <2>1. originFile.id \in Nat /\ \A e \in OriginRoots : recordFiles[e].record.id \in Nat
                                                       /\ recordFiles[e].signature.id \in Nat
    BY OriginAssumption DEF OriginInv, FilesTyped, Manifests, RecordFiles, SignatureFiles, OriginIdentities
  <2>2. QED
    BY <1>1, <1>2, <2>1 DEF OriginInv, Fresh
<1>5. Current'
  BY <1>2 DEF OriginInv, Current
<1>6. FileOf(reader.stage)' = FileOf(reader.stage) \/ FileOf(reader.stage)'.id > originWrites
      \/ reader.stage \notin FileStages
  <2>1. SUFFICES ASSUME reader.stage \in FileStages
                 PROVE  FileOf(reader.stage)' = FileOf(reader.stage) \/ FileOf(reader.stage)'.id > originWrites
    OBVIOUS
  <2>2. CASE reader.stage = "manifest"
    BY <2>2 DEF FileOf
  <2>3. CASE reader.stage # "manifest"
    <3>1. reader.dir.at \in OriginRoots
      BY <2>1, <2>3 DEF OriginInv, ReaderHolds, ReadEstablished, FileStages, ReadStages, OriginDirs
    <3>2. \A e \in OriginRoots :
             /\ recordFiles'[e].record = recordFiles[e].record
                  \/ recordFiles'[e].record.id > originWrites
             /\ recordFiles'[e].signature = recordFiles[e].signature
                  \/ recordFiles'[e].signature.id > originWrites
      BY <1>1, <1>2
    <3>3. CASE reader.stage \in {"record", "record again"}
      <4>1. /\ FileOf(reader.stage) = recordFiles[reader.dir.at].record
            /\ FileOf(reader.stage)' = recordFiles'[reader.dir.at].record
        BY <2>3, <3>3 DEF FileOf
      <4>2. QED
        BY <3>1, <3>2, <4>1
    <3>4. CASE reader.stage \notin {"record", "record again"}
      <4>1. /\ FileOf(reader.stage) = recordFiles[reader.dir.at].signature
            /\ FileOf(reader.stage)' = recordFiles'[reader.dir.at].signature
        BY <2>3, <3>4 DEF FileOf
      <4>2. QED
        BY <3>1, <3>2, <4>1
    <3>5. QED
      BY <3>3, <3>4
  <2>4. QED
    BY <2>2, <2>3
<1>7. QED
  BY <1>1, <1>3, <1>4, <1>5, <1>6, WriterSteps

LEMMA WriteRecordKeeps ==
    ASSUME OriginInv, NEW d \in OriginRoots, NEW r \in SignedRecords, WriteRecord(d, r) PROVE OriginInv'
<1>1. PICK f : f = [recordFiles[d] EXCEPT !.record = [id |-> originWrites + 1, head |-> r.head, tail |-> r.tail]]
  OBVIOUS
<1>2. recordFiles[d] \in [record : RecordFiles, signature : SignatureFiles]
  BY DEF OriginInv, FilesTyped
<1>3. originWrites' = originWrites + 1 /\ originWrites' \in OriginIdentities
  BY OriginAssumption DEF WriteRecord, Written, OriginInv, FilesTyped, OriginIdentities
<1>4. [id |-> originWrites + 1, head |-> r.head, tail |-> r.tail] \in RecordFiles
  BY <1>3 DEF RecordFiles, SignedRecords
<1>5. /\ f \in [record : RecordFiles, signature : SignatureFiles]
      /\ f.record.id = originWrites + 1 /\ f.signature = recordFiles[d].signature
  BY <1>1, <1>2, <1>4
<1>6. recordFiles' = [recordFiles EXCEPT ![d] = f]
  BY <1>1 DEF WriteRecord
<1>7. [record |-> f.signature.head, key |-> f.signature.tail] \in signed'
  BY <1>5 DEF WriteRecord, OriginInv, Current
<1>8. QED
  BY <1>3, <1>5, <1>6, <1>7, FilesOfOneDirectory DEF WriteRecord

LEMMA WriteSignatureKeeps ==
    ASSUME OriginInv, NEW d \in OriginRoots, WriteSignature(d) PROVE OriginInv'
<1> DEFINE t == Text(recordFiles[d].record)
<1>1. PICK f : f = [recordFiles[d] EXCEPT !.signature = [id |-> originWrites + 1, head |-> t, tail |-> t.head]]
  OBVIOUS
<1>2. recordFiles[d] \in [record : RecordFiles, signature : SignatureFiles]
  BY DEF OriginInv, FilesTyped
<1>3. originWrites' = originWrites + 1 /\ originWrites' \in OriginIdentities
  BY OriginAssumption DEF WriteSignature, Written, OriginInv, FilesTyped, OriginIdentities
<1>4. t \in SignedRecords
  BY <1>2 DEF RecordFiles, SignedRecords, Text
<1>5. [id |-> originWrites + 1, head |-> t, tail |-> t.head] \in SignatureFiles
  BY <1>3, <1>4 DEF SignatureFiles, SignedRecords
<1>6. /\ f \in [record : RecordFiles, signature : SignatureFiles]
      /\ f.signature = [id |-> originWrites + 1, head |-> t, tail |-> t.head]
      /\ f.record = recordFiles[d].record
  BY <1>1, <1>2, <1>5
<1>7. recordFiles' = [recordFiles EXCEPT ![d] = f]
  BY <1>1 DEF WriteSignature
<1>8. [record |-> f.signature.head, key |-> f.signature.tail] \in signed' /\ signed \subseteq signed'
  BY <1>6 DEF WriteSignature
<1>9. QED
  <2>1. UNCHANGED <<originFile, rootAt, reader, published>>
    BY DEF WriteSignature
  <2>2. f.signature.id = originWrites + 1
    BY <1>6
  <2>3. QED
    BY <1>3, <1>6, <1>7, <1>8, <2>1, <2>2, FilesOfOneDirectory

(* The files of a directory that is held open are its own wherever it is put. *)
LEMMA SwapKeeps ==
    ASSUME OriginInv, NEW r \in OriginRoots, NEW d \in OriginRoots, SwapRoot(r, d) PROVE OriginInv'
<1>1. originWrites \in Nat /\ originWrites' = originWrites + 1 /\ originWrites' \in OriginIdentities
  BY OriginAssumption DEF SwapRoot, Written, OriginInv, FilesTyped, OriginIdentities
<1>2. FilesTyped'
  BY <1>1 DEF SwapRoot, OriginInv, FilesTyped
<1>3. Fresh'
  <2>1. originFile.id \in Nat /\ \A e \in OriginRoots : recordFiles[e].record.id \in Nat
                                                       /\ recordFiles[e].signature.id \in Nat
    BY OriginAssumption DEF OriginInv, FilesTyped, Manifests, RecordFiles, SignatureFiles, OriginIdentities
  <2>2. QED
    BY <1>1, <2>1 DEF SwapRoot, OriginInv, Fresh
<1>4. Current'
  BY DEF SwapRoot, OriginInv, Current
<1>5. FileOf(reader.stage)' = FileOf(reader.stage)
  BY DEF SwapRoot, FileOf
<1>6. QED
  BY <1>1, <1>2, <1>3, <1>4, <1>5, WriterSteps DEF SwapRoot

LEMMA OriginKept == OriginInv /\ [OriginNext]_originVars => OriginInv'
<1> SUFFICES ASSUME OriginInv, [OriginNext]_originVars PROVE OriginInv'
  OBVIOUS
<1>1. CASE UNCHANGED originVars
  <2>1. UNCHANGED writtenVars /\ reader' = reader
    BY <1>1 DEF originVars, writtenVars
  <2>2. ReaderHolds'
    BY <2>1 DEF OriginInv, ReaderHolds, OpenedHolds, SeenHolds, ReadEstablished, FileOf, writtenVars
  <2>3. QED
    BY <2>1, <2>2, ReaderSteps
<1>2. CASE OriginNext
  BY <1>2, HeadKeeps, TailKeeps, ManifestKeeps, PinKeeps, ReadRecordKeeps, SignatureKeeps, ConfirmationKeeps,
     RepublishKeeps, WriteRecordKeeps, WriteSignatureKeeps, SwapKeeps DEF OriginNext
<1>3. QED
  BY <1>1, <1>2

(* What is signed is a record, with a key. *)
SignedTyped == signed \subseteq [record : SignedRecords, key : OriginKeys]

LEMMA SignedInitially == OriginInit => SignedTyped
<1> SUFFICES ASSUME OriginInit PROVE SignedTyped
  OBVIOUS
<1>1. PICK holds \in [OriginRoots -> OriginKeys] :
         signed = {[record |-> [head |-> holds[r], tail |-> "worker"], key |-> holds[r]] : r \in OriginRoots}
  BY DEF OriginInit
<1>2. \A r \in OriginRoots : [head |-> holds[r], tail |-> "worker"] \in SignedRecords
  BY <1>1 DEF SignedRecords
<1>3. QED
  BY <1>1, <1>2 DEF SignedTyped

LEMMA SignedKept == ASSUME OriginInv, SignedTyped, [OriginNext]_originVars PROVE SignedTyped'
<1>1. CASE \E d \in OriginRoots : WriteSignature(d)
  <2>1. PICK d \in OriginRoots : WriteSignature(d)
    BY <1>1
  <2>2. recordFiles[d].record \in RecordFiles
    BY DEF OriginInv, FilesTyped
  <2>3. Text(recordFiles[d].record) \in SignedRecords /\ Text(recordFiles[d].record).head \in OriginKeys
    BY <2>2 DEF RecordFiles, SignedRecords, Text
  <2>4. QED
    BY <2>1, <2>3 DEF WriteSignature, SignedTyped
<1>2. CASE UNCHANGED signed
  BY <1>2 DEF SignedTyped
<1>3. QED
  BY <1>1, <1>2 DEF OriginNext, originVars, writtenVars, ReadHead, ReadTail, ReadManifest, PinOpened,
                    ReadRecord, ReadSignature, ConfirmRecord, ConfirmSignature, Republish,
                    WriteRecord, SwapRoot

(* The files, the read and what was signed have their types, for any roots, keys and
   number of writes (scheduler and actor origins). *)
THEOREM OriginTypesHold == OriginSpec => []OriginTypeOK
<1>1. OriginInv /\ SignedTyped => OriginTypeOK
  BY DEF OriginInv, FilesTyped, SignedTyped, ReaderHolds, Readers, OriginTypeOK, OriginIdentities
<1>2. QED
  BY <1>1, OriginInitially, OriginKept, SignedInitially, SignedKept, PTL DEF OriginSpec

(* What is returned is one manifest's and was signed with its key, however the files
   are written meanwhile (scheduler and actor origins). *)
THEOREM ReturnedOriginIsOne == OriginSpec => []OriginIsOne
<1>1. OriginInv => OriginIsOne
  BY DEF OriginInv, ReaderHolds, ReadEstablished, OriginIsOne
<1>2. QED
  BY <1>1, OriginInitially, OriginKept, PTL DEF OriginSpec

-----------------------------------------------------------------------------
(* ShadowStore. An audit under way writes only what is not there and has it in the
   files, then in the index, before it goes on (AuditInOrder). *)
AuditsAtWork ==
    [by : {"observation", "review"}, stage : {"write", "project", "jsonl"},
     content : AuditContents]

RebuildsAtWork == [by : {"rebuild"}, stage : {"project", "jsonl"}]

Observations == [stage : {"audit", "auditing", "record"}, content : ShadowContents]

(* An audit under way writes only a record that is not there, and has it in the
   files and then in the index when it goes on. *)
AuditInOrder ==
    auditing.by \in {"observation", "review"} =>
        /\ auditing.stage = "write" => auditing.content \notin Contents(auditFiles)
        /\ auditing.stage = "project" => auditing.content \in Contents(auditFiles)
        /\ auditing.stage = "jsonl" => auditing.content \in Contents(auditIndex)

(* The audit of an observation is of what it observed. *)
AuditIsItsOwn ==
    auditing.by = "observation" =>
        observation.stage = "auditing" /\ auditing.content = AuditOf(observation.content)

(* An observation that is about to be recorded had its audit kept, or failed to. *)
ObservedIsAudited ==
    observation # NoObservation =>
        IF observation.content.route = "NO_AGENT"
        THEN observation.stage = "record" /\ observation.content.audit = "none"
        ELSE observation.stage = "record" /\ observation.content.audit # "failed" =>
                AuditOf(observation.content) \in Contents(auditJsonl)

DeliveredIsRecorded ==
    \A c \in delivered :
        /\ c \in Contents(shadowFiles) /\ ShadowVerdict(c)
        /\ c.audit = "kept" => AuditOf(c) \in Contents(auditJsonl)

ShadowInv ==
    /\ ShadowTypeOK
    /\ Readable(auditFiles) /\ Readable(shadowFiles)
    /\ auditJsonl \subseteq auditIndex /\ auditIndex \subseteq auditFiles
    /\ AuditInOrder /\ AuditIsItsOwn /\ ObservedIsAudited
    /\ DeliveredIsRecorded

-----------------------------------------------------------------------------
LEMMA ShadowNames ==
    /\ NoAuditing.by = "none" /\ NoAuditing.stage = "none" /\ NoObservation.stage = "none"
    /\ \A a \in AuditsAtWork : a # NoAuditing /\ a.by \in {"observation", "review"}
    /\ \A a \in RebuildsAtWork : a # NoAuditing /\ a.by = "rebuild"
    /\ \A o \in Observations : o # NoObservation
BY DEF NoAuditing, NoObservation, AuditsAtWork, RebuildsAtWork, Observations

LEMMA ShadowInitially == ShadowInit => ShadowInv
<1> SUFFICES ASSUME ShadowInit PROVE ShadowInv  OBVIOUS
<1>1. 0 \in 0 .. MaxShadowFaults  BY ShadowAssumption
<1>2. ShadowTypeOK  BY <1>1 DEF ShadowInit, ShadowTypeOK
<1>3. QED
    BY <1>2, ShadowNames
       DEF ShadowInit, ShadowInv, Readable, AuditInOrder, AuditIsItsOwn, ObservedIsAudited,
           DeliveredIsRecorded

(* The records of what is under way. *)
LEMMA ShadowRecords ==
    ASSUME ShadowInv
    PROVE  /\ auditing.by \in {"observation", "review"} => auditing \in AuditsAtWork
           /\ auditing.stage \in {"write", "project", "jsonl"} =>
                 auditing \in AuditsAtWork \cup RebuildsAtWork
           /\ auditing.stage = "write" => auditing \in AuditsAtWork
           /\ observation.stage \in {"audit", "auditing", "record"} => observation \in Observations
           /\ auditing \in {NoAuditing} \cup AuditsAtWork \cup RebuildsAtWork
           /\ observation \in {NoObservation} \cup Observations
<1>1. auditing \in {NoAuditing} \cup AuditsAtWork \cup RebuildsAtWork
    BY DEF ShadowInv, ShadowTypeOK, AuditsAtWork, RebuildsAtWork
<1>2. observation \in {NoObservation} \cup Observations
    BY DEF ShadowInv, ShadowTypeOK, Observations
<1>3. \A a \in RebuildsAtWork : a.stage # "write"  BY DEF RebuildsAtWork
<1>4. QED  BY <1>1, <1>2, <1>3, ShadowNames

(* The audit of an observation, whatever its outcome. *)
LEMMA AuditOfIs ==
    ASSUME NEW c \in ShadowContents, NEW a \in {"kept", "failed", "route", "missing", "none"}
    PROVE  /\ AuditOf(c) \in AuditContents
           /\ AuditOf([c EXCEPT !.audit = a]) = AuditOf(c)
           /\ [c EXCEPT !.audit = a] \in ShadowContents
           /\ [c EXCEPT !.audit = a].audit = a /\ [c EXCEPT !.audit = a].route = c.route
           /\ [c EXCEPT !.audit = a].policy = c.policy /\ [c EXCEPT !.audit = a].valid = c.valid
<1>1. /\ [c EXCEPT !.audit = a] \in ShadowContents
      /\ [c EXCEPT !.audit = a].run = c.run
      /\ [c EXCEPT !.audit = a].audit = a /\ [c EXCEPT !.audit = a].route = c.route
      /\ [c EXCEPT !.audit = a].policy = c.policy /\ [c EXCEPT !.audit = a].valid = c.valid
    BY DEF ShadowContents
<1>2. AuditOf(c) \in AuditContents  BY DEF AuditOf, AuditContents, ShadowContents, Surfaces
<1>3. AuditOf([c EXCEPT !.audit = a]) = AuditOf(c)  BY <1>1 DEF AuditOf
<1>4. QED  BY <1>1, <1>2, <1>3

(* The observation after its audit. *)
LEMMA AuditEndsSo ==
    ASSUME ShadowInv, NEW outcome \in {"kept", "failed"}, AuditEnds(outcome)
    PROVE  /\ observation' \in {NoObservation} \cup Observations
           /\ auditing.by # "observation" => observation' = observation
           /\ auditing.by = "observation" =>
                 /\ observation \in Observations /\ observation' \in Observations
                 /\ auditing.content = AuditOf(observation'.content)
                 /\ observation'.content.route = observation.content.route
                 /\ observation'.content.audit = outcome
                 /\ observation.content.route = "LLM"
<1>1. CASE auditing.by # "observation"  BY <1>1, ShadowRecords DEF AuditEnds
<1>2. CASE auditing.by = "observation"
  <2>1. /\ observation.stage = "auditing" /\ auditing.content = AuditOf(observation.content)
        /\ observation \in Observations
      BY <1>2, ShadowRecords DEF ShadowInv, AuditIsItsOwn
  <2> DEFINE d == [observation.content EXCEPT !.audit = outcome]
  <2>3. observation.content \in ShadowContents  BY <2>1 DEF Observations
  <2>2. outcome \in {"kept", "failed", "route", "missing", "none"}  OBVIOUS
  <2>4. /\ d \in ShadowContents /\ AuditOf(d) = AuditOf(observation.content)
        /\ d.route = observation.content.route /\ d.audit = outcome
      BY <2>2, <2>3, AuditOfIs
  <2>5. observation' = [stage |-> "record", content |-> d]
      BY <1>2 DEF AuditEnds
  <2> HIDE DEF d
  <2>6. observation' \in Observations /\ observation'.content = d
      BY <2>4, <2>5 DEF Observations
  <2>7. observation.content.route = "LLM"
      BY <2>1, <2>3, ShadowNames DEF ShadowInv, ObservedIsAudited, ShadowContents
  <2>8. QED  BY <1>2, <2>1, <2>4, <2>6, <2>7
<1>3. QED  BY <1>1, <1>2

AuditsTyped ==
    auditFiles \subseteq Audits /\ auditIndex \subseteq Audits /\ auditJsonl \subseteq Audits
ShadowsTyped == shadowFiles \subseteq Shadows /\ delivered \subseteq ShadowContents

(* What is kept of the shadows while no record is written. *)
LEMMA ShadowsKept ==
    ASSUME ShadowInv, UNCHANGED <<shadowFiles, delivered>>, auditJsonl \subseteq auditJsonl'
    PROVE  /\ ShadowsTyped'
           /\ Readable(shadowFiles)' /\ DeliveredIsRecorded'
BY DEF ShadowInv, ShadowTypeOK, ShadowsTyped, Readable, DeliveredIsRecorded, Contents

(* What is kept of the audits while none is written. *)
LEMMA AuditsKept ==
    ASSUME ShadowInv, UNCHANGED auditVars
    PROVE  /\ AuditsTyped'
           /\ Readable(auditFiles)'
           /\ auditJsonl' \subseteq auditIndex' /\ auditIndex' \subseteq auditFiles'
           /\ auditJsonl \subseteq auditJsonl'
BY DEF ShadowInv, ShadowTypeOK, AuditsTyped, Readable, auditVars

(* The types of what is under way, from the sets of its records. *)
LEMMA ShadowTypes ==
    ASSUME AuditsTyped',
           ShadowsTyped',
           auditing' \in {NoAuditing} \cup AuditsAtWork \cup RebuildsAtWork,
           observation' \in {NoObservation} \cup Observations,
           shadowFaults' \in 0 .. MaxShadowFaults
    PROVE  ShadowTypeOK'
BY DEF ShadowTypeOK, AuditsTyped, ShadowsTyped, AuditsAtWork, RebuildsAtWork, Observations

LEMMA FaultsSo ==
    ASSUME ShadowInv
    PROVE  /\ shadowFaults \in 0 .. MaxShadowFaults
           /\ shadowFaults < MaxShadowFaults => shadowFaults + 1 \in 0 .. MaxShadowFaults
BY ShadowAssumption DEF ShadowInv, ShadowTypeOK

LEMMA AuditStageIs == ASSUME NEW c
    PROVE  /\ AuditStage(c) \in {"write", "project"}
           /\ AuditStage(c) = "write" <=> c \notin Contents(auditFiles)
BY DEF AuditStage

LEMMA AuditBeginsSo ==
    ASSUME ShadowInv, NEW by \in {"observation", "review"}, NEW c \in AuditContents,
           AuditBegins(by, c)
    PROVE  /\ auditing' \in AuditsAtWork /\ auditing'.by = by /\ auditing'.content = c
           /\ AuditInOrder'
<1>1. auditing' = [by |-> by, stage |-> AuditStage(c), content |-> c]  BY DEF AuditBegins
<1>2. UNCHANGED auditVars  BY DEF AuditBegins
<1>3. /\ auditing' \in AuditsAtWork /\ auditing'.by = by
      /\ auditing'.content = c /\ auditing'.stage = AuditStage(c)
    BY <1>1, AuditStageIs DEF AuditsAtWork
<1>4. AuditInOrder'  BY <1>2, <1>3, AuditStageIs DEF AuditInOrder, auditVars
<1>5. QED  BY <1>3, <1>4

LEMMA ObservationAuditsKeeps == ShadowInv /\ ObservationAudits => ShadowInv'
<1> SUFFICES ASSUME ShadowInv, ObservationAudits PROVE ShadowInv'  OBVIOUS
<1>1. /\ observation \in Observations /\ observation.stage = "audit"
      /\ observation.content \in ShadowContents
    BY ShadowRecords DEF ObservationAudits, Observations
<1>2. /\ observation' \in Observations /\ observation'.stage = "auditing"
      /\ observation'.content = observation.content
    BY <1>1 DEF ObservationAudits, Observations
<1>3. AuditOf(observation.content) \in AuditContents
    BY <1>1 DEF AuditOf, AuditContents, ShadowContents, Surfaces
<1>4. /\ auditing' \in AuditsAtWork /\ auditing'.by = "observation"
      /\ auditing'.content = AuditOf(observation.content) /\ AuditInOrder'
    BY <1>3, AuditBeginsSo DEF ObservationAudits
<1>5. UNCHANGED <<auditVars, shadowFiles, delivered, shadowFaults>>
    BY DEF ObservationAudits, AuditBegins
<1>6. AuditIsItsOwn'  BY <1>2, <1>4 DEF AuditIsItsOwn
<1>7. ObservedIsAudited'
    BY <1>1, <1>2, ShadowNames DEF ObservedIsAudited, ShadowInv
<1>8. QED
    BY <1>2, <1>4, <1>5, <1>6, <1>7, AuditsKept, ShadowsKept, ShadowTypes, FaultsSo DEF ShadowInv

LEMMA ReviewAuditsKeeps == ShadowInv /\ ReviewAudits => ShadowInv'
<1> SUFFICES ASSUME ShadowInv, ReviewAudits PROVE ShadowInv'  OBVIOUS
<1>1. PICK c \in AuditContents : AuditBegins("review", c)
  <2>1. PICK run \in ShadowRuns, valid \in BOOLEAN, policy \in ReviewLadders :
           AuditBegins("review", [run |-> run, surface |-> "review", valid |-> valid,
                                  policy |-> policy])
      BY DEF ReviewAudits
  <2>2. [run |-> run, surface |-> "review", valid |-> valid, policy |-> policy] \in AuditContents
      BY ShadowAssumption DEF AuditContents, Surfaces
  <2>3. QED  BY <2>1, <2>2
<1>2. auditing' \in AuditsAtWork /\ auditing'.by = "review" /\ AuditInOrder'
    BY <1>1, AuditBeginsSo
<1>3. UNCHANGED <<auditVars, shadowFiles, delivered, shadowFaults, observation>>
    BY <1>1 DEF ReviewAudits, AuditBegins
<1>4. AuditIsItsOwn'  BY <1>2 DEF AuditIsItsOwn
<1>5. ObservedIsAudited'  BY <1>3 DEF ObservedIsAudited, ShadowInv, auditVars
<1>6. QED
    BY <1>2, <1>3, <1>4, <1>5, AuditsKept, ShadowsKept, ShadowTypes, FaultsSo, ShadowRecords
       DEF ShadowInv

LEMMA ObservationCannotAuditKeeps == ShadowInv /\ ObservationCannotAudit => ShadowInv'
<1> SUFFICES ASSUME ShadowInv, ObservationCannotAudit PROVE ShadowInv'  OBVIOUS
<1>1. /\ observation \in Observations /\ observation.stage = "audit"
      /\ observation.content \in ShadowContents
    BY ShadowRecords DEF ObservationCannotAudit, Observations
<1> DEFINE d == [observation.content EXCEPT !.audit = "failed"]
<1>2. d \in ShadowContents /\ d.audit = "failed" /\ d.route = observation.content.route
    BY <1>1, AuditOfIs
<1>3. observation' = [stage |-> "record", content |-> d]  BY DEF ObservationCannotAudit
<1> HIDE DEF d
<1>4. observation' \in Observations /\ observation'.content = d
    BY <1>2, <1>3 DEF Observations
<1>5. UNCHANGED <<auditVars, auditing, shadowFiles, delivered, shadowFaults>>
    BY DEF ObservationCannotAudit
<1>6. AuditIsItsOwn' /\ AuditInOrder'
    BY <1>1, <1>5 DEF AuditIsItsOwn, AuditInOrder, ShadowInv, auditVars
<1>7. observation.content.route # "NO_AGENT"
    BY <1>1, ShadowNames DEF ShadowInv, ObservedIsAudited
<1>8. ObservedIsAudited'  BY <1>2, <1>4, <1>7 DEF ObservedIsAudited
<1>9. QED
    BY <1>4, <1>5, <1>6, <1>8, AuditsKept, ShadowsKept, ShadowTypes, FaultsSo, ShadowRecords
       DEF ShadowInv

LEMMA AuditWriteKeeps == ShadowInv /\ AuditWrite => ShadowInv'
<1> SUFFICES ASSUME ShadowInv, AuditWrite PROVE ShadowInv'  OBVIOUS
<1>1. auditing \in AuditsAtWork /\ auditing.stage = "write" /\ auditing.content \in AuditContents
    BY ShadowRecords DEF AuditWrite, AuditsAtWork
<1>2. auditing.content \notin Contents(auditFiles)
    BY <1>1, ShadowNames DEF ShadowInv, AuditInOrder
<1>3. PICK f \in Audits : f.content = auditing.content /\ auditFiles' = auditFiles \cup {f}
    BY <1>1 DEF AuditWrite, Audits
<1>4. /\ auditing' \in AuditsAtWork
      /\ auditing'.by = auditing.by /\ auditing'.content = auditing.content
      /\ auditing'.stage = "project"
    BY <1>1 DEF AuditWrite, AuditsAtWork
<1>5. UNCHANGED <<auditIndex, auditJsonl, shadowFiles, observation, delivered, shadowFaults>>
    BY DEF AuditWrite
<1>6. /\ AuditsTyped'
      /\ auditJsonl' \subseteq auditIndex' /\ auditIndex' \subseteq auditFiles'
      /\ auditJsonl \subseteq auditJsonl'
    BY <1>3, <1>5 DEF ShadowInv, ShadowTypeOK, AuditsTyped
<1>7. Readable(auditFiles)'
    BY <1>2, <1>3 DEF ShadowInv, Readable, Contents
<1>8. AuditInOrder'  BY <1>3, <1>4 DEF AuditInOrder, Contents
<1>9. AuditIsItsOwn' /\ ObservedIsAudited'
    BY <1>4, <1>5 DEF ShadowInv, AuditIsItsOwn, ObservedIsAudited
<1>10. QED
    BY <1>4, <1>5, <1>6, <1>7, <1>8, <1>9, ShadowsKept, ShadowTypes, FaultsSo, ShadowRecords
       DEF ShadowInv

LEMMA RebuildBeginsKeeps == ShadowInv /\ RebuildBegins => ShadowInv'
<1> SUFFICES ASSUME ShadowInv, RebuildBegins PROVE ShadowInv'  OBVIOUS
<1>1. auditing' \in RebuildsAtWork /\ auditing'.by = "rebuild"
    BY DEF RebuildBegins, RebuildsAtWork
<1>2. UNCHANGED <<auditVars, shadowFiles, observation, delivered, shadowFaults>>
    BY DEF RebuildBegins
<1>3. AuditInOrder' /\ AuditIsItsOwn'  BY <1>1 DEF AuditInOrder, AuditIsItsOwn
<1>4. ObservedIsAudited'  BY <1>2 DEF ObservedIsAudited, ShadowInv, auditVars
<1>5. QED
    BY <1>1, <1>2, <1>3, <1>4, AuditsKept, ShadowsKept, ShadowTypes, FaultsSo, ShadowRecords
       DEF ShadowInv

LEMMA ProjectIndexKeeps == ShadowInv /\ ProjectIndex => ShadowInv'
<1> SUFFICES ASSUME ShadowInv, ProjectIndex PROVE ShadowInv'  OBVIOUS
<1>1. /\ auditing \in AuditsAtWork \cup RebuildsAtWork /\ auditing.stage = "project"
      /\ Readable(auditFiles)
    BY ShadowRecords DEF ProjectIndex, ShadowInv
<1>2. /\ auditIndex' = auditFiles /\ auditing' = [auditing EXCEPT !.stage = "jsonl"]
      /\ UNCHANGED <<auditFiles, auditJsonl, shadowFiles, observation, delivered, shadowFaults>>
    BY <1>1 DEF ProjectIndex
<1>3. /\ auditing' \in AuditsAtWork \cup RebuildsAtWork /\ auditing'.by = auditing.by
      /\ auditing'.stage = "jsonl"
      /\ auditing \in AuditsAtWork => auditing'.content = auditing.content
    BY <1>1, <1>2 DEF AuditsAtWork, RebuildsAtWork
<1>4. /\ AuditsTyped'
      /\ auditJsonl' \subseteq auditIndex' /\ auditIndex' \subseteq auditFiles'
      /\ auditJsonl \subseteq auditJsonl' /\ Readable(auditFiles)'
    BY <1>1, <1>2 DEF ShadowInv, ShadowTypeOK, AuditsTyped
<1>5. auditing.by \in {"observation", "review"} => auditing \in AuditsAtWork
    BY <1>1, ShadowNames
<1>6. AuditInOrder'
    BY <1>1, <1>2, <1>3, <1>5 DEF AuditInOrder, ShadowInv
<1>7. AuditIsItsOwn' /\ ObservedIsAudited'
    BY <1>2, <1>3, <1>5 DEF ShadowInv, AuditIsItsOwn, ObservedIsAudited
<1>8. QED
    BY <1>2, <1>3, <1>4, <1>6, <1>7, ShadowsKept, ShadowTypes, FaultsSo, ShadowRecords
       DEF ShadowInv

LEMMA ProjectJsonlKeeps == ShadowInv /\ ProjectJsonl => ShadowInv'
<1> SUFFICES ASSUME ShadowInv, ProjectJsonl PROVE ShadowInv'  OBVIOUS
<1>1. /\ auditJsonl' = auditIndex /\ auditing' = NoAuditing /\ AuditEnds("kept")
      /\ UNCHANGED <<auditFiles, auditIndex, shadowFiles, delivered, shadowFaults>>
      /\ auditing.stage = "jsonl"
    BY DEF ProjectJsonl
<1>2. /\ AuditsTyped'
      /\ auditJsonl' \subseteq auditIndex' /\ auditIndex' \subseteq auditFiles'
      /\ auditJsonl \subseteq auditJsonl' /\ Readable(auditFiles)'
    BY <1>1 DEF ShadowInv, ShadowTypeOK, Readable, AuditsTyped
<1>3. AuditInOrder' /\ AuditIsItsOwn'
    BY <1>1, ShadowNames DEF AuditInOrder, AuditIsItsOwn
<1>4. /\ observation' \in {NoObservation} \cup Observations
      /\ auditing.by # "observation" => observation' = observation
      /\ auditing.by = "observation" =>
            /\ auditing.content = AuditOf(observation'.content)
            /\ observation'.content.route = "LLM"
    BY <1>1, AuditEndsSo
<1>5. ObservedIsAudited'
  <2>1. CASE auditing.by = "observation"
    <3>1. auditing.content \in Contents(auditJsonl')
        BY <1>1, <2>1 DEF ShadowInv, AuditInOrder, Contents
    <3>2. QED  BY <1>4, <2>1, <3>1 DEF ObservedIsAudited, Contents
  <2>2. CASE auditing.by # "observation"
      BY <1>2, <1>4, <2>2 DEF ObservedIsAudited, ShadowInv, Contents
  <2>3. QED  BY <2>1, <2>2
<1>6. QED
    BY <1>1, <1>2, <1>3, <1>4, <1>5, ShadowsKept, ShadowTypes, FaultsSo DEF ShadowInv

LEMMA ObservationBeginsKeeps == ShadowInv /\ ObservationBegins => ShadowInv'
<1> SUFFICES ASSUME ShadowInv, ObservationBegins PROVE ShadowInv'  OBVIOUS
<1>1. PICK run \in ShadowRuns, route \in {"LLM", "NO_AGENT"}, valid \in BOOLEAN,
           policy \in Ladders :
         observation' = [stage |-> IF route = "LLM" THEN "audit" ELSE "record",
                         content |-> [run |-> run, route |-> route, valid |-> valid,
                                      policy |-> policy, audit |-> "none"]]
    BY DEF ObservationBegins
<1>2. /\ observation' \in Observations
      /\ observation'.content.route = "NO_AGENT" =>
            observation'.stage = "record" /\ observation'.content.audit = "none"
      /\ observation'.content.route = "LLM" => observation'.stage = "audit"
      /\ observation'.content.route \in {"LLM", "NO_AGENT"}
    BY <1>1 DEF Observations, ShadowContents
<1>3. /\ UNCHANGED <<auditVars, auditing, shadowFiles, delivered, shadowFaults>>
      /\ observation = NoObservation
    BY DEF ObservationBegins
<1>4. ObservedIsAudited'  BY <1>2 DEF ObservedIsAudited
<1>5. AuditInOrder' /\ AuditIsItsOwn'
    BY <1>3, ShadowNames DEF ShadowInv, AuditInOrder, AuditIsItsOwn, auditVars
<1>6. QED
    BY <1>2, <1>3, <1>4, <1>5, AuditsKept, ShadowsKept, ShadowTypes, FaultsSo, ShadowRecords
       DEF ShadowInv

(* What an observation comes to be recorded as. *)
LEMMA OutcomeIs ==
    ASSUME ShadowInv, observation.stage = "record"
    PROVE  /\ Outcome(observation.content) \in ShadowContents
           /\ Outcome(observation.content).audit = "kept" =>
                 AuditOf(Outcome(observation.content)) \in Contents(auditJsonl)
<1>1. /\ observation \in Observations /\ observation.content \in ShadowContents
      /\ observation # NoObservation
    BY ShadowRecords, ShadowNames DEF Observations
<1>2. PICK c \in ShadowContents : c = observation.content  BY <1>1
<1>3. IF c.route = "NO_AGENT" THEN c.audit = "none"
      ELSE c.audit # "failed" => AuditOf(c) \in Contents(auditJsonl)
    BY <1>1, <1>2 DEF ShadowInv, ObservedIsAudited
<1>4. CASE c.route = "NO_AGENT" \/ c.audit = "failed"
  <2>1. Outcome(c) = c  BY <1>4 DEF Outcome
  <2>2. c.audit # "kept"  BY <1>3, <1>4
  <2>3. QED  BY <1>2, <2>1, <2>2
<1>5. CASE ~(c.route = "NO_AGENT" \/ c.audit = "failed")
  <2>1. PICK a \in {"kept", "failed", "route", "missing", "none"} :
           Outcome(c) = [c EXCEPT !.audit = a]
    <3> DEFINE a == CASE c.policy = "no_agent" -> "route"
              [] c.policy # "no_agent" /\ Readable(auditFiles)
                    /\ AuditOf(c) \in Contents(auditFiles) -> "kept"
              [] OTHER -> "missing"
    <3>1. a \in {"kept", "failed", "route", "missing", "none"}  OBVIOUS
    <3>2. Outcome(c) = [c EXCEPT !.audit = a]  BY <1>5 DEF Outcome
    <3>3. QED  BY <3>1, <3>2
  <2>2. /\ [c EXCEPT !.audit = a] \in ShadowContents
        /\ AuditOf([c EXCEPT !.audit = a]) = AuditOf(c)
      BY AuditOfIs
  <2>3. Outcome(c) \in ShadowContents /\ AuditOf(Outcome(c)) = AuditOf(c)  BY <2>1, <2>2, Zenon
  <2>4. QED  BY <1>2, <1>3, <1>5, <2>3
<1>6. QED  BY <1>4, <1>5

(* A record is written only when no other has its identity. *)
LEMMA ShadowWritten ==
    ASSUME ShadowInv, NEW c \in ShadowContents, c \notin Contents(shadowFiles),
           NEW at \in Instants, shadowFiles' = shadowFiles \cup {[content |-> c, at |-> at]}
    PROVE  /\ shadowFiles' \subseteq Shadows /\ Readable(shadowFiles)'
           /\ Contents(shadowFiles') = Contents(shadowFiles) \cup {c}
<1> DEFINE f == [content |-> c, at |-> at]
<1>1. f \in Shadows /\ f.content = c  BY DEF Shadows
<1>2. shadowFiles' = shadowFiles \cup {f}  OBVIOUS
<1> HIDE DEF f
<1>3. shadowFiles' \subseteq Shadows  BY <1>1, <1>2 DEF ShadowInv, ShadowTypeOK
<1>4. Readable(shadowFiles)'  BY <1>1, <1>2 DEF ShadowInv, Readable, Contents
<1>5. Contents(shadowFiles') = Contents(shadowFiles) \cup {c}
  <2>1. \A d \in Contents(shadowFiles') : d \in Contents(shadowFiles) \cup {c}
      BY <1>1, <1>2 DEF Contents
  <2>2. c \in Contents(shadowFiles')  BY <1>1, <1>2 DEF Contents
  <2>3. Contents(shadowFiles) \subseteq Contents(shadowFiles')  BY <1>2 DEF Contents
  <2>4. QED  BY <2>1, <2>2, <2>3
<1>6. QED  BY <1>3, <1>4, <1>5

LEMMA RecordKeeps == ShadowInv /\ Record => ShadowInv'
<1> SUFFICES ASSUME ShadowInv, Record PROVE ShadowInv'  OBVIOUS
<1>1. PICK c \in ShadowContents : c = Outcome(observation.content)
    BY OutcomeIs DEF Record
<1>2. c.audit = "kept" => AuditOf(c) \in Contents(auditJsonl)  BY <1>1, OutcomeIs DEF Record
<1>3. /\ observation.stage = "record" /\ observation' = NoObservation
      /\ UNCHANGED <<auditVars, auditing, shadowFaults>>
    BY DEF Record
<1>4. /\ IF c \in Contents(shadowFiles)
         THEN UNCHANGED shadowFiles
         ELSE \E at \in Instants : shadowFiles' = shadowFiles \cup {[content |-> c, at |-> at]}
      /\ delivered' = IF ShadowVerdict(c) THEN delivered \cup {c} ELSE delivered
    BY <1>1 DEF Record
<1>5. /\ shadowFiles' \subseteq Shadows /\ Readable(shadowFiles)'
      /\ Contents(shadowFiles) \cup {c} \subseteq Contents(shadowFiles')
  <2>1. CASE c \in Contents(shadowFiles)
      BY <1>4, <2>1 DEF ShadowInv, ShadowTypeOK, Readable
  <2>2. CASE c \notin Contents(shadowFiles)  BY <1>4, <2>2, ShadowWritten
  <2>3. QED  BY <2>1, <2>2
<1>6. delivered' \subseteq ShadowContents  BY <1>4 DEF ShadowInv, ShadowTypeOK
<1>7. DeliveredIsRecorded'
  <2> SUFFICES ASSUME NEW d \in delivered'
               PROVE  /\ d \in Contents(shadowFiles') /\ ShadowVerdict(d)
                      /\ d.audit = "kept" => AuditOf(d) \in Contents(auditJsonl')
      BY DEF DeliveredIsRecorded
  <2>1. auditJsonl' = auditJsonl  BY <1>3 DEF auditVars
  <2>2. CASE d \in delivered  BY <1>5, <2>1, <2>2 DEF ShadowInv, DeliveredIsRecorded
  <2>3. CASE d \notin delivered
    <3>1. d = c /\ ShadowVerdict(c)  BY <1>4, <2>3
    <3>2. QED  BY <1>2, <1>5, <2>1, <3>1
  <2>4. QED  BY <2>2, <2>3
<1>8. AuditIsItsOwn' /\ AuditInOrder'
    BY <1>3 DEF AuditIsItsOwn, AuditInOrder, ShadowInv, auditVars
<1>9. ObservedIsAudited'  BY <1>3 DEF ObservedIsAudited
<1>10. QED
    BY <1>3, <1>5, <1>6, <1>7, <1>8, <1>9, AuditsKept, ShadowTypes, FaultsSo, ShadowRecords
       DEF ShadowInv, ShadowsTyped

LEMMA AuditFailsKeeps == ShadowInv /\ AuditFails => ShadowInv'
<1> SUFFICES ASSUME ShadowInv, AuditFails PROVE ShadowInv'  OBVIOUS
<1>1. /\ auditing' = NoAuditing /\ AuditEnds("failed")
      /\ UNCHANGED <<auditVars, shadowFiles, delivered>>
    BY DEF AuditFails
<1>2. shadowFaults' \in 0 .. MaxShadowFaults  BY FaultsSo DEF AuditFails
<1>3. AuditInOrder' /\ AuditIsItsOwn'
    BY <1>1, ShadowNames DEF AuditInOrder, AuditIsItsOwn
<1>4. /\ observation' \in {NoObservation} \cup Observations
      /\ auditing.by # "observation" => observation' = observation
      /\ auditing.by = "observation" =>
            observation'.content.route = "LLM" /\ observation'.content.audit = "failed"
    BY <1>1, AuditEndsSo
<1>5. ObservedIsAudited'
    BY <1>1, <1>4 DEF ObservedIsAudited, ShadowInv, auditVars
<1>6. QED
    BY <1>1, <1>2, <1>3, <1>4, <1>5, AuditsKept, ShadowsKept, ShadowTypes DEF ShadowInv

LEMMA ObservationFailsKeeps == ShadowInv /\ ObservationFails => ShadowInv'
<1> SUFFICES ASSUME ShadowInv, ObservationFails PROVE ShadowInv'  OBVIOUS
<1>1. PICK c \in ShadowContents : c = Outcome(observation.content)
    BY OutcomeIs DEF ObservationFails
<1>2. /\ observation.stage = "record" /\ observation' = NoObservation
      /\ UNCHANGED <<auditVars, auditing, delivered>>
      /\ shadowFaults' \in 0 .. MaxShadowFaults
    BY FaultsSo DEF ObservationFails
<1>3. /\ shadowFiles' \subseteq Shadows /\ Readable(shadowFiles)'
      /\ Contents(shadowFiles) \subseteq Contents(shadowFiles')
  <2>1. CASE UNCHANGED shadowFiles  BY <2>1 DEF ShadowInv, ShadowTypeOK, Readable
  <2>2. CASE /\ c \notin Contents(shadowFiles)
             /\ \E at \in Instants : shadowFiles' = shadowFiles \cup {[content |-> c, at |-> at]}
      BY <2>2, ShadowWritten
  <2>3. QED  BY <1>1, <2>1, <2>2 DEF ObservationFails
<1>4. DeliveredIsRecorded'
    BY <1>2, <1>3 DEF ShadowInv, DeliveredIsRecorded, auditVars
<1>5. AuditIsItsOwn' /\ AuditInOrder'
    BY <1>2 DEF AuditIsItsOwn, AuditInOrder, ShadowInv, auditVars
<1>6. ObservedIsAudited'  BY <1>2 DEF ObservedIsAudited
<1>7. delivered' \subseteq ShadowContents  BY <1>2 DEF ShadowInv, ShadowTypeOK
<1>8. QED
    BY <1>2, <1>3, <1>4, <1>5, <1>6, <1>7, AuditsKept, ShadowTypes, ShadowRecords
       DEF ShadowInv, ShadowsTyped

LEMMA AuditorDiesKeeps == ShadowInv /\ AuditorDies => ShadowInv'
<1> SUFFICES ASSUME ShadowInv, AuditorDies PROVE ShadowInv'  OBVIOUS
<1>1. /\ auditing' = NoAuditing /\ observation' \in {NoObservation, observation}
      /\ UNCHANGED <<auditVars, shadowFiles, delivered>>
      /\ shadowFaults' \in 0 .. MaxShadowFaults
    BY FaultsSo DEF AuditorDies
<1>2. AuditInOrder' /\ AuditIsItsOwn'
    BY <1>1, ShadowNames DEF AuditInOrder, AuditIsItsOwn
<1>3. ObservedIsAudited'
    BY <1>1 DEF ObservedIsAudited, ShadowInv, auditVars
<1>4. QED
    BY <1>1, <1>2, <1>3, AuditsKept, ShadowsKept, ShadowTypes, ShadowRecords DEF ShadowInv

LEMMA ShadowKept == ShadowInv /\ [ShadowNext]_shadowVars => ShadowInv'
<1> SUFFICES ASSUME ShadowInv, [ShadowNext]_shadowVars PROVE ShadowInv'  OBVIOUS
<1>1. CASE UNCHANGED shadowVars
  <2>1. UNCHANGED <<auditVars, auditing, shadowFiles, observation, delivered, shadowFaults>>
      BY <1>1 DEF shadowVars
  <2>2. AuditInOrder' /\ AuditIsItsOwn' /\ ObservedIsAudited'
      BY <2>1 DEF AuditInOrder, AuditIsItsOwn, ObservedIsAudited, ShadowInv, auditVars
  <2>3. QED
      BY <2>1, <2>2, AuditsKept, ShadowsKept, ShadowTypes, FaultsSo, ShadowRecords DEF ShadowInv
<1>2. CASE ShadowNext
    BY <1>2, ObservationBeginsKeeps, ObservationAuditsKeeps, ObservationCannotAuditKeeps,
       ReviewAuditsKeeps, AuditWriteKeeps, RebuildBeginsKeeps, ProjectIndexKeeps, ProjectJsonlKeeps,
       RecordKeeps, AuditFailsKeeps, ObservationFailsKeeps, AuditorDiesKeeps
       DEF ShadowNext
<1>3. QED  BY <1>1, <1>2

LEMMA ShadowHolds == ShadowInv => ShadowTypeOK /\ AuditsHold
<1> SUFFICES ASSUME ShadowInv PROVE AuditsHold  BY DEF ShadowInv
<1>1. Contents(auditJsonl) \subseteq Contents(auditFiles)  BY DEF ShadowInv, Contents
<1>2. ProjectionFollows  BY DEF ProjectionFollows, ShadowInv, DeliveredIsRecorded
<1>3. ASSUME NEW c \in delivered, c.route = "LLM", c.policy = "model"  PROVE GateOpens(c)
  <2>1. /\ c \in Contents(shadowFiles) /\ ShadowVerdict(c)
        /\ Readable(shadowFiles) /\ Readable(auditFiles)
        /\ c.audit = "kept" => AuditOf(c) \in Contents(auditJsonl)
      BY DEF ShadowInv, DeliveredIsRecorded
  <2>2. c.audit = "kept" /\ c.valid  BY <1>3, <2>1 DEF ShadowVerdict
  <2>3. AuditOf(c).valid = c.valid /\ AuditOf(c).policy = c.policy  BY DEF AuditOf
  <2>4. AuditVerdict(AuditOf(c))  BY <1>3, <2>2, <2>3 DEF AuditVerdict
  <2>5. QED  BY <1>1, <1>3, <2>1, <2>2, <2>4 DEF GateOpens
<1>4. QED  BY <1>2, <1>3 DEF AuditsHold, DeliveredPassCloses

(* The state of the audits and of the shadow store has its type. *)
THEOREM ShadowTyped == ShadowSpec => []ShadowTypeOK
<1>1. ShadowInv => ShadowTypeOK  BY DEF ShadowInv
<1>2. QED  BY ShadowInitially, ShadowKept, <1>1, PTL DEF ShadowSpec

(* For any runs, ladders and instants, and for any failures, deaths, repetitions and
   rebuilds, a verdict PASS that was delivered for a response a model gave opens the
   closure gate from then on, and no index lists what is not a record (audit.ts,
   shadow.ts, closure.ts). *)
THEOREM AuditsAreHeld == ShadowSpec => []AuditsHold
<1>1. ShadowInv => AuditsHold  BY ShadowHolds
<1>2. QED  BY ShadowInitially, ShadowKept, <1>1, PTL DEF ShadowSpec

-----------------------------------------------------------------------------
(* EnforcementRollback. WayBack says what the active baseline has on of the surfaces
   that are off now, and a command may turn off any of them: the invariant says it of
   all surfaces (Generous), and what a command in each stage may count on (InHand). *)
BaselineRecords == [package : Packages, surfaces : [RollbackSurfaces -> BOOLEAN],
                    inventory : [EvidenceFiles -> 0 .. 2]]

(* The types the argument needs. *)
RollbackTyped ==
    /\ installed \in Packages
    /\ evidenceFiles \in [EvidenceFiles -> 0 .. 2]
    /\ baselines \in Seq(BaselineRecords)
    /\ rollback \in [surfaces : [RollbackSurfaces -> BOOLEAN], active : Nat,
                     approved : Packages \cup {"none"}]
    /\ command \in {NoCommand} \cup
          [kind : {"baseline", "disable", "re-enable"}, surface : RollbackSurfaces,
           stage : {"baseline", "active", "restore", "surface"}]

(* The active baseline is there, it is the approved one, and only what the operator
   captured as off is off in it. *)
Generous ==
    rollback.active # NoBaseline =>
        /\ rollback.active \in DOMAIN baselines
        /\ rollback.approved = baselines[rollback.active].package
        /\ \A s \in RollbackSurfaces \ capturedOff : baselines[rollback.active].surfaces[s]

(* Without a baseline nothing is off. *)
AllOn == rollback.active = NoBaseline => \A s \in RollbackSurfaces : rollback.surfaces[s]

(* What the command knows in its stage. *)
InHand ==
    /\ command.stage = "baseline" => command.kind \in {"baseline", "disable"}
    /\ command.stage = "active" =>
          /\ command.kind \in {"baseline", "disable"}
          /\ baselines # <<>>
          /\ baselines[Len(baselines)].surfaces = rollback.surfaces
    /\ command.kind = "disable" /\ command.stage \in {"baseline", "active"} =>
          rollback.active = NoBaseline
    /\ command.stage \in {"restore", "surface"} => rollback.active # NoBaseline

RollbackInv == RollbackTyped /\ Generous /\ AllOn /\ InHand

-----------------------------------------------------------------------------
LEMMA RollbackInitially == RollbackInit => RollbackInv
<1>1. <<>> \in Seq(BaselineRecords)
  OBVIOUS
<1>2. QED
  BY <1>1 DEF RollbackInit, RollbackInv, RollbackTyped, Generous, AllOn, InHand, NoCommand, NoBaseline, Absent

(* A command is begun. *)
LEMMA BeginKeeps == ASSUME RollbackInv, CommandBegins PROVE RollbackInv'
<1>1. PICK kind \in {"baseline", "disable", "re-enable"}, s \in RollbackSurfaces :
         /\ kind = "re-enable" => rollback.active # NoBaseline
         /\ command' = [kind |-> kind, surface |-> s, stage |-> FirstStage(kind)]
  BY DEF CommandBegins
<1>2. /\ kind = "baseline" => FirstStage(kind) = "baseline"
      /\ kind = "disable" => FirstStage(kind) = IF HasBaseline THEN "surface" ELSE "baseline"
      /\ kind = "re-enable" => FirstStage(kind) = "restore"
  BY <1>1 DEF FirstStage
<1>3. RollbackTyped'
  BY <1>1, <1>2 DEF RollbackInv, RollbackTyped, CommandBegins
<1>4. Generous' /\ AllOn'
  BY DEF RollbackInv, Generous, AllOn, CommandBegins
<1>5. InHand'
  BY <1>1, <1>2 DEF RollbackInv, InHand, CommandBegins, HasBaseline
<1>6. QED
  BY <1>3, <1>4, <1>5 DEF RollbackInv

(* A baseline is captured: the older ones stay. *)
LEMMA BaselineKeeps == ASSUME RollbackInv, WriteBaseline PROVE RollbackInv'
<1> DEFINE b == [package |-> installed, surfaces |-> rollback.surfaces, inventory |-> evidenceFiles]
<1>1. b \in BaselineRecords
  BY DEF RollbackInv, RollbackTyped, BaselineRecords
<1>2. /\ baselines' \in Seq(BaselineRecords)
      /\ Len(baselines') = Len(baselines) + 1
      /\ baselines'[Len(baselines')] = b
      /\ \A i \in DOMAIN baselines : i \in DOMAIN baselines' /\ baselines'[i] = baselines[i]
  BY <1>1 DEF WriteBaseline, RollbackInv, RollbackTyped
<1>3. command \in [kind : {"baseline", "disable", "re-enable"}, surface : RollbackSurfaces,
                   stage : {"baseline", "active", "restore", "surface"}]
  BY DEF WriteBaseline, RollbackInv, RollbackTyped, NoCommand
<1>4. /\ command'.stage = "active" /\ command'.kind = command.kind
      /\ command' \in [kind : {"baseline", "disable", "re-enable"}, surface : RollbackSurfaces,
                       stage : {"baseline", "active", "restore", "surface"}]
  BY <1>3 DEF WriteBaseline
<1>5. RollbackTyped'
  BY <1>2, <1>4 DEF RollbackInv, RollbackTyped, WriteBaseline
<1>6. Generous' /\ AllOn'
  BY <1>2 DEF RollbackInv, Generous, AllOn, WriteBaseline
<1>7. InHand'
  <2>1. baselines' # <<>>
    BY <1>2 DEF RollbackInv, RollbackTyped
  <2>2. b.surfaces = rollback'.surfaces
    BY DEF WriteBaseline
  <2>3. QED
    BY <1>2, <1>4, <2>1, <2>2 DEF RollbackInv, InHand, WriteBaseline
<1>8. QED
  BY <1>5, <1>6, <1>7 DEF RollbackInv

(* The baseline becomes the active one. *)
LEMMA ActiveKeeps == ASSUME RollbackInv, WriteActive PROVE RollbackInv'
<1> DEFINE b == Len(baselines)
<1>1. b \in DOMAIN baselines /\ b \in Nat /\ b # NoBaseline
      /\ baselines[b] \in BaselineRecords /\ baselines[b].surfaces = rollback.surfaces
  BY DEF WriteActive, RollbackInv, RollbackTyped, InHand, NoBaseline
<1>2. /\ rollback'.active = b /\ rollback'.approved = baselines[b].package
      /\ rollback'.surfaces = rollback.surfaces
      /\ rollback' \in [surfaces : [RollbackSurfaces -> BOOLEAN], active : Nat,
                        approved : Packages \cup {"none"}]
  BY <1>1 DEF WriteActive, RollbackInv, RollbackTyped, BaselineRecords
<1>3. /\ command \in [kind : {"baseline", "disable", "re-enable"}, surface : RollbackSurfaces,
                      stage : {"baseline", "active", "restore", "surface"}]
      /\ command.kind \in {"baseline", "disable"}
  BY DEF WriteActive, RollbackInv, RollbackTyped, InHand, NoCommand
<1>4. RollbackTyped'
  BY <1>2, <1>3 DEF RollbackInv, RollbackTyped, WriteActive
<1>5. \A s \in RollbackSurfaces \ capturedOff' : baselines[b].surfaces[s]
  <2>1. CASE command.kind = "baseline"
    BY <2>1 DEF WriteActive
  <2>2. CASE command.kind = "disable"
    BY <1>1, <2>2 DEF WriteActive, RollbackInv, InHand, AllOn
  <2>3. QED
    BY <1>3, <2>1, <2>2
<1>6. Generous' /\ AllOn'
  BY <1>1, <1>2, <1>5 DEF WriteActive, Generous, AllOn
<1>7. InHand'
  BY <1>1, <1>2, <1>3 DEF WriteActive, InHand, NoCommand
<1>8. QED
  BY <1>4, <1>6, <1>7 DEF RollbackInv

(* The package is put back. *)
LEMMA RestorePackageKeeps == ASSUME RollbackInv, RestorePackage PROVE RollbackInv'
<1>1. /\ command \in [kind : {"baseline", "disable", "re-enable"}, surface : RollbackSurfaces,
                      stage : {"baseline", "active", "restore", "surface"}]
      /\ rollback.active # NoBaseline
      /\ baselines[rollback.active] \in BaselineRecords
  BY DEF RestorePackage, RollbackInv, RollbackTyped, Generous, InHand, NoCommand
<1>2. RollbackTyped'
  BY <1>1 DEF RollbackInv, RollbackTyped, RestorePackage, BaselineRecords
<1>3. QED
  BY <1>1, <1>2 DEF RollbackInv, Generous, AllOn, InHand, RestorePackage

(* A surface is switched. *)
LEMMA SurfaceKeeps == ASSUME RollbackInv, WriteSurface PROVE RollbackInv'
<1>1. /\ command \in [kind : {"baseline", "disable", "re-enable"}, surface : RollbackSurfaces,
                      stage : {"baseline", "active", "restore", "surface"}]
      /\ rollback.active # NoBaseline
      /\ rollback.active \in DOMAIN baselines
      /\ baselines[rollback.active] \in BaselineRecords
  BY DEF WriteSurface, RollbackInv, RollbackTyped, Generous, InHand, NoCommand
<1>2. baselines[rollback.active].surfaces \in [RollbackSurfaces -> BOOLEAN]
      /\ baselines[rollback.active].package \in Packages
  BY <1>1 DEF BaselineRecords
<1>3. /\ rollback'.active = rollback.active
      /\ rollback'.approved = baselines[rollback.active].package
      /\ rollback'.surfaces = [rollback.surfaces EXCEPT ![command.surface] =
             command.kind = "re-enable" /\ baselines[rollback.active].surfaces[command.surface]]
      /\ rollback' = [surfaces |-> rollback'.surfaces, active |-> rollback'.active,
                      approved |-> rollback'.approved]
  BY DEF WriteSurface, RollbackInv, RollbackTyped
<1>4. rollback'.surfaces \in [RollbackSurfaces -> BOOLEAN]
  BY <1>1, <1>2, <1>3 DEF RollbackInv, RollbackTyped
<1>5. RollbackTyped'
  BY <1>2, <1>3, <1>4 DEF RollbackInv, RollbackTyped, WriteSurface
<1>6. Generous' /\ AllOn'
  BY <1>1, <1>3 DEF RollbackInv, Generous, AllOn, WriteSurface
<1>7. InHand'
  BY DEF InHand, WriteSurface, NoCommand
<1>8. QED
  BY <1>5, <1>6, <1>7 DEF RollbackInv

(* A command dies, and what other programs do. *)
LEMMA OthersKeep ==
    ASSUME RollbackInv, CommandDies \/ EvidenceChanges \/ PackageInstalled
    PROVE  RollbackInv'
<1>1. CASE CommandDies
  BY <1>1 DEF CommandDies, RollbackInv, RollbackTyped, Generous, AllOn, InHand, NoCommand
<1>2. CASE EvidenceChanges
  <2>1. evidenceFiles' \in [EvidenceFiles -> 0 .. 2]
    BY <1>2 DEF EvidenceChanges, RollbackInv, RollbackTyped
  <2>2. QED
    BY <1>2, <2>1 DEF EvidenceChanges, RollbackInv, RollbackTyped, Generous, AllOn, InHand
<1>3. CASE PackageInstalled
  BY <1>3 DEF PackageInstalled, RollbackInv, RollbackTyped, Generous, AllOn, InHand
<1>4. QED
  BY <1>1, <1>2, <1>3

LEMMA RollbackKept == RollbackInv /\ [RollbackNext]_rollbackVars => RollbackInv'
<1> SUFFICES ASSUME RollbackInv, [RollbackNext]_rollbackVars PROVE RollbackInv'
  OBVIOUS
<1>1. CASE UNCHANGED rollbackVars
  BY <1>1 DEF rollbackVars, RollbackInv, RollbackTyped, Generous, AllOn, InHand
<1>2. CASE RollbackNext
  BY <1>2, BeginKeeps, BaselineKeeps, ActiveKeeps, RestorePackageKeeps, SurfaceKeeps, OthersKeep
     DEF RollbackNext
<1>3. QED
  BY <1>1, <1>2

(* The bounds of the model, and the types that no other part of the argument needs. *)
RollbackBounded ==
    /\ Len(baselines) <= MaxBaselines
    /\ capturedOff \subseteq RollbackSurfaces
    /\ reported \in BOOLEAN
    /\ rollbackDeaths \in 0 .. MaxRollbackDeaths

LEMMA RollbackBoundedInitially == RollbackInit => RollbackBounded
<1>1. Len(<<>>) = 0
  OBVIOUS
<1>2. QED
  BY <1>1, RollbackAssumption DEF RollbackInit, RollbackBounded

LEMMA RollbackBoundedKept == ASSUME RollbackInv, RollbackBounded, [RollbackNext]_rollbackVars PROVE RollbackBounded'
<1>1. (rollbackDeaths \in 0 .. MaxRollbackDeaths)'
  BY RollbackAssumption
     DEF RollbackBounded, RollbackNext, rollbackVars, CommandBegins, WriteBaseline, WriteActive,
         RestorePackage, WriteSurface, CommandDies, EvidenceChanges, PackageInstalled
<1>2. (capturedOff \subseteq RollbackSurfaces)'
  BY DEF RollbackBounded, RollbackNext, rollbackVars, CommandBegins, WriteBaseline, WriteActive,
         RestorePackage, WriteSurface, CommandDies, EvidenceChanges, PackageInstalled
<1>3. (reported \in BOOLEAN)'
  <2>1. CASE WriteSurface
    <3>1. Retained(rollback.active) \in BOOLEAN
      BY Zenon DEF Retained
    <3>2. QED
      BY <2>1, <3>1 DEF WriteSurface
  <2>2. CASE ~WriteSurface
    BY <2>2 DEF RollbackBounded, RollbackNext, rollbackVars, CommandBegins, WriteBaseline, WriteActive,
                RestorePackage, CommandDies, EvidenceChanges, PackageInstalled
  <2>3. QED
    BY <2>1, <2>2
<1>4. (Len(baselines) <= MaxBaselines)'
  <2>1. CASE WriteBaseline
    <3>1. Len(baselines) \in Nat /\ DOMAIN baselines = 1 .. Len(baselines)
      BY DEF RollbackInv, RollbackTyped
    <3>2. Cardinality(1 .. Len(baselines)) =
             IF 1 > Len(baselines) THEN 0 ELSE Len(baselines) - 1 + 1
      BY <3>1, FS_Interval
    <3>3. Len(baselines') = Len(baselines) + 1
      BY <2>1 DEF WriteBaseline, RollbackInv, RollbackTyped
    <3>4. QED
      BY <2>1, <3>1, <3>2, <3>3, RollbackAssumption DEF WriteBaseline
  <2>2. CASE ~WriteBaseline
    BY <2>2 DEF RollbackBounded, RollbackNext, rollbackVars, CommandBegins, WriteActive, WriteSurface,
                RestorePackage, CommandDies, EvidenceChanges, PackageInstalled
  <2>3. QED
    BY <2>1, <2>2
<1>5. QED
  BY <1>1, <1>2, <1>3, <1>4 DEF RollbackBounded

(* The switches, the baselines and the command at work have their types, for any
   number of baselines and deaths (enforcement-rollback.ts). *)
THEOREM RollbackTypesHold == RollbackSpec => []RollbackTypeOK
<1>1. ASSUME RollbackInv, RollbackBounded PROVE RollbackTypeOK
  <2>1. /\ DOMAIN baselines = 1 .. Len(baselines) /\ Len(baselines) \in Nat
        /\ \A b \in DOMAIN baselines : baselines[b] \in BaselineRecords
    BY <1>1 DEF RollbackInv, RollbackTyped
  <2>2. DOMAIN baselines \subseteq 1 .. MaxBaselines
    BY <1>1, <2>1, RollbackAssumption DEF RollbackBounded
  <2>3. rollback.active \in 0 .. MaxBaselines
    BY <1>1, <2>1, <2>2, RollbackAssumption DEF RollbackInv, RollbackTyped, Generous, NoBaseline
  <2>4. rollback \in [surfaces : [RollbackSurfaces -> BOOLEAN], active : 0 .. MaxBaselines,
                      approved : Packages \cup {"none"}]
    BY <1>1, <2>3 DEF RollbackInv, RollbackTyped
  <2>5. QED
    BY <1>1, <2>1, <2>2, <2>4 DEF RollbackInv, RollbackTyped, RollbackBounded, RollbackTypeOK, BaselineRecords
<1>2. RollbackSpec => [](RollbackInv /\ RollbackBounded)
  BY RollbackInitially, RollbackKept, RollbackBoundedInitially, RollbackBoundedKept, PTL DEF RollbackSpec
<1>3. QED
  BY <1>1, <1>2, PTL

(* There is always a way back from what was turned off, whatever commands die and
   however often baselines are captured (enforcement-rollback.ts). *)
THEOREM RollbackWayBack == RollbackSpec => []WayBack
<1>1. RollbackInv => WayBack
  BY DEF RollbackInv, RollbackTyped, Generous, AllOn, WayBack, NoBaseline
<1>2. QED
  BY <1>1, RollbackInitially, RollbackKept, PTL DEF RollbackSpec

-----------------------------------------------------------------------------
(* Migration. For one call at a time: what is on disk between calls (AtRest) and in
   each stage of the call and of its undoing. *)
(* One call at a time. *)
OneMigration ==
    \A m, n \in Migrators : At(m, "idle") \/ At(n, "idle") \/ m = n

(* The archive of a state: its bytes, and a manifest that says so. *)
ArchiveOf(e) == [there |-> TRUE, files |-> [state |-> e, manifest |-> e]]

(* An archive that is not there holds nothing. *)
ArchiveIsWhole == archive.there \/ archive = NoDir

(* What is on disk between calls: the V2 state in use, the state converted from it beside
   its archive, a state cut off while its bytes are archived, or the former brand's. *)
AtRest ==
    \/ stateFile = V2(current)
    \/ stateFile = V3(current) /\ archive = ArchiveOf(current)
    \/ stateFile = Torn /\ archive = ArchiveOf(current)
    \/ stateFile = NoState /\ legacyDir = current

(* A call under way converts the state in use. *)
ConvertsCurrent(m) ==
    /\ migrations[m].original = current
    /\ migrations[m].foundState = V2(current)

(* The archive is the one that was found, or this call's where there was none. *)
ArchiveAsFound(m) ==
    IF migrations[m].archived
    THEN archive = ArchiveOf(current) /\ migrations[m].foundArchive = NoDir
    ELSE archive = migrations[m].foundArchive

(* What a call has done so far. *)
Before(m) ==
    migrations[m].pc \in {"clean", "stage", "staged", "compare", "archive"} =>
        /\ stateFile = V2(current) /\ ArchiveAsFound(m)
        /\ ~migrations[m].archived /\ ~migrations[m].committed

Archived(m) ==
    At(m, "commit") =>
        /\ stateFile = V2(current) /\ ArchiveAsFound(m) /\ archive = ArchiveOf(current)
        /\ ~migrations[m].committed

Committed(m) ==
    At(m, "tidy") =>
        /\ stateFile = V3(current) /\ ArchiveAsFound(m) /\ archive = ArchiveOf(current)
        /\ migrations[m].committed

Undoing(m) ==
    At(m, "undo") =>
        /\ ArchiveAsFound(m)
        /\ IF migrations[m].committed
           THEN stateFile = V3(current) /\ archive = ArchiveOf(current)
           ELSE stateFile = V2(current)

Rewriting(m) ==
    At(m, "rewrite") =>
        stateFile = Torn /\ ArchiveAsFound(m) /\ archive = ArchiveOf(current)

UndoingArchive(m) ==
    At(m, "undoArchive") =>
        /\ stateFile = V2(current)
        /\ IF migrations[m].archived
           THEN migrations[m].foundArchive = NoDir
           ELSE archive = migrations[m].foundArchive

Undone(m) ==
    At(m, "undoTemp") => stateFile = V2(current) /\ archive = migrations[m].foundArchive

(* What the temporary directory holds for it. *)
Staged(m) ==
    /\ migrations[m].pc \in {"staged", "compare", "archive"} =>
          tempDir.files = [state |-> current, manifest |-> current]
    /\ migrations[m].pc \in {"compare", "archive", "commit"} => tempDir.converted = current

CallInv(m) ==
    ~At(m, "idle") =>
        /\ ConvertsCurrent(m) /\ Staged(m)
        /\ Before(m) /\ Archived(m) /\ Committed(m) /\ Undoing(m) /\ Rewriting(m)
        /\ UndoingArchive(m) /\ Undone(m)

MigrationInv ==
    /\ MigrationTypeOK /\ OneMigration /\ ArchiveIsWhole
    /\ (\A m \in Migrators : At(m, "idle")) => AtRest
    /\ \A m \in Migrators : CallInv(m)

-----------------------------------------------------------------------------
Pcs == {"idle", "clean", "stage", "staged", "compare", "archive", "commit", "tidy", "undo",
        "rewrite", "undoArchive", "undoTemp"}

MigrationCalls ==
    [pc : Pcs, original : 0 .. MaxEditions, archived : BOOLEAN, committed : BOOLEAN,
     foundState : StateFiles, foundArchive : Dirs]

(* What a step of a call's program counter leaves alone. *)
LEMMA MigrationStepsTo ==
    ASSUME MigrationTypeOK, NEW m \in Migrators, NEW pc \in Pcs, StepsTo(m, pc)
    PROVE  /\ migrations'[m] = [migrations[m] EXCEPT !.pc = pc]
           /\ \A n \in Migrators : n # m => migrations'[n] = migrations[n]
           /\ migrations' \in [Migrators -> MigrationCalls]
BY DEF MigrationTypeOK, StepsTo, MigrationCalls, Pcs

LEMMA MigrationEndsIdle ==
    ASSUME MigrationTypeOK, NEW m \in Migrators, MigrationEnds(m)
    PROVE  /\ migrations'[m] = NoMigration
           /\ \A n \in Migrators : n # m => migrations'[n] = migrations[n]
           /\ migrations' \in [Migrators -> MigrationCalls]
<1>1. NoMigration \in MigrationCalls
    BY MigrationAssumption
       DEF MigrationCalls, NoMigration, Pcs, StateFiles, Dirs, Files, NoState, NoDir, NoFiles, Gone
<1>2. QED  BY <1>1 DEF MigrationTypeOK, MigrationEnds, MigrationCalls, Pcs

(* A step of the call under way: only its own part of the invariant is in question. *)
LEMMA MigrationCallStep ==
    ASSUME MigrationInv, NEW m \in Migrators, ~At(m, "idle"),
           \A n \in Migrators : n # m => migrations'[n] = migrations[n],
           MigrationTypeOK', ArchiveIsWhole', At(m, "idle")' => AtRest', CallInv(m)'
    PROVE  MigrationInv'
<1>1. \A n \in Migrators : n # m => At(n, "idle")'
    BY DEF MigrationInv, OneMigration, At
<1>2. OneMigration'  BY <1>1 DEF OneMigration, At
<1>3. (\A n \in Migrators : At(n, "idle"))' => AtRest'  OBVIOUS
<1>4. ASSUME NEW n \in Migrators PROVE CallInv(n)'
    BY <1>1 DEF CallInv
<1>5. QED  BY <1>2, <1>3, <1>4 DEF MigrationInv

-----------------------------------------------------------------------------
LEMMA MigrationInitially == MigrationInit => MigrationInv
<1> SUFFICES ASSUME MigrationInit PROVE MigrationInv  OBVIOUS
<1>1. MigrationTypeOK
    BY MigrationAssumption
       DEF MigrationInit, MigrationTypeOK, NoMigration, NoTemp, NoDir, NoFiles, NoState, V2,
           StateFiles, Dirs, Files, Gone
<1>2. \A m \in Migrators : At(m, "idle")
    BY DEF MigrationInit, At, NoMigration
<1>3. AtRest  BY DEF MigrationInit, AtRest
<1>4. QED
    BY <1>1, <1>2, <1>3
       DEF MigrationInv, MigrationInit, OneMigration, ArchiveIsWhole, CallInv

(* The parts of the invariant and the constants of the states. *)
LEMMA MigrationReads ==
    ASSUME MigrationInv, ~MigrationsOverlap, NEW m \in Migrators, Migrate(m)
    PROVE  MigrationInv'
<1>1. \A n \in Migrators : At(n, "idle")  BY DEF Migrate, Alone, At
<1>2. stateFile = V2(current)
    BY <1>1 DEF MigrationInv, AtRest, Migrate, V3, Torn, NoState
<1>3. /\ migrations'[m].pc = "clean" /\ migrations'[m].original = current
      /\ migrations'[m].foundState = V2(current)
      /\ migrations'[m].foundArchive = archive
      /\ migrations'[m].archived = FALSE /\ migrations'[m].committed = FALSE
    BY <1>2 DEF Migrate, MigrationInv, MigrationTypeOK, NoMigration, V2
<1>4. \A n \in Migrators : n # m => migrations'[n] = migrations[n]
    BY DEF Migrate, MigrationInv, MigrationTypeOK
<1>5. MigrationTypeOK'
    BY DEF Migrate, MigrationInv, MigrationTypeOK, NoMigration, StateFiles
<1>6. OneMigration' /\ \A n \in Migrators : n # m => At(n, "idle")'
    BY <1>1, <1>4 DEF OneMigration, At
<1>7. CallInv(m)'
    BY <1>2, <1>3
       DEF CallInv, ConvertsCurrent, Staged, Before, Archived, Committed, Undoing, Rewriting,
           UndoingArchive, Undone, ArchiveAsFound, At, Migrate
<1>8. QED
    BY <1>3, <1>5, <1>6, <1>7 DEF MigrationInv, ArchiveIsWhole, CallInv, Migrate, At

(* The temporary directory is removed. *)
LEMMA MigrationCleans ==
    ASSUME MigrationInv, NEW m \in Migrators, CleanTemp(m)
    PROVE  MigrationInv'
<1>1. /\ migrations'[m] = [migrations[m] EXCEPT !.pc = "stage"]
      /\ \A n \in Migrators : n # m => migrations'[n] = migrations[n]
      /\ migrations' \in [Migrators -> MigrationCalls]
    BY MigrationStepsTo DEF CleanTemp, MigrationInv, Pcs
<1>2. MigrationTypeOK'
    BY <1>1, MigrationAssumption
       DEF CleanTemp, MigrationInv, MigrationTypeOK, MigrationCalls, Pcs, NoTemp, NoFiles, Files,
           Gone
<1>3. ArchiveIsWhole'
    BY DEF CleanTemp, MigrationInv, ArchiveIsWhole
<1>4. ~At(m, "idle") /\ ~At(m, "idle")'  BY <1>1 DEF CleanTemp, At
<1>5. CallInv(m)'
    BY <1>1
       DEF CleanTemp, MigrationInv, MigrationTypeOK, 
           CallInv, ConvertsCurrent, Staged, Before, Archived, Committed,
           Undoing, Rewriting, UndoingArchive, Undone, ArchiveAsFound, At
<1>6. QED  BY <1>1, <1>2, <1>3, <1>4, <1>5, MigrationCallStep

(* The bytes and the manifest are staged. *)
LEMMA MigrationStages ==
    ASSUME MigrationInv, NEW m \in Migrators, StageArchive(m)
    PROVE  MigrationInv'
<1>1. /\ migrations'[m] = [migrations[m] EXCEPT !.pc = "staged"]
      /\ \A n \in Migrators : n # m => migrations'[n] = migrations[n]
      /\ migrations' \in [Migrators -> MigrationCalls]
    BY MigrationStepsTo DEF StageArchive, MigrationInv, Pcs
<1>2. MigrationTypeOK'
    BY <1>1, MigrationAssumption
       DEF StageArchive, MigrationInv, MigrationTypeOK, MigrationCalls, Pcs, Files
<1>3. ArchiveIsWhole'
    BY DEF StageArchive, MigrationInv, ArchiveIsWhole
<1>4. ~At(m, "idle") /\ ~At(m, "idle")'  BY <1>1 DEF StageArchive, At
<1>5. CallInv(m)'
    BY <1>1
       DEF StageArchive, MigrationInv, MigrationTypeOK, 
           CallInv, ConvertsCurrent, Staged, Before, Archived, Committed,
           Undoing, Rewriting, UndoingArchive, Undone, ArchiveAsFound, At
<1>6. QED  BY <1>1, <1>2, <1>3, <1>4, <1>5, MigrationCallStep

(* The converted state is staged. *)
LEMMA MigrationStagesState ==
    ASSUME MigrationInv, NEW m \in Migrators, StageState(m)
    PROVE  MigrationInv'
<1>1. /\ migrations'[m] =
            [migrations[m] EXCEPT !.pc = IF archive.there THEN "compare" ELSE "archive"]
      /\ \A n \in Migrators : n # m => migrations'[n] = migrations[n]
      /\ migrations' \in [Migrators -> MigrationCalls]
    BY MigrationStepsTo DEF StageState, MigrationInv, Pcs
<1>2. MigrationTypeOK'
    BY <1>1, MigrationAssumption
       DEF StageState, MigrationInv, MigrationTypeOK, MigrationCalls, Pcs, Files
<1>3. ArchiveIsWhole'
    BY DEF StageState, MigrationInv, ArchiveIsWhole
<1>4. ~At(m, "idle") /\ ~At(m, "idle")'  BY <1>1 DEF StageState, At
<1>5. CallInv(m)'
    BY <1>1
       DEF StageState, MigrationInv, MigrationTypeOK, 
           CallInv, ConvertsCurrent, Staged, Before, Archived, Committed,
           Undoing, Rewriting, UndoingArchive, Undone, ArchiveAsFound, At
<1>6. QED  BY <1>1, <1>2, <1>3, <1>4, <1>5, MigrationCallStep

(* The archive that is there is compared with the bytes in hand. *)
LEMMA MigrationCompares ==
    ASSUME MigrationInv, NEW m \in Migrators, CompareArchive(m)
    PROVE  MigrationInv'
<1>1. /\ migrations'[m] = [migrations[m] EXCEPT
                              !.pc = IF ArchiveMatches(m) THEN "commit" ELSE "undo"]
      /\ \A n \in Migrators : n # m => migrations'[n] = migrations[n]
      /\ migrations' \in [Migrators -> MigrationCalls]
    BY MigrationStepsTo DEF CompareArchive, MigrationInv, Pcs
<1>2. MigrationTypeOK'
    BY <1>1, MigrationAssumption
       DEF CompareArchive, MigrationInv, MigrationTypeOK, MigrationCalls, Pcs, Files
<1>3. ArchiveIsWhole'
    BY DEF CompareArchive, MigrationInv, ArchiveIsWhole
<1>4. ~At(m, "idle") /\ ~At(m, "idle")'  BY <1>1 DEF CompareArchive, At
<1>5. CallInv(m)'
  <2>1. ArchiveMatches(m) => archive = ArchiveOf(current)
    BY DEF ArchiveMatches, ArchiveOf, MigrationInv, MigrationTypeOK, ArchiveIsWhole, NoDir,
           NoFiles, Gone, CompareArchive, CallInv, At, ConvertsCurrent, Dirs, Files
  <2>2. QED
    BY <1>1, <2>1
       DEF CompareArchive, MigrationInv, MigrationTypeOK, 
           CallInv, ConvertsCurrent, Staged, Before, Archived, Committed,
           Undoing, Rewriting, UndoingArchive, Undone, ArchiveAsFound, At
<1>6. QED  BY <1>1, <1>2, <1>3, <1>4, <1>5, MigrationCallStep

(* The staged archive gets its name. *)
LEMMA MigrationCommitsArchive ==
    ASSUME MigrationInv, NEW m \in Migrators, CommitArchive(m)
    PROVE  MigrationInv'
<1>1. /\ migrations'[m] = [migrations[m] EXCEPT !.pc = "commit", !.archived = TRUE]
      /\ \A n \in Migrators : n # m => migrations'[n] = migrations[n]
      /\ migrations' \in [Migrators -> MigrationCalls]
    BY DEF CommitArchive, MigrationInv, MigrationTypeOK, MigrationCalls, Pcs
<1>2. MigrationTypeOK'
  <2>1. archive' \in Dirs
    BY DEF CommitArchive, MigrationInv, MigrationTypeOK, Dirs
  <2>2. NoFiles \in Files  BY MigrationAssumption DEF NoFiles, Files, Gone
  <2>3. tempDir' \in [there : BOOLEAN, files : Files, converted : 0 .. MaxEditions]
    BY <2>2 DEF CommitArchive, MigrationInv, MigrationTypeOK
  <2>4. QED
    BY <1>1, <2>1, <2>3 DEF CommitArchive, MigrationInv, MigrationTypeOK, MigrationCalls, Pcs
<1>3. ArchiveIsWhole'
    BY DEF CommitArchive, MigrationInv, ArchiveIsWhole, NoDir
<1>4. ~At(m, "idle") /\ ~At(m, "idle")'  BY <1>1 DEF CommitArchive, At
<1>5. CallInv(m)'
    BY <1>1
       DEF CommitArchive, MigrationInv, MigrationTypeOK, ArchiveOf, ArchiveIsWhole,
           CallInv, ConvertsCurrent, Staged, Before, Archived, Committed,
           Undoing, Rewriting, UndoingArchive, Undone, ArchiveAsFound, At
<1>6. QED  BY <1>1, <1>2, <1>3, <1>4, <1>5, MigrationCallStep

(* The converted state gets the name of the state. *)
LEMMA MigrationCommitsState ==
    ASSUME MigrationInv, NEW m \in Migrators, CommitState(m)
    PROVE  MigrationInv'
<1>1. /\ migrations'[m] = [migrations[m] EXCEPT !.pc = "tidy", !.committed = TRUE]
      /\ \A n \in Migrators : n # m => migrations'[n] = migrations[n]
      /\ migrations' \in [Migrators -> MigrationCalls]
    BY DEF CommitState, MigrationInv, MigrationTypeOK, MigrationCalls, Pcs
<1>2. MigrationTypeOK'
  <2>1. stateFile' \in StateFiles
    BY DEF CommitState, MigrationInv, MigrationTypeOK, StateFiles, V3
  <2>2. tempDir' \in [there : BOOLEAN, files : Files, converted : 0 .. MaxEditions]
    BY MigrationAssumption DEF CommitState, MigrationInv, MigrationTypeOK, Gone
  <2>3. QED
    BY <1>1, <2>1, <2>2 DEF CommitState, MigrationInv, MigrationTypeOK, MigrationCalls, Pcs
<1>3. ArchiveIsWhole'
    BY DEF CommitState, MigrationInv, ArchiveIsWhole
<1>4. ~At(m, "idle") /\ ~At(m, "idle")'  BY <1>1 DEF CommitState, At
<1>5. CallInv(m)'
    BY <1>1
       DEF CommitState, MigrationInv, MigrationTypeOK, 
           CallInv, ConvertsCurrent, Staged, Before, Archived, Committed,
           Undoing, Rewriting, UndoingArchive, Undone, ArchiveAsFound, At
<1>6. QED  BY <1>1, <1>2, <1>3, <1>4, <1>5, MigrationCallStep

(* An operation of the conversion fails. *)
LEMMA MigrationStepFails ==
    ASSUME MigrationInv, NEW m \in Migrators, StepFails(m)
    PROVE  MigrationInv'
<1>1. /\ migrations'[m] = [migrations[m] EXCEPT !.pc = "undo"]
      /\ \A n \in Migrators : n # m => migrations'[n] = migrations[n]
      /\ migrations' \in [Migrators -> MigrationCalls]
    BY MigrationStepsTo DEF StepFails, MigrationInv, Pcs
<1>2. MigrationTypeOK'
    BY <1>1, MigrationAssumption
       DEF StepFails, MigrationInv, MigrationTypeOK, MigrationCalls, Pcs, PulledAway
<1>3. ArchiveIsWhole'
    BY DEF StepFails, MigrationInv, ArchiveIsWhole
<1>4. ~At(m, "idle") /\ ~At(m, "idle")'  BY <1>1 DEF StepFails, InTry, At
<1>5. CallInv(m)'
    BY <1>1
       DEF StepFails, MigrationInv, MigrationTypeOK, InTry,
           CallInv, ConvertsCurrent, Staged, Before, Archived, Committed,
           Undoing, Rewriting, UndoingArchive, Undone, ArchiveAsFound, At
<1>6. QED  BY <1>1, <1>2, <1>3, <1>4, <1>5, MigrationCallStep

(* The state is cut off to be written back, if it was committed. *)
LEMMA MigrationUndoesState ==
    ASSUME MigrationInv, NEW m \in Migrators, UndoState(m)
    PROVE  MigrationInv'
<1>1. /\ migrations'[m] =
            [migrations[m] EXCEPT !.pc = IF migrations[m].committed THEN "rewrite"
                                                                    ELSE "undoArchive"]
      /\ \A n \in Migrators : n # m => migrations'[n] = migrations[n]
      /\ migrations' \in [Migrators -> MigrationCalls]
    BY MigrationStepsTo DEF UndoState, MigrationInv, Pcs
<1>2. MigrationTypeOK'
    BY <1>1, MigrationAssumption
       DEF UndoState, MigrationInv, MigrationTypeOK, MigrationCalls, Pcs, StateFiles, Torn, Gone
<1>3. ArchiveIsWhole'
    BY DEF UndoState, MigrationInv, ArchiveIsWhole
<1>4. ~At(m, "idle") /\ ~At(m, "idle")'  BY <1>1 DEF UndoState, At
<1>5. CallInv(m)'
    BY <1>1
       DEF UndoState, MigrationInv, MigrationTypeOK, 
           CallInv, ConvertsCurrent, Staged, Before, Archived, Committed,
           Undoing, Rewriting, UndoingArchive, Undone, ArchiveAsFound, At
<1>6. QED  BY <1>1, <1>2, <1>3, <1>4, <1>5, MigrationCallStep

(* The bytes are the state again. *)
LEMMA MigrationRewritesState ==
    ASSUME MigrationInv, NEW m \in Migrators, RewriteState(m)
    PROVE  MigrationInv'
<1>1. /\ migrations'[m] = [migrations[m] EXCEPT !.pc = "undoArchive"]
      /\ \A n \in Migrators : n # m => migrations'[n] = migrations[n]
      /\ migrations' \in [Migrators -> MigrationCalls]
    BY MigrationStepsTo DEF RewriteState, MigrationInv, Pcs
<1>2. MigrationTypeOK'
    BY <1>1, MigrationAssumption
       DEF RewriteState, MigrationInv, MigrationTypeOK, MigrationCalls, Pcs, StateFiles, V2
<1>3. ArchiveIsWhole'
    BY DEF RewriteState, MigrationInv, ArchiveIsWhole
<1>4. ~At(m, "idle") /\ ~At(m, "idle")'  BY <1>1 DEF RewriteState, At
<1>5. CallInv(m)'
    BY <1>1
       DEF RewriteState, MigrationInv, MigrationTypeOK, 
           CallInv, ConvertsCurrent, Staged, Before, Archived, Committed,
           Undoing, Rewriting, UndoingArchive, Undone, ArchiveAsFound, At
<1>6. QED  BY <1>1, <1>2, <1>3, <1>4, <1>5, MigrationCallStep

(* An archive this call put in place is removed, one file and then the directory. *)
LEMMA MigrationUndoesArchive ==
    ASSUME MigrationInv, NEW m \in Migrators, UndoArchive(m)
    PROVE  MigrationInv'
<1>1. CASE migrations[m].archived /\ archive.there
  <2>1. migrations' = migrations  BY <1>1 DEF UndoArchive
  <2>2. archive' \in Dirs /\ ArchiveIsWhole'
    <3>1. CASE archive.files = NoFiles
      <4>1. archive' = NoDir  BY <1>1, <3>1 DEF UndoArchive
      <4>2. NoDir \in Dirs
        BY MigrationAssumption DEF NoDir, NoFiles, Dirs, Files, Gone
      <4>3. QED  BY <4>1, <4>2 DEF ArchiveIsWhole
    <3>2. CASE archive.files # NoFiles
      <4>1. PICK f \in {"state", "manifest"} : archive' = [archive EXCEPT !.files[f] = Gone]
        BY <1>1, <3>2 DEF UndoArchive
      <4>2. archive'.there = archive.there /\ archive' \in Dirs
        BY <4>1, MigrationAssumption DEF MigrationInv, MigrationTypeOK, Dirs, Files, Gone
      <4>3. QED  BY <1>1, <4>2 DEF ArchiveIsWhole
    <3>3. QED  BY <3>1, <3>2
  <2>3. MigrationTypeOK'
    BY <2>1, <2>2 DEF UndoArchive, MigrationInv, MigrationTypeOK
  <2>4. ~At(m, "idle") /\ ~At(m, "idle")'  BY <2>1 DEF UndoArchive, At
  <2>5. CallInv(m)'
    BY <1>1, <2>1
       DEF UndoArchive, MigrationInv, MigrationTypeOK, CallInv, ConvertsCurrent, Staged, Before,
           Archived, Committed, Undoing, Rewriting, UndoingArchive, Undone, ArchiveAsFound, At
  <2>6. QED  BY <2>1, <2>2, <2>3, <2>4, <2>5, MigrationCallStep
<1>2. CASE ~(migrations[m].archived /\ archive.there)
  <2>1. /\ migrations'[m] = [migrations[m] EXCEPT !.pc = "undoTemp"]
        /\ \A n \in Migrators : n # m => migrations'[n] = migrations[n]
        /\ migrations' \in [Migrators -> MigrationCalls]
    BY <1>2, MigrationStepsTo DEF UndoArchive, MigrationInv, Pcs
  <2>2. MigrationTypeOK' /\ ArchiveIsWhole'
    BY <1>2, <2>1
       DEF UndoArchive, MigrationInv, MigrationTypeOK, MigrationCalls, Pcs, ArchiveIsWhole
  <2>3. ~At(m, "idle") /\ ~At(m, "idle")'  BY <2>1 DEF UndoArchive, At
  <2>4. CallInv(m)'
    BY <1>2, <2>1
       DEF UndoArchive, MigrationInv, MigrationTypeOK, CallInv, ConvertsCurrent, Staged, Before,
           Archived, Committed, Undoing, Rewriting, UndoingArchive, Undone, ArchiveAsFound, At,
           ArchiveIsWhole
  <2>5. QED  BY <2>1, <2>2, <2>3, <2>4, MigrationCallStep
<1>3. QED  BY <1>1, <1>2

(* A call that is over, or dead, leaves the disk as it may be at rest. *)
LEMMA MigrationEndsAtRest ==
    ASSUME MigrationInv, NEW m \in Migrators, ~At(m, "idle"), MigrationEnds(m), AtRest',
           ArchiveIsWhole', stateFile' \in StateFiles, archive' \in Dirs,
           tempDir' \in [there : BOOLEAN, files : Files, converted : 0 .. MaxEditions],
           migrationFaults' \in 0 .. MaxMigrationFaults, UNCHANGED <<legacyDir, current, editions>>
    PROVE  MigrationInv'
<1>1. /\ migrations'[m] = NoMigration
      /\ \A n \in Migrators : n # m => migrations'[n] = migrations[n]
      /\ migrations' \in [Migrators -> MigrationCalls]
    BY MigrationEndsIdle DEF MigrationInv
<1>2. MigrationTypeOK'
    BY <1>1 DEF MigrationInv, MigrationTypeOK, MigrationCalls, Pcs
<1>3. CallInv(m)'  BY <1>1 DEF CallInv, At, NoMigration
<1>4. QED  BY <1>1, <1>2, <1>3, MigrationCallStep

LEMMA MigrationTidies ==
    ASSUME MigrationInv, NEW m \in Migrators, TidyTemp(m)
    PROVE  MigrationInv'
<1>1. ~At(m, "idle")  BY DEF TidyTemp, At
<1>2. AtRest'
    BY <1>1 DEF TidyTemp, AtRest, MigrationInv, CallInv, Committed, ArchiveAsFound, At
<1>3. tempDir' \in [there : BOOLEAN, files : Files, converted : 0 .. MaxEditions]
    BY MigrationAssumption DEF TidyTemp, NoTemp, NoFiles, Files, Gone
<1>4. QED
    BY <1>1, <1>2, <1>3, MigrationEndsAtRest
       DEF TidyTemp, MigrationInv, MigrationTypeOK, ArchiveIsWhole

LEMMA MigrationUndoesTemp ==
    ASSUME MigrationInv, NEW m \in Migrators, UndoTemp(m)
    PROVE  MigrationInv'
<1>1. ~At(m, "idle")  BY DEF UndoTemp, At
<1>2. AtRest'
    BY <1>1 DEF UndoTemp, AtRest, MigrationInv, CallInv, Undone, At
<1>3. tempDir' \in [there : BOOLEAN, files : Files, converted : 0 .. MaxEditions]
    BY MigrationAssumption DEF UndoTemp, NoTemp, NoFiles, Files, Gone
<1>4. QED
    BY <1>1, <1>2, <1>3, MigrationEndsAtRest
       DEF UndoTemp, MigrationInv, MigrationTypeOK, ArchiveIsWhole

(* Wherever a call is, the disk is as it may be at rest. *)
LEMMA RestAnywhere == ASSUME MigrationInv PROVE AtRest
<1>1. ASSUME NEW m \in Migrators, ~At(m, "idle") PROVE AtRest
    BY <1>1
       DEF MigrationInv, MigrationTypeOK, AtRest, CallInv, Before, Archived, Committed, Undoing,
           Rewriting, UndoingArchive, Undone, At
<1>2. QED  BY <1>1 DEF MigrationInv

LEMMA MigrationDiesAtRest ==
    ASSUME MigrationInv, NEW m \in Migrators, MigrationDies(m)
    PROVE  MigrationInv'
<1>1. AtRest'  BY RestAnywhere DEF AtRest, MigrationDies
<1>2. migrationFaults' \in 0 .. MaxMigrationFaults
    BY MigrationAssumption DEF MigrationDies, MigrationInv, MigrationTypeOK
<1>3. QED
    BY <1>1, <1>2, MigrationEndsAtRest
       DEF MigrationDies, MigrationInv, MigrationTypeOK, ArchiveIsWhole

(* The users' commands, which find no call under way. *)
LEMMA UsersKeepMigration ==
    ASSUME MigrationInv, ~MigrationsOverlap, UserWritesV2 \/ UserRestores \/ RenameHarnessDirs
    PROVE  MigrationInv'
<1>1. (\A m \in Migrators : At(m, "idle")) /\ migrations' = migrations
    BY DEF UserWritesV2, UserRestores, RenameHarnessDirs, Alone, At
<1>2. AtRest' /\ ArchiveIsWhole'
    BY DEF UserWritesV2, UserRestores, RenameHarnessDirs, AtRest, MigrationInv, ArchiveIsWhole
<1>3. /\ stateFile' \in StateFiles /\ current' \in 1 .. MaxEditions
      /\ editions' \in 1 .. MaxEditions
  <2>1. CASE UserWritesV2
    BY <2>1, MigrationAssumption
       DEF UserWritesV2, MigrationInv, MigrationTypeOK, StateFiles, V2
  <2>2. CASE UserRestores
    BY <2>2 DEF UserRestores, MigrationInv, MigrationTypeOK, StateFiles, V2, Dirs, Files, Gone
  <2>3. CASE RenameHarnessDirs
    BY <2>3 DEF RenameHarnessDirs, MigrationInv, MigrationTypeOK, StateFiles, V2, Gone
  <2>4. QED  BY <2>1, <2>2, <2>3
<1>4. MigrationTypeOK'
    BY <1>3, MigrationAssumption
       DEF UserWritesV2, UserRestores, RenameHarnessDirs, MigrationInv, MigrationTypeOK, Gone
<1>5. QED
    BY <1>1, <1>2, <1>4 DEF MigrationInv, OneMigration, CallInv, At

LEMMA MigrationStep ==
    ASSUME MigrationInv, ~MigrationsOverlap, [MigrationNext]_migrationVars
    PROVE  MigrationInv'
<1>1. CASE UNCHANGED migrationVars
    BY <1>1
       DEF migrationVars, MigrationInv, MigrationTypeOK, OneMigration, ArchiveIsWhole, AtRest,
           CallInv, ConvertsCurrent, Staged, Before, Archived, Committed, Undoing, Rewriting,
           UndoingArchive, Undone, ArchiveAsFound, At
<1>2. QED
    BY <1>1, MigrationReads, MigrationCleans, MigrationStages, MigrationStagesState,
       MigrationCompares, MigrationCommitsArchive, MigrationCommitsState, MigrationTidies,
       MigrationStepFails, MigrationUndoesState, MigrationRewritesState,
       MigrationUndoesArchive, MigrationUndoesTemp, MigrationDiesAtRest, UsersKeepMigration
       DEF MigrationNext

(* The state of the migration has its type. *)
THEOREM MigrationTyped ==
    ASSUME ~MigrationsOverlap PROVE MigrationSpec => []MigrationTypeOK
<1>1. MigrationInv => MigrationTypeOK  BY DEF MigrationInv
<1>2. MigrationInv /\ [MigrationNext]_migrationVars => MigrationInv'
    BY MigrationStep
<1>3. QED  BY <1>1, <1>2, MigrationInitially, PTL DEF MigrationSpec

(* Whatever fails or dies while one call migrates, and however often it is retried, the
   V2 bytes in use are whole somewhere, a V3 state stands beside the archive of what it
   was converted from, and a call that undid its work left nothing behind (disk.ts,
   migrateOnDisk). Calls that overlap are the hazard the README names. *)
THEOREM OriginalIsKept ==
    ASSUME ~MigrationsOverlap PROVE MigrationSpec => []OriginalKept
<1>1. ASSUME MigrationInv PROVE OriginalKept
  <2>1. BytesAreThere
    BY <1>1, RestAnywhere DEF AtRest, BytesAreThere, ArchiveOf
  <2>2. stateFile.version = "v3" =>
          archive = [there |-> TRUE,
                     files |-> [state |-> stateFile.edition, manifest |-> stateFile.edition]]
    BY <1>1, RestAnywhere DEF AtRest, V2, V3, Torn, NoState, ArchiveOf
  <2>3. \A m \in Migrators : At(m, "undoTemp") =>
          stateFile = migrations[m].foundState /\ archive = migrations[m].foundArchive
    BY <1>1 DEF MigrationInv, CallInv, ConvertsCurrent, Undone, At
  <2>4. QED  BY <2>1, <2>2, <2>3 DEF OriginalKept
<1>2. MigrationInv /\ [MigrationNext]_migrationVars => MigrationInv'
    BY MigrationStep
<1>3. QED  BY <1>1, <1>2, MigrationInitially, PTL DEF MigrationSpec

-----------------------------------------------------------------------------
(* PinnedCommit. A file has its name only when it is whole, and the index comes last
   (PublishedIsWhole, IndexIsLast). *)
Whole(f) == files[f] = "whole"
There(f) == files[f] # "absent"

AllArtifacts == \A a \in PinnedArtifacts : Whole(Final(a))
AllRecords == \A v \in Versions : Whole(RecordFile(v))

(* A published artifact has its name only when it is finished. *)
PublishedIsWhole == \A a \in PinnedArtifacts : There(Final(a)) => Whole(Final(a))

(* The index is begun when everything else is there, and lists all of it. *)
IndexIsLast ==
    /\ There(Index) => AllArtifacts /\ AllRecords
    /\ Whole(Index) => listed = Versions

(* What an execution has done, at each of its stages. *)
ExecutionInv(e) ==
    /\ canary[e].open # NoFile => There(canary[e].open)
    /\ In(e, "publish") => \A a \in PinnedArtifacts : a \in canary[e].todo \/ Whole(Final(a))
    /\ canary[e].stage \in {"load", "stage", "commit", "reload", "reported"} => AllArtifacts
    /\ In(e, "stage") => \A v \in Versions : v < canary[e].version => Whole(RecordFile(v))
    /\ In(e, "stage") => canary[e].version \in Versions
    /\ In(e, "commit") => AllRecords
    /\ canary[e].stage \in {"reload", "reported"} => Whole(Index)
    /\ In(e, "refused") => ~canary[e].alone

PinnedInv ==
    /\ PinnedTypeOK /\ PublishedIsWhole /\ IndexIsLast
    /\ \A e \in Executions : ExecutionInv(e)

(* No step takes a file away or cuts it off. *)
FilesGrow ==
    \A f \in PinnedFiles : (Whole(f) => Whole(f)') /\ (There(f) => There(f)')

-----------------------------------------------------------------------------
LEMMA PinnedFilesDiffer ==
    /\ \A a \in PinnedArtifacts : Temp(a) \in PinnedFiles /\ Final(a) \in PinnedFiles
    /\ \A v \in Versions : RecordFile(v) \in PinnedFiles
    /\ Index \in PinnedFiles /\ NoFile \notin PinnedFiles
    /\ \A a, b \in PinnedArtifacts : Temp(a) # Final(b) /\ (Final(a) = Final(b) => a = b)
    /\ \A a \in PinnedArtifacts, v \in Versions :
          Temp(a) # RecordFile(v) /\ Final(a) # RecordFile(v)
    /\ \A v, w \in Versions : RecordFile(v) = RecordFile(w) => v = w
    /\ \A a \in PinnedArtifacts : Index # Temp(a) /\ Index # Final(a)
    /\ \A v \in Versions : Index # RecordFile(v)
BY DEF PinnedFiles, Temp, Final, RecordFile, Index, NoFile

LEMMA PinnedInitially == PinnedInit => PinnedInv
<1> SUFFICES ASSUME PinnedInit PROVE PinnedInv  OBVIOUS
<1> USE DEF PinnedInit
<1>1. \A f \in PinnedFiles : ~There(f) /\ ~Whole(f)  BY DEF There, Whole
<1>2. PinnedTypeOK
    BY PinnedAssumption DEF PinnedTypeOK, Resting
<1>3. \A e \in Executions : ExecutionInv(e)
    BY DEF ExecutionInv, In, Resting
<1>4. QED
    BY <1>1, <1>2, <1>3, PinnedFilesDiffer DEF PinnedInv, PublishedIsWhole, IndexIsLast

(* What holds of an execution goes on to hold while others write. *)
LEMMA OthersKeepExecution ==
    ASSUME PinnedInv, NEW e \in Executions, FilesGrow,
           canary'[e] = canary[e] \/ canary'[e] = [canary[e] EXCEPT !.alone = FALSE]
    PROVE  ExecutionInv(e)'
<1>1. canary[e].open # NoFile => canary[e].open \in PinnedFiles
    BY DEF PinnedInv, PinnedTypeOK
<1>2. /\ canary'[e].open = canary[e].open /\ canary'[e].stage = canary[e].stage
      /\ canary'[e].todo = canary[e].todo /\ canary'[e].version = canary[e].version
      /\ canary'[e].alone => canary[e].alone
    BY DEF PinnedInv, PinnedTypeOK
<1>3. AllArtifacts => AllArtifacts'
    BY PinnedFilesDiffer DEF FilesGrow, AllArtifacts, Whole
<1>4. AllRecords => AllRecords'
    BY PinnedFilesDiffer DEF FilesGrow, AllRecords, Whole
<1>5. Whole(Index) => Whole(Index)'
    BY PinnedFilesDiffer DEF FilesGrow
<1>6. \A v \in Versions : Whole(RecordFile(v)) => Whole(RecordFile(v))'
    BY PinnedFilesDiffer DEF FilesGrow
<1>7. \A a \in PinnedArtifacts : Whole(Final(a)) => Whole(Final(a))'
    BY PinnedFilesDiffer DEF FilesGrow
<1>8. canary[e].open # NoFile => There(canary[e].open)'
    BY <1>1, <1>2 DEF FilesGrow, PinnedInv, ExecutionInv, There
<1>9. QED
    BY <1>2, <1>3, <1>4, <1>5, <1>6, <1>7, <1>8 DEF PinnedInv, ExecutionInv, In

(* A step of one execution: its own part of the invariant is in question, and what the
   files say. *)
LEMMA ExecutionStep ==
    ASSUME PinnedInv, NEW e \in Executions, PinnedTypeOK', FilesGrow, PublishedIsWhole',
           IndexIsLast', ExecutionInv(e)',
           \A o \in Executions : o # e => canary'[o] = canary[o]
    PROVE  PinnedInv'
<1>1. ASSUME NEW o \in Executions PROVE ExecutionInv(o)'
    BY OthersKeepExecution
<1>2. QED  BY <1>1 DEF PinnedInv

LEMMA FilesStay ==
    ASSUME PinnedInv, UNCHANGED <<files, listed>>
    PROVE  FilesGrow /\ PublishedIsWhole' /\ IndexIsLast'
BY DEF PinnedInv, FilesGrow, PublishedIsWhole, IndexIsLast, AllArtifacts, AllRecords, Whole, There

(* What an execution becomes has its type, and the others stay. *)
CanaryRecords ==
    [stage : {"rest", "publish", "load", "stage", "commit", "reload", "reported", "refused"},
     todo : SUBSET PinnedArtifacts, version : 0 .. LastVersion, open : PinnedFiles \cup {NoFile},
     alone : BOOLEAN]

LEMMA BecomesTyped ==
    ASSUME PinnedInv, NEW e \in Executions, NEW c \in CanaryRecords, Becomes(e, c),
           files' \in [PinnedFiles -> {"absent", "partial", "whole"}], listed' \subseteq Versions,
           canaryDeaths' \in 0 .. MaxCanaryDeaths
    PROVE  /\ PinnedTypeOK' /\ canary'[e] = c
           /\ \A o \in Executions : o # e => canary'[o] = canary[o]
BY DEF PinnedInv, PinnedTypeOK, Becomes, CanaryRecords

LEMMA CanaryGoesTyped ==
    ASSUME PinnedInv, NEW e \in Executions,
           NEW s \in {"rest", "publish", "load", "stage", "commit", "reload", "reported",
                      "refused"},
           CanaryGoes(e, s),
           files' \in [PinnedFiles -> {"absent", "partial", "whole"}], listed' \subseteq Versions,
           canaryDeaths' \in 0 .. MaxCanaryDeaths
    PROVE  /\ PinnedTypeOK'
           /\ canary'[e].stage = s /\ canary'[e].open = NoFile
           /\ canary'[e].alone = canary[e].alone /\ canary'[e].todo = canary[e].todo
           /\ canary'[e].version = canary[e].version
           /\ \A o \in Executions : o # e => canary'[o] = canary[o]
BY DEF PinnedInv, PinnedTypeOK, CanaryGoes, Becomes

(* Opening a file: it is there, and no other file changes. *)
LEMMA OpenedFacts ==
    ASSUME PinnedInv, NEW e \in Executions, NEW f \in PinnedFiles, Opened(e, f),
           UNCHANGED <<listed, canaryDeaths>>
    PROVE  /\ PinnedTypeOK' /\ FilesGrow /\ There(f)'
           /\ \A g \in PinnedFiles : g # f => files'[g] = files[g]
           /\ Whole(f)' => Whole(f)
           /\ canary'[e] = [canary[e] EXCEPT !.open = f]
           /\ \A o \in Executions : o # e => canary'[o] = canary[o]
<1>1. MayWrite(f)  BY DEF MayWrite, PinnedInv, PinnedTypeOK
<1>2. /\ files' = [files EXCEPT ![f] = IF @ = "absent" THEN "partial" ELSE @]
      /\ Becomes(e, [canary[e] EXCEPT !.open = f])
    BY <1>1 DEF Opened
<1>3. PinnedTypeOK' /\ canary'[e] = [canary[e] EXCEPT !.open = f]
      /\ \A o \in Executions : o # e => canary'[o] = canary[o]
    BY <1>2 DEF Becomes, PinnedInv, PinnedTypeOK
<1>4. FilesGrow /\ There(f)' /\ (Whole(f)' => Whole(f))
      /\ \A g \in PinnedFiles : g # f => files'[g] = files[g]
    BY <1>2 DEF FilesGrow, There, Whole, PinnedInv, PinnedTypeOK
<1>5. QED  BY <1>3, <1>4

LEMMA CompletedFacts ==
    ASSUME PinnedInv, NEW e \in Executions, NEW f \in PinnedFiles, Completed(e, f)
    PROVE  /\ files' \in [PinnedFiles -> {"absent", "partial", "whole"}]
           /\ FilesGrow /\ Whole(f)' /\ There(f)
           /\ \A g \in PinnedFiles : g # f => files'[g] = files[g]
<1>1. There(f)
    BY PinnedFilesDiffer DEF Completed, PinnedInv, ExecutionInv
<1>2. files' = [files EXCEPT ![f] = "whole"]  BY DEF Completed
<1>3. QED
    BY <1>1, <1>2 DEF FilesGrow, There, Whole, PinnedInv, PinnedTypeOK

(* A file other than an artifact's and the index's changes nothing that is published. *)
LEMMA OtherFileKeeps ==
    ASSUME PinnedInv, FilesGrow, listed' = listed, NEW f \in PinnedFiles,
           \A g \in PinnedFiles : g # f => files'[g] = files[g],
           f # Index, \A a \in PinnedArtifacts : f # Final(a)
    PROVE  PublishedIsWhole' /\ IndexIsLast'
<1>1. \A a \in PinnedArtifacts : files'[Final(a)] = files[Final(a)]
    BY PinnedFilesDiffer
<1>2. files'[Index] = files[Index]  BY PinnedFilesDiffer
<1>3. AllRecords => AllRecords'
    BY PinnedFilesDiffer DEF FilesGrow, AllRecords, Whole
<1>4. QED
    BY <1>1, <1>2, <1>3
       DEF PinnedInv, PublishedIsWhole, IndexIsLast, AllArtifacts, Whole, There

-----------------------------------------------------------------------------
LEMMA PreflightKeeps ==
    ASSUME PinnedInv, NEW e \in Executions, Preflight(e)
    PROVE  PinnedInv'
<1>1. FilesGrow /\ PublishedIsWhole' /\ IndexIsLast'
    BY FilesStay DEF Preflight
<1> DEFINE others == {o \in Executions \ {e} : Active(o)}
           todo == {a \in PinnedArtifacts : files[Final(a)] = "absent"}
           r == [stage |-> "publish", version |-> 0, open |-> NoFile, alone |-> others = {},
                 todo |-> todo]
<1>2. canary' = [o \in Executions |->
          IF o = e THEN r
          ELSE IF o \in others THEN [canary[o] EXCEPT !.alone = FALSE] ELSE canary[o]]
    BY DEF Preflight
<1>3. /\ canary'[e].stage = "publish" /\ canary'[e].todo = todo /\ canary'[e].open = NoFile
      /\ \A o \in Executions : o # e =>
            canary'[o] = canary[o] \/ canary'[o] = [canary[o] EXCEPT !.alone = FALSE]
    BY <1>2
<1>4. PinnedTypeOK'
  <2>1. (others = {}) \in BOOLEAN  OBVIOUS
  <2>2. todo \subseteq PinnedArtifacts /\ 0 \in 0 .. LastVersion  BY PinnedAssumption
  <2>3. r \in CanaryRecords
    <3> DEFINE b == others = {}
    <3>1. b \in BOOLEAN  BY <2>1
    <3> HIDE DEF b, todo
    <3>2. [stage |-> "publish", version |-> 0, open |-> NoFile, alone |-> b, todo |-> todo]
             \in CanaryRecords
      BY <2>2, <3>1 DEF CanaryRecords
    <3>3. QED  BY <3>2 DEF b
  <2>4. canary \in [Executions -> CanaryRecords]
    BY DEF PinnedInv, PinnedTypeOK, CanaryRecords
  <2>5. ASSUME NEW o \in Executions PROVE [canary[o] EXCEPT !.alone = FALSE] \in CanaryRecords
    BY <2>4 DEF CanaryRecords
  <2>6. canary' \in [Executions -> CanaryRecords]
    <3> HIDE DEF others, todo, r
    <3>1. QED  BY <1>2, <2>3, <2>4, <2>5
  <2>7. QED  BY <2>6 DEF Preflight, PinnedInv, PinnedTypeOK, CanaryRecords
<1>5. ExecutionInv(e)'
    BY <1>3 DEF ExecutionInv, In, PinnedInv, PublishedIsWhole, There, Whole, Preflight
<1>6. ASSUME NEW o \in Executions, o # e PROVE ExecutionInv(o)'
    BY <1>1, <1>3, <1>6, OthersKeepExecution
<1>7. QED  BY <1>1, <1>4, <1>5, <1>6 DEF PinnedInv

LEMMA OpenTempKeeps ==
    ASSUME PinnedInv, NEW e \in Executions, NEW a \in PinnedArtifacts, OpenTemp(e, a)
    PROVE  PinnedInv'
<1>1. Temp(a) \in PinnedFiles  BY PinnedFilesDiffer
<1>2. /\ PinnedTypeOK' /\ FilesGrow /\ There(Temp(a))'
      /\ \A g \in PinnedFiles : g # Temp(a) => files'[g] = files[g]
      /\ canary'[e] = [canary[e] EXCEPT !.open = Temp(a)]
      /\ \A o \in Executions : o # e => canary'[o] = canary[o]
    BY <1>1, OpenedFacts DEF OpenTemp
<1>3. PublishedIsWhole' /\ IndexIsLast'
    BY <1>1, <1>2, PinnedFilesDiffer, OtherFileKeeps DEF OpenTemp
<1>4. /\ canary'[e].stage = "publish" /\ canary'[e].todo = canary[e].todo
      /\ canary'[e].open = Temp(a)
    BY <1>2 DEF OpenTemp, In, PinnedInv, PinnedTypeOK
<1>5. \A b \in PinnedArtifacts : Whole(Final(b)) => Whole(Final(b))'
    BY <1>2, PinnedFilesDiffer DEF FilesGrow
<1>6. ExecutionInv(e)'
    BY <1>2, <1>4, <1>5 DEF OpenTemp, ExecutionInv, In, PinnedInv, There
<1>7. QED  BY <1>2, <1>3, <1>6, ExecutionStep

LEMMA FillTempKeeps ==
    ASSUME PinnedInv, NEW e \in Executions, NEW a \in PinnedArtifacts, FillTemp(e, a)
    PROVE  PinnedInv'
<1>1. Temp(a) \in PinnedFiles  BY PinnedFilesDiffer
<1>2. /\ files' \in [PinnedFiles -> {"absent", "partial", "whole"}] /\ FilesGrow
      /\ \A g \in PinnedFiles : g # Temp(a) => files'[g] = files[g]
    BY <1>1, CompletedFacts DEF FillTemp
<1>3. PublishedIsWhole' /\ IndexIsLast'
    BY <1>1, <1>2, PinnedFilesDiffer, OtherFileKeeps DEF FillTemp
<1>4. PinnedTypeOK'  BY <1>2 DEF FillTemp, PinnedInv, PinnedTypeOK
<1>5. ExecutionInv(e)'  BY <1>2, OthersKeepExecution DEF FillTemp
<1>6. QED  BY <1>2, <1>3, <1>4, <1>5, ExecutionStep DEF FillTemp

LEMMA LinkKeeps ==
    ASSUME PinnedInv, NEW e \in Executions, NEW a \in PinnedArtifacts, Link(e, a)
    PROVE  PinnedInv'
<1>1. Temp(a) \in PinnedFiles /\ Final(a) \in PinnedFiles  BY PinnedFilesDiffer
<1>2. /\ files' \in [PinnedFiles -> {"absent", "partial", "whole"}]
      /\ FilesGrow /\ Whole(Final(a))'
      /\ \A g \in PinnedFiles : g # Final(a) => files'[g] = files[g]
  <2>1. files' = [files EXCEPT ![Final(a)] =
                    IF files[Final(a)] = "absent" THEN "whole" ELSE files[Final(a)]]
    BY DEF Link
  <2>2. files[Final(a)] = "absent" \/ files[Final(a)] = "whole"
    BY DEF PinnedInv, PublishedIsWhole, There, Whole
  <2>3. files' = [files EXCEPT ![Final(a)] = "whole"]  BY <2>1, <2>2
  <2>4. QED
    BY <1>1, <2>3 DEF FilesGrow, Whole, There, PinnedInv, PinnedTypeOK
<1>3. PublishedIsWhole'
    BY <1>2, PinnedFilesDiffer DEF PinnedInv, PublishedIsWhole, There, Whole
<1>4. IndexIsLast'
  <2>1. files'[Index] = files[Index]  BY <1>1, <1>2, PinnedFilesDiffer
  <2>2. (AllRecords => AllRecords') /\ (AllArtifacts => AllArtifacts')
    BY <1>2, PinnedFilesDiffer DEF FilesGrow, AllRecords, AllArtifacts, Whole
  <2>3. QED  BY <2>1, <2>2 DEF PinnedInv, IndexIsLast, There, Whole, Link
<1>5. /\ PinnedTypeOK'
      /\ canary'[e] = [canary[e] EXCEPT !.todo = @ \ {a}, !.open = NoFile]
      /\ \A o \in Executions : o # e => canary'[o] = canary[o]
  <2>1. [canary[e] EXCEPT !.todo = @ \ {a}, !.open = NoFile] \in CanaryRecords
    BY DEF PinnedInv, PinnedTypeOK, CanaryRecords
  <2>2. QED  BY <1>2, <2>1, BecomesTyped DEF Link, PinnedInv, PinnedTypeOK
<1>6. /\ canary'[e].stage = "publish" /\ canary'[e].todo = canary[e].todo \ {a}
      /\ canary'[e].open = NoFile
    BY <1>5 DEF Link, In, PinnedInv, PinnedTypeOK
<1>7. \A b \in PinnedArtifacts : Whole(Final(b)) => Whole(Final(b))'
    BY <1>2, PinnedFilesDiffer DEF FilesGrow
<1>8. ExecutionInv(e)'
    BY <1>2, <1>6, <1>7 DEF Link, ExecutionInv, In, PinnedInv
<1>9. QED  BY <1>2, <1>3, <1>4, <1>5, <1>8, ExecutionStep

-----------------------------------------------------------------------------
LEMMA RefsHoldMeans ==
    RefsHold(Versions) <=> AllRecords /\ AllArtifacts
BY DEF RefsHold, RecordsThere, AllRecords, AllArtifacts, Whole

LEMMA RevalidateKeeps ==
    ASSUME PinnedInv, NEW e \in Executions, Revalidate(e)
    PROVE  PinnedInv'
<1>1. AllArtifacts  BY DEF Revalidate, PinnedInv, ExecutionInv, AllArtifacts
<1>2. CanaryGoes(e, "load")
    BY <1>1 DEF Revalidate, AllArtifacts, Whole
<1>3. /\ PinnedTypeOK' /\ canary'[e].stage = "load" /\ canary'[e].open = NoFile
      /\ \A o \in Executions : o # e => canary'[o] = canary[o]
    BY <1>2, CanaryGoesTyped DEF Revalidate, PinnedInv, PinnedTypeOK
<1>4. FilesGrow /\ PublishedIsWhole' /\ IndexIsLast'
    BY FilesStay DEF Revalidate
<1>5. ExecutionInv(e)'
    BY <1>1, <1>3 DEF ExecutionInv, In, Revalidate, AllArtifacts, Whole
<1>6. QED  BY <1>3, <1>4, <1>5, ExecutionStep

LEMMA LoadKeeps ==
    ASSUME PinnedInv, NEW e \in Executions, LoadCommitted(e)
    PROVE  PinnedInv'
<1>1. FilesGrow /\ PublishedIsWhole' /\ IndexIsLast'
    BY FilesStay DEF LoadCommitted
<1>2. AllArtifacts  BY DEF LoadCommitted, PinnedInv, ExecutionInv, In
<1>3. AllArtifacts'  BY <1>2 DEF LoadCommitted, AllArtifacts, Whole
<1>4. CASE ~Whole(Index)
  <2> DEFINE c == [canary[e] EXCEPT !.stage = "stage", !.version = 1]
  <2>1. Becomes(e, c)  BY <1>4 DEF LoadCommitted, Whole
  <2>2. c \in CanaryRecords /\ c.stage = "stage" /\ c.version = 1 /\ c.open = canary[e].open
    <3>1. canary[e] \in CanaryRecords  BY DEF PinnedInv, PinnedTypeOK, CanaryRecords
    <3>2. 1 \in 0 .. LastVersion  BY PinnedAssumption
    <3>3. QED  BY <3>1, <3>2 DEF CanaryRecords
  <2>3. /\ PinnedTypeOK' /\ canary'[e] = c
        /\ \A o \in Executions : o # e => canary'[o] = canary[o]
    BY <2>1, <2>2, BecomesTyped DEF LoadCommitted, PinnedInv, PinnedTypeOK
  <2>4. canary[e].open # NoFile => There(canary[e].open)
    BY DEF PinnedInv, ExecutionInv
  <2>5. ExecutionInv(e)'
    <3> HIDE DEF c
    <3>1. QED
      BY <1>3, <2>2, <2>3, <2>4, PinnedAssumption
         DEF ExecutionInv, In, LoadCommitted, There, Versions
  <2>6. QED  BY <1>1, <2>3, <2>5, ExecutionStep
<1>5. CASE Whole(Index)
  <2>1. RefsHold(listed)
    BY <1>5, RefsHoldMeans DEF PinnedInv, IndexIsLast, There, Whole
  <2>2. CanaryGoes(e, "reported")  BY <1>5, <2>1 DEF LoadCommitted, Whole
  <2>3. /\ PinnedTypeOK' /\ canary'[e].stage = "reported" /\ canary'[e].open = NoFile
        /\ \A o \in Executions : o # e => canary'[o] = canary[o]
    BY <2>2, CanaryGoesTyped DEF LoadCommitted, PinnedInv, PinnedTypeOK
  <2>4. ExecutionInv(e)'
    BY <1>3, <1>5, <2>3 DEF ExecutionInv, In, LoadCommitted, Whole
  <2>5. QED  BY <1>1, <2>3, <2>4, ExecutionStep
<1>6. QED  BY <1>4, <1>5

LEMMA StageRecordKeeps ==
    ASSUME PinnedInv, NEW e \in Executions, StageRecord(e)
    PROVE  PinnedInv'
<1>1. canary[e].version \in Versions  BY DEF StageRecord, PinnedInv, ExecutionInv
<1> PICK f \in PinnedFiles : f = RecordFile(canary[e].version)
    BY <1>1, PinnedFilesDiffer
<1>2. f \in PinnedFiles /\ f # Index /\ \A a \in PinnedArtifacts : f # Final(a)
    BY <1>1, PinnedFilesDiffer
<1>3. Opened(e, f) /\ UNCHANGED <<listed, canaryDeaths>> /\ In(e, "stage")
    BY DEF StageRecord
<1>4. /\ PinnedTypeOK' /\ FilesGrow /\ There(f)'
      /\ \A g \in PinnedFiles : g # f => files'[g] = files[g]
      /\ canary'[e] = [canary[e] EXCEPT !.open = f]
      /\ \A o \in Executions : o # e => canary'[o] = canary[o]
    BY <1>2, <1>3, OpenedFacts
<1>5. PublishedIsWhole' /\ IndexIsLast'
    BY <1>2, <1>3, <1>4, OtherFileKeeps
<1>6. /\ canary'[e].stage = "stage" /\ canary'[e].version = canary[e].version
      /\ canary'[e].open = f
    BY <1>3, <1>4 DEF In, PinnedInv, PinnedTypeOK
<1>7. AllArtifacts' /\ \A v \in Versions : Whole(RecordFile(v)) => Whole(RecordFile(v))'
    BY <1>3, <1>4, PinnedFilesDiffer
       DEF FilesGrow, PinnedInv, ExecutionInv, In, AllArtifacts, Whole
<1>8. ExecutionInv(e)'
    BY <1>1, <1>3, <1>4, <1>6, <1>7 DEF ExecutionInv, In, PinnedInv, There
<1>9. QED  BY <1>4, <1>5, <1>8, ExecutionStep

LEMMA FillRecordKeeps ==
    ASSUME PinnedInv, NEW e \in Executions, FillRecord(e)
    PROVE  PinnedInv'
<1>1. In(e, "stage") /\ canary[e].version \in Versions
    BY DEF FillRecord, PinnedInv, ExecutionInv
<1> PICK v \in Versions : v = canary[e].version  BY <1>1
<1> PICK f \in PinnedFiles : f = RecordFile(v)  BY PinnedFilesDiffer
<1> DEFINE c == [canary[e] EXCEPT !.open = NoFile, !.version = IF v = LastVersion THEN v ELSE v + 1,
                                    !.stage = IF v = LastVersion THEN "commit" ELSE @]
<1>2. f # Index /\ \A a \in PinnedArtifacts : f # Final(a)
    BY PinnedFilesDiffer
<1>3. Completed(e, f) /\ UNCHANGED <<listed, canaryDeaths>> /\ Becomes(e, c)
    BY DEF FillRecord
<1>4. /\ c \in CanaryRecords /\ c.open = NoFile
      /\ c.version = IF v = LastVersion THEN v ELSE v + 1
      /\ c.stage = IF v = LastVersion THEN "commit" ELSE "stage"
  <2>1. canary[e] \in CanaryRecords /\ canary[e].stage = "stage"
    BY <1>1 DEF PinnedInv, PinnedTypeOK, CanaryRecords, In
  <2>2. (IF v = LastVersion THEN v ELSE v + 1) \in 0 .. LastVersion
    BY PinnedAssumption DEF Versions
  <2>3. QED  BY <2>1, <2>2 DEF CanaryRecords
<1>5. \A w \in Versions : w < v => Whole(RecordFile(w))
    BY <1>1 DEF PinnedInv, ExecutionInv
<1>6. AllArtifacts  BY <1>1 DEF PinnedInv, ExecutionInv, In
<1> HIDE DEF c
<1>7. /\ files' \in [PinnedFiles -> {"absent", "partial", "whole"}]
      /\ FilesGrow /\ Whole(f)'
      /\ \A g \in PinnedFiles : g # f => files'[g] = files[g]
    BY <1>2, <1>3, CompletedFacts
<1>8. PublishedIsWhole' /\ IndexIsLast'
    BY <1>2, <1>3, <1>7, OtherFileKeeps
<1>9. /\ PinnedTypeOK' /\ canary'[e] = c
      /\ \A o \in Executions : o # e => canary'[o] = canary[o]
    BY <1>3, <1>4, <1>7, BecomesTyped DEF PinnedInv, PinnedTypeOK
<1>10. AllArtifacts'
    BY <1>6, <1>7, PinnedFilesDiffer DEF FilesGrow, AllArtifacts, Whole
<1>11. \A w \in Versions : w <= v => Whole(RecordFile(w))'
  <2> SUFFICES ASSUME NEW w \in Versions, w <= v PROVE Whole(RecordFile(w))'  OBVIOUS
  <2>1. CASE w = v  BY <1>7, <2>1
  <2>2. CASE w < v  BY <1>5, <1>7, <2>2, PinnedFilesDiffer DEF FilesGrow
  <2>3. QED  BY <1>1, <2>1, <2>2 DEF Versions
<1>12. CASE v = LastVersion
  <2>1. AllRecords'
    BY <1>1, <1>11, <1>12 DEF AllRecords, Versions, Whole
  <2>2. QED
    <3>1. ExecutionInv(e)'
      BY <1>4, <1>9, <1>10, <1>12, <2>1 DEF ExecutionInv, In
    <3>2. QED  BY <1>7, <1>8, <1>9, <3>1, ExecutionStep
<1>13. CASE v # LastVersion
  <2>1. v + 1 \in Versions /\ \A w \in Versions : w < v + 1 => w <= v
    BY <1>1, <1>13, PinnedAssumption DEF Versions
  <2>2. \A w \in Versions : w < canary'[e].version => Whole(RecordFile(w))'
    BY <1>4, <1>9, <1>11, <1>13, <2>1
  <2>3. canary'[e].stage = "stage" /\ canary'[e].version \in Versions /\ canary'[e].open = NoFile
    BY <1>4, <1>9, <1>13, <2>1
  <2>4. ExecutionInv(e)'
    BY <1>10, <2>2, <2>3 DEF ExecutionInv, In
  <2>5. QED  BY <1>7, <1>8, <1>9, <2>4, ExecutionStep
<1>14. QED  BY <1>12, <1>13

LEMMA CommitKeeps ==
    ASSUME PinnedInv, NEW e \in Executions, Commit(e)
    PROVE  PinnedInv'
<1>1. AllRecords /\ AllArtifacts
    BY DEF Commit, PinnedInv, ExecutionInv, In
<1>2. Opened(e, Index) /\ UNCHANGED <<listed, canaryDeaths>>
    BY <1>1, RefsHoldMeans DEF Commit
<1>3. Index \in PinnedFiles  BY PinnedFilesDiffer
<1>4. /\ PinnedTypeOK' /\ FilesGrow /\ There(Index)'
      /\ \A g \in PinnedFiles : g # Index => files'[g] = files[g]
      /\ Whole(Index)' => Whole(Index)
      /\ canary'[e] = [canary[e] EXCEPT !.open = Index]
      /\ \A o \in Executions : o # e => canary'[o] = canary[o]
    BY <1>2, <1>3, OpenedFacts
<1>5. AllRecords' /\ AllArtifacts'
    BY <1>1, <1>4, PinnedFilesDiffer DEF FilesGrow, AllRecords, AllArtifacts, Whole
<1>6. PublishedIsWhole'  BY <1>5 DEF PublishedIsWhole, AllArtifacts, Whole
<1>7. IndexIsLast'
    BY <1>2, <1>4, <1>5 DEF IndexIsLast, PinnedInv
<1>8. canary'[e].stage = "commit" /\ canary'[e].open = Index
    BY <1>4 DEF Commit, In, PinnedInv, PinnedTypeOK
<1>9. ExecutionInv(e)'
    BY <1>4, <1>5, <1>8 DEF ExecutionInv, In, There
<1>10. QED  BY <1>4, <1>6, <1>7, <1>9, ExecutionStep

LEMMA FillIndexKeeps ==
    ASSUME PinnedInv, NEW e \in Executions, FillIndex(e)
    PROVE  PinnedInv'
<1>1. AllRecords /\ AllArtifacts
    BY DEF FillIndex, PinnedInv, ExecutionInv, In
<1>2. Index \in PinnedFiles  BY PinnedFilesDiffer
<1>3. /\ files' \in [PinnedFiles -> {"absent", "partial", "whole"}]
      /\ FilesGrow /\ Whole(Index)'
      /\ \A g \in PinnedFiles : g # Index => files'[g] = files[g]
    BY <1>2, CompletedFacts DEF FillIndex
<1>4. AllRecords' /\ AllArtifacts'
    BY <1>1, <1>3, PinnedFilesDiffer DEF FilesGrow, AllRecords, AllArtifacts, Whole
<1>5. PublishedIsWhole'  BY <1>4 DEF PublishedIsWhole, AllArtifacts, Whole
<1>6. IndexIsLast'  BY <1>4 DEF IndexIsLast, FillIndex
<1>7. /\ PinnedTypeOK' /\ canary'[e].stage = "reload" /\ canary'[e].open = NoFile
      /\ \A o \in Executions : o # e => canary'[o] = canary[o]
    BY <1>3, CanaryGoesTyped DEF FillIndex, PinnedInv, PinnedTypeOK
<1>8. ExecutionInv(e)'
    BY <1>3, <1>4, <1>7 DEF ExecutionInv, In
<1>9. QED  BY <1>3, <1>5, <1>6, <1>7, <1>8, ExecutionStep

LEMMA ReloadKeeps ==
    ASSUME PinnedInv, NEW e \in Executions, Reload(e)
    PROVE  PinnedInv'
<1>1. Whole(Index) /\ AllArtifacts
    BY DEF Reload, PinnedInv, ExecutionInv, In
<1>2. RefsHold(listed)
    BY <1>1, RefsHoldMeans DEF PinnedInv, IndexIsLast, There, Whole
<1>3. CanaryGoes(e, "reported")  BY <1>1, <1>2 DEF Reload, Whole
<1>4. /\ PinnedTypeOK' /\ canary'[e].stage = "reported" /\ canary'[e].open = NoFile
      /\ \A o \in Executions : o # e => canary'[o] = canary[o]
    BY <1>3, CanaryGoesTyped DEF Reload, PinnedInv, PinnedTypeOK
<1>5. FilesGrow /\ PublishedIsWhole' /\ IndexIsLast'  BY FilesStay DEF Reload
<1>6. Whole(Index)' /\ AllArtifacts'  BY <1>1 DEF Reload, AllArtifacts, Whole
<1>7. ExecutionInv(e)'  BY <1>4, <1>6 DEF ExecutionInv, In
<1>8. QED  BY <1>4, <1>5, <1>7, ExecutionStep

LEMMA DisturbedKeeps ==
    ASSUME PinnedInv, NEW e \in Executions, Disturbed(e)
    PROVE  PinnedInv'
<1>1. /\ PinnedTypeOK' /\ canary'[e].stage = "refused" /\ canary'[e].open = NoFile
      /\ canary'[e].alone = canary[e].alone /\ ~canary[e].alone
      /\ \A o \in Executions : o # e => canary'[o] = canary[o]
    BY CanaryGoesTyped DEF Disturbed, PinnedInv, PinnedTypeOK
<1>2. FilesGrow /\ PublishedIsWhole' /\ IndexIsLast'  BY FilesStay DEF Disturbed
<1>3. ExecutionInv(e)'  BY <1>1 DEF ExecutionInv, In
<1>4. QED  BY <1>1, <1>2, <1>3, ExecutionStep

LEMMA CanaryDiesKeeps ==
    ASSUME PinnedInv, NEW e \in Executions, CanaryDies(e)
    PROVE  PinnedInv'
<1>1. Resting \in CanaryRecords  BY PinnedAssumption DEF Resting, CanaryRecords
<1>2. canaryDeaths' \in 0 .. MaxCanaryDeaths
    BY PinnedAssumption DEF CanaryDies, PinnedInv, PinnedTypeOK
<1>3. /\ PinnedTypeOK' /\ canary'[e] = Resting
      /\ \A o \in Executions : o # e => canary'[o] = canary[o]
    BY <1>1, <1>2, BecomesTyped DEF CanaryDies, PinnedInv, PinnedTypeOK
<1>4. FilesGrow /\ PublishedIsWhole' /\ IndexIsLast'  BY FilesStay DEF CanaryDies
<1>5. ExecutionInv(e)'  BY <1>3 DEF ExecutionInv, In, Resting
<1>6. QED  BY <1>3, <1>4, <1>5, ExecutionStep

LEMMA PinnedStep ==
    ASSUME PinnedInv, [PinnedNext]_pinnedVars
    PROVE  PinnedInv'
<1>1. CASE UNCHANGED pinnedVars
    BY <1>1
       DEF pinnedVars, PinnedInv, PinnedTypeOK, PublishedIsWhole, IndexIsLast, ExecutionInv,
           AllArtifacts, AllRecords, Whole, There, In
<1>2. QED
    BY <1>1, PreflightKeeps, OpenTempKeeps, FillTempKeeps, LinkKeeps, RevalidateKeeps, LoadKeeps,
       StageRecordKeeps, FillRecordKeeps, CommitKeeps, FillIndexKeeps, ReloadKeeps,
       DisturbedKeeps, CanaryDiesKeeps
       DEF PinnedNext

(* The state of the pinned commits has its type. *)
THEOREM PinnedTyped == PinnedSpec => []PinnedTypeOK
<1>1. PinnedInv => PinnedTypeOK  BY DEF PinnedInv
<1>2. PinnedInv /\ [PinnedNext]_pinnedVars => PinnedInv'  BY PinnedStep
<1>3. QED  BY <1>1, <1>2, PinnedInitially, PTL DEF PinnedSpec

(* For any executions, artifacts and deaths, an execution that had the claim to itself
   is never refused, and one that reported stands on a whole index, all the records it
   lists and all the artifacts (module PinnedCommit). *)
THEOREM CanaryCommitsAtomically == PinnedSpec => []CanaryIsAtomic
<1>1. ASSUME PinnedInv PROVE CanaryIsAtomic
  <2>1. ASSUME NEW e \in Executions, In(e, "reported")
        PROVE  files[Index] = "whole" /\ RefsHold(listed)
    <3>1. Whole(Index)  BY <1>1, <2>1 DEF PinnedInv, ExecutionInv, In
    <3>2. QED  BY <1>1, <3>1, RefsHoldMeans DEF PinnedInv, IndexIsLast, There, Whole
  <2>2. \A e \in Executions : canary[e].alone => ~In(e, "refused")
    BY <1>1 DEF PinnedInv, ExecutionInv
  <2>3. QED  BY <2>1, <2>2 DEF CanaryIsAtomic
<1>2. PinnedInv /\ [PinnedNext]_pinnedVars => PinnedInv'  BY PinnedStep
<1>3. QED  BY <1>1, <1>2, PinnedInitially, PTL DEF PinnedSpec

-----------------------------------------------------------------------------
(* KnowledgePromotion. An intent holds what its receipt will need (IntentHolds,
   CanRestore), whatever other operations do to the page in the meantime. *)
WorkRecords == [stage : Stages, operation : Operations, prior : Texts,
                receipt : Receipts \cup {NoReceipt}]

PageIntents == [Operations -> Intents \cup {NoIntent}]

VaultTypeOK ==
    /\ page \in Texts
    /\ pointer \in [text : Texts, known : BOOLEAN]
    /\ versions \subseteq Texts \ {NoText}
    /\ articles \subseteq Promotions /\ metas \subseteq articles /\ drifts \subseteq Promotions
    /\ oneOrigin \in BOOLEAN
    /\ catalogue \in [text : Texts, log : SUBSET (Operations \X Promotions)]

(* What the promotion replaced, by its receipt, is there. *)
CanRestore(r) == r.operation = "promote" => r.prior \in versions \cup {NoText}

(* The intent of a rollback never has a receipt: it goes into the promotion's. *)
IntentHolds(p) ==
    /\ ~Replayed(intents[p]["rollback"])
    /\ Replayed(intents[p]["promote"]) =>
          intents[p]["promote"].receipt.id = p /\ CanRestore(intents[p]["promote"].receipt)

(* How far a request has got: the receipt it brings, the article and the version it
   has stored, and whether the promotion's intent has its receipt. *)
WorkHolds(p) ==
    /\ work[p].stage \in {"receipt", "stored", "settle"} =>
          work[p].receipt # NoReceipt /\ work[p].receipt.id = p /\ CanRestore(work[p].receipt)
    /\ work[p].stage = "meta" => p \in articles
    /\ work[p].stage \in {"page", "pointer", "catalogue", "signed"}
          /\ work[p].operation = "promote" =>
          work[p].prior \in versions \cup {NoText}
    /\ work[p].stage \in {"intent", "raw", "meta", "version", "page"}
          /\ work[p].operation = "promote" => ~Replayed(intents[p]["promote"])
    /\ work[p].stage \in {"stored", "final"} => Replayed(intents[p]["promote"])
    /\ work[p].stage = "settle" => Replayed(intents[p][work[p].operation])

ReceiptsHold ==
    \A r \in pageReceipts :
        CanRestore(r) /\ (r.operation = "promote" => Replayed(intents[r.id]["promote"]))

PromotionInv ==
    /\ PromotionTypeOK
    /\ \A p \in Promotions : IntentHolds(p) /\ WorkHolds(p)
    /\ ReceiptsHold

-----------------------------------------------------------------------------
LEMMA PromotionInitially == PromotionInit => PromotionInv
<1> SUFFICES ASSUME PromotionInit PROVE PromotionInv  OBVIOUS
<1> USE DEF PromotionInit
<1>1. intents \in [Promotions -> PageIntents]  BY DEF PageIntents
<1>2. work \in [Promotions -> {Idle} \cup WorkRecords]  OBVIOUS
<1>3. page \in Texts /\ NoText \in Texts  BY DEF Texts
<1>4. PromotionTypeOK
    BY <1>1, <1>2, <1>3, PromotionAssumption DEF PromotionTypeOK, PageIntents, WorkRecords
<1>5. ASSUME NEW p \in Promotions PROVE IntentHolds(p) /\ WorkHolds(p)
  <2>1. intents[p]["rollback"] = NoIntent /\ intents[p]["promote"] = NoIntent
      BY DEF Operations
  <2>2. work[p].stage = "idle"  BY DEF Idle
  <2>3. QED  BY <2>1, <2>2 DEF IntentHolds, WorkHolds, Replayed
<1>6. QED  BY <1>4, <1>5 DEF PromotionInv, ReceiptsHold

(* What an intent and the request of an identity are. *)
LEMMA PromotionRecords ==
    ASSUME PromotionInv, NEW p \in Promotions
    PROVE  /\ VaultTypeOK
           /\ intents \in [Promotions -> PageIntents] /\ intents[p] \in PageIntents
           /\ intents[p]["promote"] \in Intents \cup {NoIntent}
           /\ intents[p]["rollback"] \in Intents \cup {NoIntent}
           /\ work \in [Promotions -> {Idle} \cup WorkRecords]
           /\ work[p].stage \in Stages => work[p] \in WorkRecords
           /\ pageReceipts \subseteq Receipts /\ promoDeaths \in 0 .. MaxPromoDeaths
           /\ IntentHolds(p) /\ WorkHolds(p) /\ ReceiptsHold
<1>1. Idle.stage = "idle" /\ "idle" \notin Stages  BY DEF Idle, Stages
<1>2. work \in [Promotions -> {Idle} \cup WorkRecords]
    BY DEF PromotionInv, PromotionTypeOK, WorkRecords
<1>3. intents \in [Promotions -> PageIntents]
    BY DEF PromotionInv, PromotionTypeOK, PageIntents
<1>4. intents[p] \in PageIntents  BY <1>3
<1>5. QED
    BY <1>1, <1>2, <1>3, <1>4
       DEF PromotionInv, PromotionTypeOK, VaultTypeOK, PageIntents, Operations

(* What a step of identity p leaves to show: of p, and of the receipts it adds. *)
LEMMA PromotionStepKeeps ==
    ASSUME PromotionInv, NEW p \in Promotions,
           work'[p] \in WorkRecords \cup {Idle}, intents'[p] \in PageIntents,
           work' = [work EXCEPT ![p] = work'[p]], intents' = [intents EXCEPT ![p] = intents'[p]],
           VaultTypeOK', versions \subseteq versions', articles \subseteq articles',
           promoDeaths' \in 0 .. MaxPromoDeaths,
           Replayed(intents[p]["promote"]) => Replayed(intents'[p]["promote"]),
           pageReceipts \subseteq pageReceipts',
           \A r \in pageReceipts' \ pageReceipts :
               /\ r \in Receipts /\ r.id = p /\ CanRestore(r)'
               /\ r.operation = "promote" => Replayed(intents'[p]["promote"]),
           IntentHolds(p)', WorkHolds(p)'
    PROVE  PromotionInv'
<1>1. /\ work \in [Promotions -> {Idle} \cup WorkRecords]
      /\ intents \in [Promotions -> PageIntents]
      /\ pageReceipts \subseteq Receipts /\ ReceiptsHold
    BY PromotionRecords
<1>2. work' \in [Promotions -> {Idle} \cup WorkRecords]  BY <1>1
<1>3. intents' \in [Promotions -> PageIntents]  BY <1>1
<1>4. pageReceipts' \subseteq Receipts  BY <1>1
<1>5. PromotionTypeOK'
    BY <1>2, <1>3, <1>4 DEF PromotionTypeOK, VaultTypeOK, WorkRecords, PageIntents
<1>6. \A r : CanRestore(r) => CanRestore(r)'  BY DEF CanRestore
<1>7. ASSUME NEW q \in Promotions, q # p PROVE IntentHolds(q)' /\ WorkHolds(q)'
  <2>1. work'[q] = work[q] /\ intents'[q] = intents[q]  BY <1>1, <1>7
  <2>2. IntentHolds(q) /\ WorkHolds(q)  BY PromotionRecords
  <2>3. IntentHolds(q)'  BY <1>6, <2>1, <2>2 DEF IntentHolds
  <2>4. WorkHolds(q)'  BY <1>6, <2>1, <2>2 DEF WorkHolds
  <2>5. QED  BY <2>3, <2>4
<1>8. ReceiptsHold'
  <2> SUFFICES ASSUME NEW r \in pageReceipts'
               PROVE  /\ CanRestore(r)'
                      /\ r.operation = "promote" => Replayed(intents'[r.id]["promote"])
      BY DEF ReceiptsHold, Replayed
  <2>1. CASE r \in pageReceipts
    <3>1. r.id \in Promotions  BY <1>1, <2>1 DEF Receipts
    <3>2. CanRestore(r) /\ (r.operation = "promote" => Replayed(intents[r.id]["promote"]))
        BY <1>1, <2>1 DEF ReceiptsHold
    <3>3. r.id # p => intents'[r.id] = intents[r.id]  BY <1>1, <3>1
    <3>4. QED  BY <1>6, <3>2, <3>3
  <2>2. CASE r \notin pageReceipts  BY <2>2
  <2>3. QED  BY <2>1, <2>2
<1>9. QED  BY <1>5, <1>7, <1>8 DEF PromotionInv

(* The same of a step that writes neither an intent nor a receipt. *)
LEMMA VaultStepKeeps ==
    ASSUME PromotionInv, NEW p \in Promotions,
           work'[p] \in WorkRecords \cup {Idle}, work' = [work EXCEPT ![p] = work'[p]],
           UNCHANGED <<intents, pageReceipts>>,
           VaultTypeOK', versions \subseteq versions', articles \subseteq articles',
           promoDeaths' \in 0 .. MaxPromoDeaths, WorkHolds(p)'
    PROVE  PromotionInv'
<1>1. intents \in [Promotions -> PageIntents] /\ intents[p] \in PageIntents /\ IntentHolds(p)
    BY PromotionRecords
<1>2. intents' = [intents EXCEPT ![p] = intents'[p]]  BY <1>1
<1>3. IntentHolds(p)'  BY <1>1 DEF IntentHolds, CanRestore
<1>4. QED  BY <1>1, <1>2, <1>3, PromotionStepKeeps

LEMMA PromotionEnds ==
    ASSUME PromotionInv, NEW p \in Promotions, Ends(p)
    PROVE  /\ work'[p] = Idle /\ work'[p].stage = "idle"
           /\ work' = [work EXCEPT ![p] = work'[p]] /\ WorkHolds(p)'
<1>1. work'[p] = Idle /\ work' = [work EXCEPT ![p] = Idle]
    BY PromotionRecords DEF Ends
<1>2. work'[p].stage = "idle"  BY <1>1 DEF Idle
<1>3. QED  BY <1>1, <1>2 DEF WorkHolds

LEMMA PromotionGoesTo ==
    ASSUME PromotionInv, NEW p \in Promotions, NEW s \in Stages, GoTo(p, s),
           work[p].stage \in Stages
    PROVE  /\ work[p] \in WorkRecords /\ work'[p] \in WorkRecords
           /\ work' = [work EXCEPT ![p] = work'[p]]
           /\ work'[p].stage = s /\ work'[p].operation = work[p].operation
           /\ work'[p].prior = work[p].prior /\ work'[p].receipt = work[p].receipt
<1>1. /\ work \in [Promotions -> {Idle} \cup WorkRecords] /\ work[p] \in WorkRecords
    BY PromotionRecords
<1>2. work' = [work EXCEPT ![p] = [work[p] EXCEPT !.stage = s]]  BY <1>1 DEF GoTo
<1>3. work'[p] = [work[p] EXCEPT !.stage = s]  BY <1>1, <1>2
<1>4. QED  BY <1>1, <1>2, <1>3 DEF WorkRecords

LEMMA PromotionNames ==
    /\ Stages = {"intent", "raw", "meta", "version", "page", "pointer", "catalogue", "signed",
                 "receipt", "stored", "final", "settle"}
    /\ Idle.stage = "idle" /\ NoIntent \notin Intents
    /\ Operations = {"promote", "rollback"} /\ NoText \in Texts
BY DEF Stages, Idle, NoIntent, Intents, Operations, Texts

-----------------------------------------------------------------------------
LEMMA RequestKeeps ==
    ASSUME PromotionInv, NEW p \in Promotions, NEW o \in Operations, Request(p, o)
    PROVE  PromotionInv'
<1> DEFINE i == intents[p][o]
<1>1. /\ work \in [Promotions -> {Idle} \cup WorkRecords]
      /\ intents[p] \in PageIntents /\ i \in Intents \cup {NoIntent}
      /\ IntentHolds(p) /\ VaultTypeOK
    BY PromotionRecords, PromotionNames DEF PageIntents
<1>2. UNCHANGED <<vaultVars, intents, pageReceipts, promoDeaths>>  BY DEF Request
<1>3. VaultTypeOK' /\ UNCHANGED <<versions, articles, intents, pageReceipts, promoDeaths>>
    BY <1>1, <1>2 DEF VaultTypeOK, vaultVars
<1>4. ASSUME NEW s \in {"settle", "intent"}, NEW r \in Receipts \cup {NoReceipt},
             work' = [work EXCEPT ![p] =
                         [stage |-> s, operation |-> o, prior |-> NoText, receipt |-> r]]
      PROVE  /\ work'[p] \in WorkRecords /\ work' = [work EXCEPT ![p] = work'[p]]
             /\ work'[p].stage = s /\ work'[p].operation = o /\ work'[p].receipt = r
  <2>1. work'[p] = [stage |-> s, operation |-> o, prior |-> NoText, receipt |-> r]
      BY <1>1, <1>4
  <2>2. s \in Stages /\ NoText \in Texts  BY PromotionNames
  <2>3. work'[p] \in WorkRecords  BY <2>1, <2>2 DEF WorkRecords
  <2>4. work' = [work EXCEPT ![p] = work'[p]]  BY <1>4, <2>1
  <2>5. QED  BY <2>1, <2>3, <2>4
<1>5. CASE Replayed(i) /\ i.digest = o
  <2>1. work' = [work EXCEPT ![p] = [stage |-> "settle", operation |-> o, prior |-> NoText,
                                    receipt |-> i.receipt]]
      BY <1>5 DEF Request
  <2>2. i \in Intents /\ i.receipt # NoReceipt /\ i.receipt \in Receipts \cup {NoReceipt}
      BY <1>1, <1>5 DEF Replayed, Intents
  <2>3. /\ work'[p] \in WorkRecords /\ work' = [work EXCEPT ![p] = work'[p]]
        /\ work'[p].stage = "settle" /\ work'[p].operation = o /\ work'[p].receipt = i.receipt
      BY <1>4, <2>1, <2>2
  <2>4. o = "promote"  BY <1>1, <1>5, PromotionNames DEF IntentHolds
  <2>5. i.receipt.id = p /\ CanRestore(i.receipt)  BY <1>1, <1>5, <2>4 DEF IntentHolds
  <2>6. WorkHolds(p)'
      BY <1>3, <1>5, <2>2, <2>3, <2>5 DEF WorkHolds, CanRestore
  <2>7. QED  BY <1>3, <2>3, <2>6, PromotionRecords, VaultStepKeeps
<1>6. CASE ~(Replayed(i) /\ i.digest = o)
  <2>1. /\ work' = [work EXCEPT ![p] = [stage |-> "intent", operation |-> o, prior |-> NoText,
                                       receipt |-> NoReceipt]]
        /\ i # NoIntent => i.digest = o
      BY <1>6 DEF Request
  <2>2. /\ work'[p] \in WorkRecords /\ work' = [work EXCEPT ![p] = work'[p]]
        /\ work'[p].stage = "intent" /\ work'[p].operation = o
      BY <1>4, <2>1
  <2>3. ~Replayed(i)  BY <1>6, <2>1 DEF Replayed
  <2>4. WorkHolds(p)'  BY <1>3, <2>2, <2>3 DEF WorkHolds
  <2>5. QED  BY <1>3, <2>2, <2>4, PromotionRecords, VaultStepKeeps
<1>7. QED  BY <1>5, <1>6

(* A request that ends, with what it has written before. *)
LEMMA PromotionEndKeeps ==
    ASSUME PromotionInv, NEW p \in Promotions, Ends(p), UNCHANGED <<intents, pageReceipts>>,
           VaultTypeOK', UNCHANGED <<versions, articles>>, promoDeaths' \in 0 .. MaxPromoDeaths
    PROVE  PromotionInv'
BY PromotionEnds, VaultStepKeeps

(* A request that goes on without touching the vault or with what it writes there. *)
LEMMA PromotionMoves ==
    ASSUME PromotionInv, NEW p \in Promotions, NEW s \in Stages, GoTo(p, s),
           work[p].stage \in {"intent", "raw", "meta", "page", "pointer", "catalogue"},
           s \in {"meta", "version", "pointer", "catalogue", "signed"},
           s = "meta" => p \in articles',
           s \in {"pointer", "catalogue", "signed"} =>
               work[p].stage \in {"page", "pointer", "catalogue"},
           s = "version" => work[p].stage = "meta",
           s = "meta" => work[p].stage = "raw",
           UNCHANGED <<intents, pageReceipts, promoDeaths, versions>>,
           VaultTypeOK', articles \subseteq articles'
    PROVE  PromotionInv'
<1>1. /\ work'[p] \in WorkRecords /\ work' = [work EXCEPT ![p] = work'[p]]
      /\ work'[p].stage = s /\ work'[p].operation = work[p].operation
      /\ work'[p].prior = work[p].prior
    BY PromotionGoesTo, PromotionNames
<1>2. WorkHolds(p) /\ promoDeaths \in 0 .. MaxPromoDeaths  BY PromotionRecords
<1>3. WorkHolds(p)'  BY <1>1, <1>2 DEF WorkHolds
<1>4. QED  BY <1>1, <1>2, <1>3, VaultStepKeeps

LEMMA SettleKeeps ==
    ASSUME PromotionInv, NEW p \in Promotions, Settle(p)
    PROVE  PromotionInv'
<1> DEFINE o == work[p].operation
           i == intents[p][o]
<1>1. /\ work[p].stage = "settle" /\ pageReceipts' = pageReceipts \cup {work[p].receipt}
      /\ intents' = [intents EXCEPT ![p][o].state = "finalized"] /\ Ends(p)
      /\ UNCHANGED <<vaultVars, promoDeaths>>
    BY DEF Settle
<1>2. /\ work[p] \in WorkRecords /\ intents \in [Promotions -> PageIntents]
      /\ intents[p] \in PageIntents /\ IntentHolds(p) /\ WorkHolds(p) /\ VaultTypeOK
      /\ promoDeaths \in 0 .. MaxPromoDeaths
    BY <1>1, PromotionRecords, PromotionNames
<1>3. o \in Operations /\ Replayed(i) /\ o = "promote"
    BY <1>1, <1>2, PromotionNames DEF WorkRecords, WorkHolds, IntentHolds
<1>4. i \in Intents  BY <1>2, <1>3 DEF PageIntents, Replayed
<1>5. intents' = [intents EXCEPT ![p] = [intents[p] EXCEPT ![o] = [i EXCEPT !.state = "finalized"]]]
    BY <1>1, <1>2, <1>3 DEF PageIntents
<1>6. intents'[p] = [intents[p] EXCEPT ![o] = [i EXCEPT !.state = "finalized"]]
    BY <1>2, <1>5
<1>7. /\ [i EXCEPT !.state = "finalized"] \in Intents
      /\ [i EXCEPT !.state = "finalized"].receipt = i.receipt
    BY <1>4 DEF Intents
<1>8. /\ intents'[p] \in PageIntents /\ intents'[p]["promote"] \in Intents
      /\ intents'[p]["promote"].receipt = i.receipt
      /\ intents'[p]["rollback"] = intents[p]["rollback"]
    BY <1>2, <1>3, <1>6, <1>7, PromotionNames DEF PageIntents
<1>9. VaultTypeOK' /\ UNCHANGED <<versions, articles>>
    BY <1>1, <1>2 DEF VaultTypeOK, vaultVars
<1>10. Replayed(intents'[p]["promote"])
    BY <1>3, <1>8, PromotionNames DEF Replayed
<1>11. IntentHolds(p)'
    BY <1>2, <1>3, <1>8, <1>9 DEF IntentHolds, CanRestore, Replayed
<1>12. work[p].receipt \in Receipts /\ work[p].receipt.id = p /\ CanRestore(work[p].receipt)
    BY <1>1, <1>2 DEF WorkHolds, WorkRecords
<1>13. ASSUME NEW r \in pageReceipts' \ pageReceipts
       PROVE  r \in Receipts /\ r.id = p /\ CanRestore(r)'
  <2>1. r = work[p].receipt  BY <1>1
  <2>2. QED  BY <1>9, <1>12, <2>1 DEF CanRestore
<1>14. /\ work'[p] = Idle /\ work' = [work EXCEPT ![p] = work'[p]] /\ WorkHolds(p)'
    BY <1>1, PromotionEnds
<1>15. intents' = [intents EXCEPT ![p] = intents'[p]]  BY <1>5, <1>6
<1>16. QED
    BY <1>1, <1>2, <1>8, <1>9, <1>10, <1>11, <1>13, <1>14, <1>15, PromotionStepKeeps

LEMMA HandleDriftKeeps ==
    ASSUME PromotionInv, NEW p \in Promotions, HandleDrift(p)
    PROVE  PromotionInv'
<1>1. VaultTypeOK' /\ promoDeaths' \in 0 .. MaxPromoDeaths
    BY PromotionRecords DEF HandleDrift, VaultTypeOK
<1>2. QED  BY <1>1, PromotionEndKeeps DEF HandleDrift

LEMMA PromotionRefusedKeeps ==
    ASSUME PromotionInv, NEW p \in Promotions, PromotionRefused(p)
    PROVE  PromotionInv'
<1>1. VaultTypeOK' /\ promoDeaths' \in 0 .. MaxPromoDeaths /\ UNCHANGED <<versions, articles>>
    BY PromotionRecords DEF PromotionRefused, VaultTypeOK, vaultVars
<1>2. QED  BY <1>1, PromotionEndKeeps DEF PromotionRefused

LEMMA WorkerDiesKeeps ==
    ASSUME PromotionInv, NEW p \in Promotions, WorkerDies(p)
    PROVE  PromotionInv'
<1>1. VaultTypeOK' /\ UNCHANGED <<versions, articles>>
    BY PromotionRecords DEF WorkerDies, VaultTypeOK, vaultVars
<1>2. promoDeaths' \in 0 .. MaxPromoDeaths
    BY PromotionRecords, PromotionAssumption DEF WorkerDies
<1>3. QED  BY <1>1, <1>2, PromotionEndKeeps DEF WorkerDies

LEMMA WriteIntentKeeps ==
    ASSUME PromotionInv, NEW p \in Promotions, WriteIntent(p)
    PROVE  PromotionInv'
<1> DEFINE o == work[p].operation
           i == IF intents[p][o] = NoIntent
                THEN [state |-> "pending", digest |-> o, receipt |-> NoReceipt]
                ELSE intents[p][o]
           s == IF o = "promote" THEN "raw" ELSE "page"
<1>1. /\ work[p].stage = "intent" /\ GoTo(p, s)
      /\ intents' = [intents EXCEPT ![p][o] =
                        IF @ = NoIntent
                        THEN [state |-> "pending", digest |-> o, receipt |-> NoReceipt]
                        ELSE @]
      /\ UNCHANGED <<vaultVars, pageReceipts, promoDeaths>>
    BY DEF WriteIntent
<1>2. /\ work[p] \in WorkRecords /\ intents \in [Promotions -> PageIntents]
      /\ intents[p] \in PageIntents /\ IntentHolds(p) /\ WorkHolds(p) /\ VaultTypeOK
      /\ promoDeaths \in 0 .. MaxPromoDeaths
    BY <1>1, PromotionRecords, PromotionNames
<1>3. o \in Operations  BY <1>2 DEF WorkRecords
<1>4. i \in Intents /\ (Replayed(i) => Replayed(intents[p][o]))
  <2>1. [state |-> "pending", digest |-> o, receipt |-> NoReceipt] \in Intents
      BY <1>3 DEF Intents
  <2>2. CASE intents[p][o] = NoIntent  BY <2>1, <2>2 DEF Replayed
  <2>3. CASE intents[p][o] # NoIntent  BY <1>2, <1>3, <2>3 DEF PageIntents
  <2>4. QED  BY <2>2, <2>3
<1>5. Replayed(intents[p][o]) => i = intents[p][o]  BY DEF Replayed
<1>6. intents' = [intents EXCEPT ![p] = [intents[p] EXCEPT ![o] = i]]
    BY <1>1, <1>2, <1>3 DEF PageIntents
<1> HIDE DEF i
<1>7. intents'[p] = [intents[p] EXCEPT ![o] = i]  BY <1>2, <1>6
<1>8. /\ intents'[p] \in PageIntents
      /\ \A q \in Operations : Replayed(intents'[p][q]) <=> Replayed(intents[p][q])
      /\ \A q \in Operations : Replayed(intents[p][q]) => intents'[p][q] = intents[p][q]
    BY <1>2, <1>3, <1>4, <1>5, <1>7 DEF PageIntents
<1>9. VaultTypeOK' /\ UNCHANGED <<versions, articles>>
    BY <1>1, <1>2 DEF VaultTypeOK, vaultVars
<1>10. IntentHolds(p)'
    BY <1>2, <1>8, <1>9, PromotionNames DEF IntentHolds, CanRestore
<1>11. /\ work'[p] \in WorkRecords /\ work' = [work EXCEPT ![p] = work'[p]]
       /\ work'[p].stage = s /\ work'[p].operation = o
    BY <1>1, PromotionGoesTo, PromotionNames
<1>12. WorkHolds(p)'
    BY <1>1, <1>2, <1>8, <1>11, PromotionNames DEF WorkHolds
<1>13. intents' = [intents EXCEPT ![p] = intents'[p]]  BY <1>6, <1>7
<1>14. QED
    BY <1>1, <1>2, <1>8, <1>9, <1>10, <1>11, <1>12, <1>13, PromotionNames, PromotionStepKeeps

LEMMA WriteArticleKeeps ==
    ASSUME PromotionInv, NEW p \in Promotions, WriteArticle(p)
    PROVE  PromotionInv'
<1>1. /\ work[p].stage = "raw" /\ articles' = articles \cup {p} /\ GoTo(p, "meta")
      /\ UNCHANGED <<page, pointer, versions, metas, oneOrigin, drifts, catalogue, intents,
                     pageReceipts, promoDeaths>>
    BY DEF WriteArticle, AtStage
<1>2. VaultTypeOK'  BY <1>1, PromotionRecords DEF VaultTypeOK
<1>3. QED  BY <1>1, <1>2, PromotionNames, PromotionMoves

LEMMA WriteMetaKeeps ==
    ASSUME PromotionInv, NEW p \in Promotions, WriteMeta(p)
    PROVE  PromotionInv'
<1>1. /\ work[p].stage = "meta" /\ metas' = metas \cup {p} /\ GoTo(p, "version")
      /\ UNCHANGED <<page, pointer, versions, articles, oneOrigin, drifts, catalogue, intents,
                     pageReceipts, promoDeaths>>
    BY DEF WriteMeta, AtStage
<1>2. VaultTypeOK'  BY <1>1, PromotionRecords DEF VaultTypeOK, WorkHolds
<1>3. QED  BY <1>1, <1>2, PromotionNames, PromotionMoves

LEMMA KeepVersionKeeps ==
    ASSUME PromotionInv, NEW p \in Promotions, KeepVersion(p)
    PROVE  PromotionInv'
<1>1. /\ work[p].stage = "version" /\ work[p].operation = "promote"
      /\ versions' = versions \cup Kept(page)
      /\ work' = [work EXCEPT ![p].stage = "page", ![p].prior = page]
      /\ UNCHANGED <<page, pointer, articles, metas, oneOrigin, drifts, catalogue, intents,
                     pageReceipts, promoDeaths>>
    BY DEF KeepVersion, AtStage
<1>2. /\ work \in [Promotions -> {Idle} \cup WorkRecords] /\ work[p] \in WorkRecords
      /\ VaultTypeOK /\ WorkHolds(p) /\ promoDeaths \in 0 .. MaxPromoDeaths
    BY <1>1, PromotionRecords, PromotionNames
<1>3. VaultTypeOK' /\ page \in versions' \cup {NoText}
    BY <1>1, <1>2 DEF VaultTypeOK, Kept
<1>4. work'[p] = [work[p] EXCEPT !.stage = "page", !.prior = page]
      /\ work' = [work EXCEPT ![p] = work'[p]]
    BY <1>1, <1>2
<1>5. /\ work'[p] \in WorkRecords /\ work'[p].stage = "page" /\ work'[p].prior = page
      /\ work'[p].operation = "promote"
    BY <1>1, <1>2, <1>4, PromotionNames DEF WorkRecords, VaultTypeOK
<1>6. WorkHolds(p)'  BY <1>1, <1>2, <1>3, <1>5 DEF WorkHolds
<1>7. QED  BY <1>1, <1>2, <1>3, <1>4, <1>5, <1>6, VaultStepKeeps

LEMMA WritePageKeeps ==
    ASSUME PromotionInv, NEW p \in Promotions, WritePage(p)
    PROVE  PromotionInv'
<1>1. /\ work[p].stage = "page" /\ page' = p /\ GoTo(p, "pointer")
      /\ UNCHANGED <<pointer, versions, articles, metas, oneOrigin, drifts, catalogue, intents,
                     pageReceipts, promoDeaths>>
    BY DEF WritePage, AtStage
<1>2. VaultTypeOK'  BY <1>1, PromotionRecords DEF VaultTypeOK, Texts
<1>3. QED  BY <1>1, <1>2, PromotionNames, PromotionMoves

LEMMA WritePointerKeeps ==
    ASSUME PromotionInv, NEW p \in Promotions, WritePointer(p)
    PROVE  PromotionInv'
<1>1. /\ work[p].stage = "pointer" /\ pointer' = [text |-> p, known |-> FALSE]
      /\ GoTo(p, "catalogue")
      /\ UNCHANGED <<page, versions, articles, metas, oneOrigin, drifts, catalogue, intents,
                     pageReceipts, promoDeaths>>
    BY DEF WritePointer, AtStage
<1>2. VaultTypeOK'  BY <1>1, PromotionRecords DEF VaultTypeOK, Texts
<1>3. QED  BY <1>1, <1>2, PromotionNames, PromotionMoves

LEMMA CatalogueKeeps ==
    ASSUME PromotionInv, NEW p \in Promotions, Catalogue(p)
    PROVE  PromotionInv'
<1>1. /\ work[p].stage = "catalogue" /\ GoTo(p, "signed")
      /\ catalogue' = [text |-> page, log |-> catalogue.log \cup {<<work[p].operation, p>>}]
      /\ UNCHANGED <<page, pointer, versions, articles, metas, oneOrigin, drifts, intents,
                     pageReceipts, promoDeaths>>
    BY DEF Catalogue
<1>2. work[p].operation \in Operations
    BY <1>1, PromotionRecords, PromotionNames DEF WorkRecords
<1>3. catalogue.log \cup {<<work[p].operation, p>>} \in SUBSET (Operations \X Promotions)
    BY <1>2, PromotionRecords DEF VaultTypeOK
<1>4. VaultTypeOK'  BY <1>1, <1>3, PromotionRecords DEF VaultTypeOK
<1>5. QED  BY <1>1, <1>4, PromotionNames, PromotionMoves

LEMMA SignKeeps ==
    ASSUME PromotionInv, NEW p \in Promotions, Sign(p)
    PROVE  PromotionInv'
<1> DEFINE r == [operation |-> work[p].operation, id |-> p, prior |-> work[p].prior]
<1>1. /\ work[p].stage = "signed"
      /\ pointer' = IF work[p].operation = "promote" THEN [text |-> p, known |-> TRUE] ELSE pointer
      /\ work' = [work EXCEPT ![p].stage = "receipt", ![p].receipt = r]
      /\ UNCHANGED <<page, versions, articles, metas, oneOrigin, drifts, catalogue, intents,
                     pageReceipts, promoDeaths>>
    BY DEF Sign
<1>2. /\ work \in [Promotions -> {Idle} \cup WorkRecords] /\ work[p] \in WorkRecords
      /\ VaultTypeOK /\ WorkHolds(p) /\ promoDeaths \in 0 .. MaxPromoDeaths
    BY <1>1, PromotionRecords, PromotionNames
<1>3. VaultTypeOK'  BY <1>1, <1>2 DEF VaultTypeOK, Texts
<1>4. r \in Receipts /\ r # NoReceipt /\ r.id = p /\ r.operation = work[p].operation
      /\ r.prior = work[p].prior
  <2>1. r \in Receipts  BY <1>2 DEF WorkRecords, Receipts
  <2>2. NoReceipt.operation \notin Operations  BY PromotionNames DEF NoReceipt
  <2>3. r.operation \in Operations  BY <2>1 DEF Receipts
  <2>4. QED  BY <2>1, <2>2, <2>3
<1>5. CanRestore(r)  BY <1>1, <1>2, <1>4 DEF WorkHolds, CanRestore
<1> HIDE DEF r
<1>6. work'[p] = [work[p] EXCEPT !.stage = "receipt", !.receipt = r]
      /\ work' = [work EXCEPT ![p] = work'[p]]
    BY <1>1, <1>2
<1>7. work'[p] \in WorkRecords /\ work'[p].stage = "receipt" /\ work'[p].receipt = r
    BY <1>2, <1>4, <1>6, PromotionNames DEF WorkRecords
<1>8. WorkHolds(p)'  BY <1>1, <1>4, <1>5, <1>7 DEF WorkHolds, CanRestore
<1>9. QED  BY <1>1, <1>2, <1>3, <1>6, <1>7, <1>8, VaultStepKeeps

LEMMA RestoreKeeps ==
    ASSUME PromotionInv, NEW p \in Promotions, Restore(p)
    PROVE  PromotionInv'
<1>1. PICK r \in pageReceipts :
          /\ r.prior \in versions \cup {NoText} /\ page' = r.prior
          /\ work' = [work EXCEPT ![p].stage = "pointer", ![p].prior = r.prior]
    BY DEF Restore
<1>2. /\ work[p].stage = "page" /\ work[p].operation = "rollback"
      /\ UNCHANGED <<pointer, versions, articles, metas, oneOrigin, drifts, catalogue, intents,
                     pageReceipts, promoDeaths>>
    BY DEF Restore, AtStage
<1>3. /\ work \in [Promotions -> {Idle} \cup WorkRecords] /\ work[p] \in WorkRecords
      /\ VaultTypeOK /\ r.prior \in Texts /\ promoDeaths \in 0 .. MaxPromoDeaths
    BY <1>2, PromotionRecords, PromotionNames DEF Receipts
<1>4. VaultTypeOK'  BY <1>1, <1>2, <1>3 DEF VaultTypeOK
<1>5. work'[p] = [work[p] EXCEPT !.stage = "pointer", !.prior = r.prior]
      /\ work' = [work EXCEPT ![p] = work'[p]]
    BY <1>1, <1>3
<1>6. work'[p] \in WorkRecords /\ work'[p].stage = "pointer" /\ work'[p].operation = "rollback"
    BY <1>2, <1>3, <1>5, PromotionNames DEF WorkRecords
<1>7. WorkHolds(p)'  BY <1>6 DEF WorkHolds
<1>8. QED  BY <1>2, <1>3, <1>4, <1>5, <1>6, <1>7, VaultStepKeeps

LEMMA RestorePointerKeeps ==
    ASSUME PromotionInv, NEW p \in Promotions, RestorePointer(p)
    PROVE  PromotionInv'
<1> DEFINE known == work[p].prior # NoText
<1>1. /\ work[p].stage = "pointer" /\ GoTo(p, "catalogue")
      /\ pointer' = [text |-> work[p].prior, known |-> known]
      /\ UNCHANGED <<page, versions, articles, metas, oneOrigin, drifts, catalogue, intents,
                     pageReceipts, promoDeaths>>
    BY DEF RestorePointer, AtStage
<1>2. known \in BOOLEAN  OBVIOUS
<1> HIDE DEF known
<1>3. work[p].prior \in Texts
    BY <1>1, PromotionRecords, PromotionNames DEF WorkRecords
<1>4. VaultTypeOK'  BY <1>1, <1>2, <1>3, PromotionRecords DEF VaultTypeOK
<1>5. QED  BY <1>1, <1>4, PromotionNames, PromotionMoves

(* What the intent of the promotion becomes when it is written with a receipt. *)
LEMMA IntentSigned ==
    ASSUME PromotionInv, NEW p \in Promotions, NEW i \in Intents,
           i.receipt # NoReceipt, i.receipt.id = p, CanRestore(i.receipt),
           intents' = [intents EXCEPT ![p] = [intents[p] EXCEPT !["promote"] = i]],
           UNCHANGED versions
    PROVE  /\ intents'[p] \in PageIntents /\ intents' = [intents EXCEPT ![p] = intents'[p]]
           /\ Replayed(intents'[p]["promote"]) /\ IntentHolds(p)'
<1>1. /\ intents \in [Promotions -> PageIntents] /\ intents[p] \in PageIntents
      /\ IntentHolds(p)
    BY PromotionRecords
<1>2. intents'[p] = [intents[p] EXCEPT !["promote"] = i]  BY <1>1
<1>3. /\ intents'[p] \in PageIntents /\ intents'[p]["promote"] = i
      /\ intents'[p]["rollback"] = intents[p]["rollback"]
    BY <1>1, <1>2, PromotionNames DEF PageIntents
<1>4. i # NoIntent  BY PromotionNames
<1>5. Replayed(intents'[p]["promote"])  BY <1>3, <1>4 DEF Replayed
<1>6. IntentHolds(p)'
    BY <1>1, <1>3, <1>5 DEF IntentHolds, CanRestore
<1>7. QED  BY <1>2, <1>3, <1>5, <1>6

LEMMA SignIntentKeeps ==
    ASSUME PromotionInv, NEW p \in Promotions, SignIntent(p)
    PROVE  PromotionInv'
<1> DEFINE i == [state |-> "pending", digest |-> work[p].operation, receipt |-> work[p].receipt]
<1>1. /\ work[p].stage = "receipt" /\ GoTo(p, "stored")
      /\ intents' = [intents EXCEPT ![p]["promote"] = i]
      /\ UNCHANGED <<vaultVars, pageReceipts, promoDeaths>>
    BY DEF SignIntent
<1>2. /\ work[p] \in WorkRecords /\ intents \in [Promotions -> PageIntents]
      /\ intents[p] \in PageIntents /\ WorkHolds(p) /\ VaultTypeOK
      /\ promoDeaths \in 0 .. MaxPromoDeaths
    BY <1>1, PromotionRecords, PromotionNames
<1>3. VaultTypeOK' /\ UNCHANGED <<versions, articles>>
    BY <1>1, <1>2 DEF VaultTypeOK, vaultVars
<1>4. /\ i \in Intents /\ i.receipt = work[p].receipt
    BY <1>2 DEF WorkRecords, Intents
<1>5. i.receipt # NoReceipt /\ i.receipt.id = p /\ CanRestore(i.receipt)
    BY <1>1, <1>2, <1>4 DEF WorkHolds
<1> HIDE DEF i
<1>6. intents' = [intents EXCEPT ![p] = [intents[p] EXCEPT !["promote"] = i]]
    BY <1>1, <1>2
<1>7. /\ intents'[p] \in PageIntents /\ intents' = [intents EXCEPT ![p] = intents'[p]]
      /\ Replayed(intents'[p]["promote"]) /\ IntentHolds(p)'
    BY <1>3, <1>4, <1>5, <1>6, IntentSigned
<1>8. /\ work'[p] \in WorkRecords /\ work' = [work EXCEPT ![p] = work'[p]]
      /\ work'[p].stage = "stored" /\ work'[p].receipt = work[p].receipt
    BY <1>1, PromotionGoesTo, PromotionNames
<1>9. WorkHolds(p)'
    BY <1>1, <1>2, <1>3, <1>7, <1>8 DEF WorkHolds, CanRestore
<1>10. QED  BY <1>1, <1>2, <1>3, <1>7, <1>8, <1>9, PromotionStepKeeps

LEMMA StoreReceiptKeeps ==
    ASSUME PromotionInv, NEW p \in Promotions, StoreReceipt(p)
    PROVE  PromotionInv'
<1>1. /\ work[p].stage = "stored" /\ pageReceipts' = pageReceipts \cup {work[p].receipt}
      /\ GoTo(p, "final") /\ UNCHANGED <<vaultVars, intents, promoDeaths>>
    BY DEF StoreReceipt
<1>2. /\ work[p] \in WorkRecords /\ intents \in [Promotions -> PageIntents]
      /\ intents[p] \in PageIntents /\ IntentHolds(p) /\ WorkHolds(p) /\ VaultTypeOK
      /\ promoDeaths \in 0 .. MaxPromoDeaths
    BY <1>1, PromotionRecords, PromotionNames
<1>3. VaultTypeOK' /\ UNCHANGED <<versions, articles>>
    BY <1>1, <1>2 DEF VaultTypeOK, vaultVars
<1>4. work[p].receipt \in Receipts /\ work[p].receipt.id = p /\ CanRestore(work[p].receipt)
    BY <1>1, <1>2 DEF WorkHolds, WorkRecords
<1>5. Replayed(intents[p]["promote"])  BY <1>1, <1>2 DEF WorkHolds
<1>6. ASSUME NEW r \in pageReceipts' \ pageReceipts
      PROVE  r \in Receipts /\ r.id = p /\ CanRestore(r)'
  <2>1. r = work[p].receipt  BY <1>1
  <2>2. QED  BY <1>3, <1>4, <2>1 DEF CanRestore
<1>7. /\ work'[p] \in WorkRecords /\ work' = [work EXCEPT ![p] = work'[p]]
      /\ work'[p].stage = "final"
    BY <1>1, PromotionGoesTo, PromotionNames
<1>8. WorkHolds(p)'  BY <1>1, <1>5, <1>7 DEF WorkHolds
<1>9. IntentHolds(p)'  BY <1>1, <1>2, <1>3 DEF IntentHolds, CanRestore
<1>10. intents' = [intents EXCEPT ![p] = intents'[p]] /\ intents'[p] = intents[p]
    BY <1>1, <1>2
<1>11. QED
    BY <1>1, <1>2, <1>3, <1>5, <1>6, <1>7, <1>8, <1>9, <1>10, PromotionStepKeeps

LEMMA FinalizeKeeps ==
    ASSUME PromotionInv, NEW p \in Promotions, Finalize(p)
    PROVE  PromotionInv'
<1> DEFINE i == intents[p]["promote"]
           f == [i EXCEPT !.state = "finalized"]
<1>1. /\ work[p].stage = "final" /\ Ends(p)
      /\ intents' = [intents EXCEPT ![p]["promote"].state = "finalized"]
      /\ UNCHANGED <<vaultVars, pageReceipts, promoDeaths>>
    BY DEF Finalize
<1>2. /\ intents \in [Promotions -> PageIntents] /\ intents[p] \in PageIntents
      /\ IntentHolds(p) /\ WorkHolds(p) /\ VaultTypeOK
      /\ promoDeaths \in 0 .. MaxPromoDeaths
    BY PromotionRecords
<1>3. VaultTypeOK' /\ UNCHANGED <<versions, articles>>
    BY <1>1, <1>2 DEF VaultTypeOK, vaultVars
<1>4. Replayed(i)  BY <1>1, <1>2 DEF WorkHolds
<1>5. i \in Intents /\ i.receipt # NoReceipt /\ i.receipt.id = p /\ CanRestore(i.receipt)
    BY <1>2, <1>4, PromotionNames DEF Replayed, IntentHolds, PageIntents
<1>6. f \in Intents /\ f.receipt = i.receipt  BY <1>5 DEF Intents
<1>7. intents' = [intents EXCEPT ![p] = [intents[p] EXCEPT !["promote"] = f]]
    BY <1>1, <1>2, PromotionNames DEF PageIntents
<1> HIDE DEF f
<1>8. /\ intents'[p] \in PageIntents /\ intents' = [intents EXCEPT ![p] = intents'[p]]
      /\ Replayed(intents'[p]["promote"]) /\ IntentHolds(p)'
    BY <1>3, <1>5, <1>6, <1>7, IntentSigned
<1>9. /\ work'[p] = Idle /\ work' = [work EXCEPT ![p] = work'[p]] /\ WorkHolds(p)'
    BY <1>1, PromotionEnds
<1>10. QED  BY <1>1, <1>2, <1>3, <1>8, <1>9, PromotionStepKeeps

-----------------------------------------------------------------------------
LEMMA PromotionStep ==
    ASSUME PromotionInv, [PromotionNext]_promotionVars
    PROVE  PromotionInv'
<1>1. ASSUME NEW p \in Promotions, \E o \in Operations : Request(p, o)
      PROVE  PromotionInv'
    BY <1>1, RequestKeeps
<1>2. ASSUME NEW p \in Promotions,
             \/ Settle(p) \/ HandleDrift(p) \/ PromotionRefused(p) \/ WriteIntent(p)
             \/ WriteArticle(p) \/ WriteMeta(p) \/ KeepVersion(p) \/ WritePage(p) \/ WritePointer(p)
             \/ Catalogue(p) \/ Sign(p) \/ Restore(p) \/ RestorePointer(p)
             \/ SignIntent(p) \/ StoreReceipt(p) \/ Finalize(p) \/ WorkerDies(p)
      PROVE  PromotionInv'
    BY <1>2, SettleKeeps, HandleDriftKeeps, PromotionRefusedKeeps, WriteIntentKeeps,
       WriteArticleKeeps, WriteMetaKeeps, KeepVersionKeeps, WritePageKeeps, WritePointerKeeps,
       CatalogueKeeps, SignKeeps, RestoreKeeps, RestorePointerKeeps, SignIntentKeeps,
       StoreReceiptKeeps, FinalizeKeeps, WorkerDiesKeeps
<1>3. CASE UNCHANGED promotionVars
  <2>1. UNCHANGED <<page, pointer, versions, articles, metas, oneOrigin, drifts, catalogue,
                    intents, pageReceipts, work, promoDeaths>>
      BY <1>3 DEF promotionVars, vaultVars
  <2>2. PromotionTypeOK'  BY <2>1 DEF PromotionInv, PromotionTypeOK
  <2>3. \A p \in Promotions : IntentHolds(p)' /\ WorkHolds(p)'
      BY <2>1 DEF PromotionInv, IntentHolds, WorkHolds, CanRestore
  <2>4. ReceiptsHold'  BY <2>1 DEF PromotionInv, ReceiptsHold, CanRestore
  <2>5. QED  BY <2>2, <2>3, <2>4 DEF PromotionInv
<1>4. QED  BY <1>1, <1>2, <1>3 DEF PromotionNext

LEMMA PromotionAlways == PromotionSpec => []PromotionInv
BY PromotionInitially, PromotionStep, PTL DEF PromotionSpec

(* The state of the knowledge promotions has its type. *)
THEOREM PromotionTyped == PromotionSpec => []PromotionTypeOK
<1>1. PromotionInv => PromotionTypeOK  BY DEF PromotionInv
<1>2. QED  BY <1>1, PromotionAlways, PTL

(* For any promotions, overlaps and deaths, a page is not promoted again by a promotion
   that has a receipt, and the text a receipt says was replaced can be restored
   (knowledge-promotion.ts, writeCuratedPage, applyRollback). *)
THEOREM PageHistory == PromotionSpec => PageHistoryHolds
<1>1. PromotionInv => RollbackHasItsVersion
    BY DEF PromotionInv, ReceiptsHold, RollbackHasItsVersion, CanRestore
<1>2. ASSUME PromotionInv, NEW p \in Promotions, AtStage(p, "promote", "page"),
             NEW r \in pageReceipts, r.operation = "promote", r.id = p
      PROVE  FALSE
  <2>1. Replayed(intents[p]["promote"])  BY <1>2 DEF PromotionInv, ReceiptsHold
  <2>2. ~Replayed(intents[p]["promote"])  BY <1>2 DEF PromotionInv, WorkHolds, AtStage
  <2>3. QED  BY <2>1, <2>2
<1>3. PromotionInv /\ [PromotionNext]_promotionVars =>
          [\A p \in Promotions :
             AtStage(p, "promote", "page") /\ page' = p /\ work'[p] # Idle
                /\ work'[p].stage = "pointer"
             => \A r \in pageReceipts : ~(r.operation = "promote" /\ r.id = p)]_promotionVars
    BY <1>2
<1>4. QED
    BY <1>1, <1>3, PromotionAlways, PTL DEF PageHistoryHolds, PromotedOnce, PromotionSpec
=============================================================================
