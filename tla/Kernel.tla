------------------------------- MODULE Kernel -------------------------------
(***************************************************************************)
(* The lean kernel: goals, tickets and verification evidence in             *)
(* .ycm-harness/state.json, and the CLI commands over them                  *)
(* (cli/commands/goal.ts, ticket.ts, verify.ts) for the local backend.      *)
(*                                                                         *)
(* A command reads the whole state, awaits git, the closure gate and the    *)
(* verification command, and writes the whole state back (state/store.ts).  *)
(* Nothing locks the file: the model lets any number of commands overlap,   *)
(* and Serial restricts it to the one-at-a-time use the README assumes.     *)
(* The commits and edits of the agents that share the checkout happen at    *)
(* any time.                                                               *)
(***************************************************************************)
EXTENDS Naturals, Sequences

CONSTANTS Procs,        \* CLI invocations that may overlap
          Goals,
          Tickets,      \* names tickets may get
          Commits,      \* clean states of a checkout
          NoGoal,
          NoCommit,     \* the digest of a ticket that changes no code
          Dirty,        \* a checkout with uncommitted changes
          NoJob,
          GoalOf,       \* the goal a ticket is created under
          CodeChanged,  \* tickets created with --code-changed
          BlockedBy,    \* --blocked-by
          High,         \* goals of high assurance
          Commands,     \* the commands in use
          Serial,       \* whether commands run one at a time
          MaxEvidence

GoalCommands == {"goal create", "goal activate", "goal block", "goal verify",
                 "goal complete", "goal abandon", "goal enforce on",
                 "goal enforce off", "goal worktree init", "checkpoint"}

TicketCommands == {"ticket create", "ticket start", "ticket block",
                   "ticket submit", "ticket done", "verify run"}

ASSUME ConstantsAssumption ==
    /\ NoGoal \notin Goals
    /\ Dirty \notin Commits \cup {NoCommit}
    /\ GoalOf \in [Tickets -> Goals]
    /\ CodeChanged \subseteq Tickets
    /\ BlockedBy \in [Tickets -> SUBSET Tickets]
    /\ High \subseteq Goals
    /\ Commands \subseteq GoalCommands \cup TicketCommands
    /\ Serial \in BOOLEAN
    /\ MaxEvidence \in Nat

VARIABLES
    store,   \* the content of state.json
    tree,    \* what is checked out at each goal's evidence root
    step,    \* how far the command of each process is
    job      \* its arguments, the state it read and what it found out

vars == <<store, tree, step, job>>

GoalStatuses == {"none", "planning", "active", "verifying", "blocked", "done", "abandoned"}
TicketStatuses == {"none", "todo", "in_progress", "in_review", "done", "blocked", "cancelled"}

(* Evidence pointers are in the order of recorded_at. *)
Pointers == [ticket : Tickets,
             digest : Commits \cup {NoCommit},
             outcome : {"submitted", "pass", "fail"}]

GoalRecords == [status : GoalStatuses, enforced : BOOLEAN, worktree : BOOLEAN]

Stores == [goal : [Goals -> GoalRecords],
           active : Goals \cup {NoGoal},
           ticket : [Tickets -> TicketStatuses],
           evidence : Seq(Pointers)]

Checkouts == Commits \cup {Dirty}

Jobs == [command : GoalCommands \cup TicketCommands,
         subject : Goals \cup Tickets,
         mine : Stores,                \* the state the command read
         found : Checkouts,            \* the checkout its digest was taken from
         ran : Checkouts,              \* the checkout its verification ran on
         outcome : {"pass", "fail"}]

Steps == {"idle", "loaded", "checked", "ran"}

TypeOK ==
    /\ store \in Stores
    /\ tree \in [Goals -> Checkouts]
    /\ step \in [Procs -> Steps]
    /\ job \in [Procs -> Jobs \cup {NoJob}]
    /\ \A p \in Procs : step[p] # "idle" => job[p] \in Jobs

Init ==
    /\ store = [goal |-> [g \in Goals |-> [status |-> "none", enforced |-> FALSE, worktree |-> FALSE]],
                active |-> NoGoal,
                ticket |-> [t \in Tickets |-> "none"],
                evidence |-> <<>>]
    /\ tree \in [Goals -> Commits]
    /\ step = [p \in Procs |-> "idle"]
    /\ job = [p \in Procs |-> NoJob]

-----------------------------------------------------------------------------
(* Evidence. *)

Digest(t, checkout) == IF t \in CodeChanged THEN checkout ELSE NoCommit

(* submissionDigest throws on a dirty checkout. *)
CanDigest(t, checkout) == t \in CodeChanged => checkout # Dirty

Submitted(s, t) == \E i \in DOMAIN s.evidence : s.evidence[i].ticket = t

(* The latest pointer of the ticket: its submission_digest is the one that
   counts, whether a submission or a verification recorded it. *)
Latest(s, t) ==
    {i \in DOMAIN s.evidence :
        /\ s.evidence[i].ticket = t
        /\ \A j \in DOMAIN s.evidence : s.evidence[j].ticket = t => j <= i}

LatestDigest(s, t) == s.evidence[CHOOSE i \in Latest(s, t) : TRUE].digest

HasPass(s, t, d) ==
    \E i \in DOMAIN s.evidence :
        s.evidence[i] = [ticket |-> t, digest |-> d, outcome |-> "pass"]

CompletionEvidence(s, t) == Submitted(s, t) /\ HasPass(s, t, LatestDigest(s, t))

(* Mutant: a pass of what is checked out counts, whatever was submitted since. *)
BugFreshCompletionEvidence(s, t, checkout) ==
    /\ CanDigest(t, checkout)
    /\ HasPass(s, t, Digest(t, checkout))

FreshCompletionEvidence(s, t, checkout) ==
    /\ CompletionEvidence(s, t)
    /\ CanDigest(t, checkout)
    /\ Digest(t, checkout) = LatestDigest(s, t)

-----------------------------------------------------------------------------
(* A command reads the state ... *)

Mine(p) == job[p].mine

Subject(p) == job[p].subject

At(p, where, command) == step[p] = where /\ job[p].command = command

(* Ticket ids carry a hash of the time: a new one is known to nobody. *)
Unheard(t) ==
    /\ store.ticket[t] = "none"
    /\ \A p \in Procs : step[p] # "idle" => Mine(p).ticket[t] = "none" /\ Subject(p) # t

Known(s, g) == s.goal[g].status # "none"

(* What a command asks of the state it has just read; it ends at once, without
   a write, when the answer is no. *)
Accepts(s, command, x) ==
    /\ command = "goal create" => ~Known(s, x)
    /\ command \in GoalCommands \ {"goal create"} => Known(s, x)
    /\ command \in {"goal enforce on", "goal enforce off", "checkpoint"} => s.active = x
    /\ command = "goal enforce on" => x \in High
    /\ command = "ticket create" => Known(s, GoalOf[x]) /\ Unheard(x)
    /\ command \in TicketCommands \ {"ticket create"} => s.ticket[x] # "none"
    /\ command = "ticket start" /\ GoalOf[x] \in High => s.goal[GoalOf[x]].worktree
    /\ command = "verify run" => Submitted(s, x)

Load(p, command, subject) ==
    /\ step[p] = "idle"
    /\ Serial => \A q \in Procs : step[q] = "idle"
    /\ command \in Commands
    /\ Accepts(store, command, subject)
    /\ command \in {"ticket submit", "verify run"} => Len(store.evidence) < MaxEvidence
    /\ job' = [job EXCEPT ![p] =
                   [command |-> command, subject |-> subject, mine |-> store,
                    found |-> Dirty, ran |-> Dirty, outcome |-> "fail"]]
    /\ step' = [step EXCEPT ![p] = "loaded"]
    /\ UNCHANGED <<store, tree>>

(* ... and either ends without a write (an argument is refused, git or the
   closure gate fails, the process is killed) ... *)
End(p) ==
    /\ step' = [step EXCEPT ![p] = "idle"]
    /\ job' = [job EXCEPT ![p] = NoJob]
    /\ UNCHANGED tree

Abort(p) ==
    /\ step[p] # "idle"
    /\ End(p)
    /\ UNCHANGED store

(* ... or writes all of it back. *)
Save(p, s) ==
    /\ store' = s
    /\ End(p)

-----------------------------------------------------------------------------
(* goal commands *)

GoalCreate(p) ==
    LET s == Mine(p)
        g == Subject(p)
    IN  /\ At(p, "loaded", "goal create")
        /\ Save(p, [s EXCEPT !.goal[g] = [status |-> "active", enforced |-> FALSE,
                                          worktree |-> FALSE],
                             !.active = g])

(* Mutant: the goal becomes active but keeps its status. *)
BugGoalActivate(p) ==
    /\ At(p, "loaded", "goal activate")
    /\ Save(p, [Mine(p) EXCEPT !.active = Subject(p)])

GoalActivate(p) ==
    LET s == Mine(p)
        g == Subject(p)
    IN  /\ At(p, "loaded", "goal activate")
        /\ Save(p, [s EXCEPT !.goal[g].status = "active", !.active = g])

GoalBlock(p) ==
    LET s == Mine(p)
        g == Subject(p)
    IN  /\ At(p, "loaded", "goal block")
        /\ Save(p, [s EXCEPT !.goal[g].status = "blocked"])

GoalVerify(p) ==
    LET s == Mine(p)
        g == Subject(p)
    IN  /\ At(p, "loaded", "goal verify")
        /\ Save(p, [s EXCEPT !.goal[g].status = "verifying"])

(* goal complete and goal abandon *)
Finish(s, g, status) ==
    [s EXCEPT !.goal[g] = [@ EXCEPT !.status = status, !.enforced = FALSE],
              !.active = IF s.active = g THEN NoGoal ELSE s.active]

TicketsOf(s, g) == {t \in Tickets : GoalOf[t] = g /\ s.ticket[t] # "none"}

Completable(s, g, checkout) ==
    \A t \in TicketsOf(s, g) :
        /\ s.ticket[t] \in {"done", "cancelled"}
        /\ s.ticket[t] = "done" /\ t \in CodeChanged => FreshCompletionEvidence(s, t, checkout)

(* Mutant: goal complete trusts the status of its tickets. *)
BugGoalComplete(p) ==
    LET s == Mine(p)
        g == Subject(p)
    IN  /\ At(p, "checked", "goal complete")
        /\ \A t \in TicketsOf(s, g) : s.ticket[t] \in {"done", "cancelled"}
        /\ Save(p, Finish(s, g, "done"))

GoalComplete(p) ==
    LET s == Mine(p)
        g == Subject(p)
    IN  /\ At(p, "checked", "goal complete")
        /\ Completable(s, g, job[p].found)
        /\ Save(p, Finish(s, g, "done"))

GoalAbandon(p) ==
    LET s == Mine(p)
        g == Subject(p)
    IN  /\ At(p, "loaded", "goal abandon")
        /\ Save(p, Finish(s, g, "abandoned"))

GoalEnforceOn(p) ==
    LET s == Mine(p)
        g == Subject(p)
    IN  /\ At(p, "loaded", "goal enforce on")
        /\ Save(p, [s EXCEPT !.goal[g].enforced = TRUE])

GoalEnforceOff(p) ==
    LET s == Mine(p)
        g == Subject(p)
    IN  /\ At(p, "loaded", "goal enforce off")
        /\ Save(p, [s EXCEPT !.goal[g].enforced = FALSE])

(* From here on the goal's evidence root is the worktree. *)
GoalWorktreeInit(p) ==
    LET s == Mine(p)
        g == Subject(p)
    IN  /\ At(p, "loaded", "goal worktree init")
        /\ Save(p, [s EXCEPT !.goal[g].worktree = TRUE])

(* A checkpoint is added to a part of the state no other command reads; it
   stands for the wiki command that does the same. *)
Checkpoint(p) ==
    /\ At(p, "loaded", "checkpoint")
    /\ Save(p, Mine(p))

-----------------------------------------------------------------------------
(* ticket and verify commands *)

SetStatus(s, t, status) == [s EXCEPT !.ticket[t] = status]

TicketCreate(p) ==
    LET s == Mine(p)
        t == Subject(p)
    IN  /\ At(p, "loaded", "ticket create")
        /\ Save(p, SetStatus(s, t, "todo"))

TicketStart(p) ==
    LET s == Mine(p)
        t == Subject(p)
    IN  /\ At(p, "loaded", "ticket start")
        /\ Save(p, SetStatus(s, t, "in_progress"))

TicketBlock(p) ==
    LET s == Mine(p)
        t == Subject(p)
    IN  /\ At(p, "loaded", "ticket block")
        /\ Save(p, SetStatus(s, t, "blocked"))

(* submissionDigest reads the checkout; what the command makes of it follows
   after at least one more await. *)
ReadCheckout(p) ==
    /\ step[p] = "loaded"
    /\ job[p].command \in {"goal complete", "ticket submit", "ticket done", "verify run"}
    /\ LET g == IF job[p].command = "goal complete" THEN Subject(p) ELSE GoalOf[Subject(p)]
       IN  job' = [job EXCEPT ![p].found = tree[g]]
    /\ step' = [step EXCEPT ![p] = "checked"]
    /\ UNCHANGED <<store, tree>>

Pointer(t, d, outcome) == [ticket |-> t, digest |-> d, outcome |-> outcome]

AddEvidence(s, e) == [s EXCEPT !.evidence = Append(@, e)]

(* Mutant: a submission replaces the evidence of the ticket's earlier ones. *)
BugTicketSubmit(p) ==
    LET s == Mine(p)
        t == Subject(p)
    IN  /\ At(p, "checked", "ticket submit")
        /\ CanDigest(t, job[p].found)
        /\ Save(p, [s EXCEPT !.ticket[t] = "in_review",
                             !.evidence = Append(SelectSeq(s.evidence, LAMBDA e : e.ticket # t),
                                                 Pointer(t, Digest(t, job[p].found), "submitted"))])

TicketSubmit(p) ==
    LET s == Mine(p)
        t == Subject(p)
    IN  /\ At(p, "checked", "ticket submit")
        /\ CanDigest(t, job[p].found)
        /\ Save(p, AddEvidence(SetStatus(s, t, "in_review"),
                               Pointer(t, Digest(t, job[p].found), "submitted")))

DependenciesDone(s, t) == \A d \in BlockedBy[t] : s.ticket[d] = "done"

TicketDone(p) ==
    LET s == Mine(p)
        t == Subject(p)
    IN  /\ At(p, "checked", "ticket done")
        /\ FreshCompletionEvidence(s, t, job[p].found)
        /\ DependenciesDone(s, t)
        /\ Save(p, SetStatus(s, t, "done"))

(* verify run: the submission is current; the command runs on whatever the
   checkout holds by now. *)
VerifyExecute(p) ==
    LET s == Mine(p)
        t == Subject(p)
    IN  /\ At(p, "checked", "verify run")
        /\ CanDigest(t, job[p].found)
        /\ Digest(t, job[p].found) = LatestDigest(s, t)
        /\ \E outcome \in {"pass", "fail"} :
              job' = [job EXCEPT ![p] = [@ EXCEPT !.ran = tree[GoalOf[t]], !.outcome = outcome]]
        /\ step' = [step EXCEPT ![p] = "ran"]
        /\ UNCHANGED <<store, tree>>

(* Mutant: the outcome is recorded but does not decide the status. *)
BugVerifyRecord(p) ==
    LET s == Mine(p)
        t == Subject(p)
    IN  /\ At(p, "ran", "verify run")
        /\ DependenciesDone(s, t)
        /\ Save(p, AddEvidence(SetStatus(s, t, "done"),
                               Pointer(t, LatestDigest(s, t), job[p].outcome)))

(* Mutant: setStatus does not look at blocked_by. *)
BugVerifyBlocked(p) ==
    LET s == Mine(p)
        t == Subject(p)
        passed == job[p].outcome = "pass"
    IN  /\ At(p, "ran", "verify run")
        /\ Save(p, AddEvidence(SetStatus(s, t, IF passed THEN "done" ELSE "in_progress"),
                               Pointer(t, LatestDigest(s, t), job[p].outcome)))

(* verify run: the evidence pointer gets the digest of the submission. *)
VerifyRecord(p) ==
    LET s == Mine(p)
        t == Subject(p)
        passed == job[p].outcome = "pass"
    IN  /\ At(p, "ran", "verify run")
        /\ passed => DependenciesDone(s, t)
        /\ Save(p, AddEvidence(SetStatus(s, t, IF passed THEN "done" ELSE "in_progress"),
                               Pointer(t, LatestDigest(s, t), job[p].outcome)))

-----------------------------------------------------------------------------
(* Agents edit, commit or check out something else. *)
Work(g) ==
    /\ \E c \in Checkouts : tree' = [tree EXCEPT ![g] = c]
    /\ UNCHANGED <<store, step, job>>

LoadSome(p) ==
    \/ \E c \in GoalCommands, g \in Goals : Load(p, c, g)
    \/ \E c \in TicketCommands, t \in Tickets : Load(p, c, t)

Command(p) ==
    \/ LoadSome(p) \/ Abort(p)
    \/ GoalCreate(p) \/ GoalActivate(p) \/ GoalBlock(p) \/ GoalVerify(p)
    \/ GoalComplete(p) \/ GoalAbandon(p) \/ GoalEnforceOn(p) \/ GoalEnforceOff(p)
    \/ GoalWorktreeInit(p) \/ Checkpoint(p)
    \/ ReadCheckout(p)
    \/ TicketCreate(p) \/ TicketStart(p) \/ TicketBlock(p) \/ TicketSubmit(p)
    \/ TicketDone(p) \/ VerifyExecute(p) \/ VerifyRecord(p)

Next == (\E p \in Procs : Command(p)) \/ (\E g \in Goals : Work(g))

Spec == Init /\ [][Next]_vars

-----------------------------------------------------------------------------
(* The Stop hook (hooks/stop.ts) reads the same state. *)

OpenStatuses == {"planning", "active", "verifying", "blocked"}

(* A done code ticket needs some pass; of which submission is not asked. *)
NeedsAttention(s, t) ==
    \/ s.ticket[t] \in {"todo", "in_progress", "in_review"}
    \/ /\ s.ticket[t] = "done"
       /\ t \in CodeChanged
       /\ ~\E d \in Commits \cup {NoCommit} : HasPass(s, t, d)

(* The active goal, or any that is open when none is active. *)
StopGoals(s) ==
    IF s.active # NoGoal THEN {s.active}
    ELSE {g \in Goals : s.goal[g].status \in OpenStatuses}

StopMayBlock(s, g) ==
    /\ g \in StopGoals(s)
    /\ s.goal[g].status \in OpenStatuses \ {"blocked"}
    /\ g \in High
    /\ s.goal[g].enforced
    /\ \E t \in TicketsOf(s, g) : NeedsAttention(s, t)

-----------------------------------------------------------------------------
(* Properties. *)

(* A ticket that is stored as done comes with a passing verification of its
   latest submission, in the same file: commands that overwrite each other lose
   work, but never separate a status from the evidence it rests on. *)
DoneHasEvidence ==
    \A t \in Tickets : store.ticket[t] = "done" => CompletionEvidence(store, t)

(* The active goal is an open one, however goal commands overlap: the Stop
   hook looks at no other goal while one is active, so a finished one would
   switch the enforcement of all others off. *)
ActiveIsOpen ==
    store.active # NoGoal => store.goal[store.active].status \in OpenStatuses

(* The Stop hook of an enforced goal holds the session while a submission of a
   code ticket has not passed.  The hook itself asks a done ticket only for some
   pass, of whatever submission. *)
StopHoldsUnverified ==
    \A g \in High, t \in CodeChanged :
        /\ store.active = g
        /\ store.goal[g].enforced
        /\ store.goal[g].status \in {"active", "verifying"}
        /\ t \in TicketsOf(store, g)
        /\ Submitted(store, t)
        /\ ~CompletionEvidence(store, t)
        /\ store.ticket[t] \notin {"blocked", "cancelled"}
        => StopMayBlock(store, g)

(* With commands that do not overlap, a goal is completed only when its
   tickets are finished, the latest submission of each code ticket passed, and
   that submission is what the completing command found checked out. *)
CompletedOnEvidence ==
    [][\A g \in Goals :
          store.goal[g].status # "done" /\ store'.goal[g].status = "done" =>
              \A t \in TicketsOf(store', g) :
                  /\ store'.ticket[t] \in {"done", "cancelled"}
                  /\ store'.ticket[t] = "done" /\ t \in CodeChanged =>
                        /\ CompletionEvidence(store', t)
                        /\ \E p \in Procs : step[p] = "checked" /\ job[p].found = LatestDigest(store', t)]_vars

(* With commands that do not overlap, a ticket is done only after the tickets
   that block it, whether ticket done or verify run closes it. *)
DoneAfterDependencies ==
    [][\A t \in Tickets :
          store.ticket[t] # "done" /\ store'.ticket[t] = "done" =>
              \A d \in BlockedBy[t] : store'.ticket[d] = "done"]_vars

(* With commands that do not overlap, evidence is only ever added: failed
   verifications, resubmissions and restarts keep what was recorded. *)
EvidenceKept ==
    [][/\ Len(store'.evidence) >= Len(store.evidence)
       /\ \A i \in DOMAIN store.evidence : store'.evidence[i] = store.evidence[i]]_vars

(* A verification that is about to be recorded as a pass ran on the checkout
   whose digest it is recorded for (README.md:66: passing evidence binds to the
   submitted digest). *)
PassRanOnItsDigest ==
    \A p \in Procs :
        At(p, "ran", "verify run") /\ job[p].outcome = "pass" /\ Subject(p) \in CodeChanged =>
            job[p].ran = job[p].found

(* A ticket whose latest verification failed is not completed
   (docs/lean-0.3.md:86: completion rejects failing evidence). *)
FailingEvidenceRejected ==
    [][\A t \in Tickets :
          store.ticket[t] # "done" /\ store'.ticket[t] = "done" =>
              \E j \in DOMAIN store'.evidence :
                  /\ store'.evidence[j].ticket = t /\ store'.evidence[j].outcome = "pass"
                  /\ \A k \in DOMAIN store'.evidence :
                        k > j /\ store'.evidence[k].ticket = t => store'.evidence[k].outcome # "fail"]_vars
=============================================================================
