# A verification project for ycm-harness

ycm-harness gives coding agents a durable memory: goals, tickets and
verification evidence in `.ycm-harness/state.json`, follow-up tickets on a
remote tracker, and scheduled loops that act on them. This directory holds TLA+
models of its state machines, TLC configurations that check them on small
instances, and TLAPS proofs for every size.

Paths below are relative to the repository (`src/...` is its TypeScript source).

## The system

Every part is a short-lived Node process: a CLI command, a hook of the agent's
host (Stop, SessionStart, PostToolUse), or a scheduled run. They share no memory,
only files, git and a remote tracker. There are two disciplines for the files:

* The **lean kernel** (`src/cli/commands/*`, `src/tickets/*`, `src/state/*`)
  reads `state.json` whole, awaits git, GitHub and user commands, and writes it
  back whole with a temporary file and a rename. Nothing is locked; the
  repository's README says the harness assumes serial use.
* The **autonomy stores** (`src/autonomy/*`, `src/continuation/*`) keep one file
  per record under `.ycm-harness/autonomy` and do everything under the
  filesystem lease of `src/autonomy/coordination.ts`.

### Inventory

| Component | State it keeps | Operations | Called by | Hard because | Correct when |
|---|---|---|---|---|---|
| Filesystem lease (`autonomy/coordination.ts` 1016-1180) | lock directory, claim in it, one owner file per attempt | acquire (with takeover of released, dead and expired leases), heartbeat, release | every autonomy store | only mkdir and rename are atomic; crashes, stalls, several hosts | a holder loses the lease to a takeover only, and never regains it; a fenced call starts only under a valid claim; nothing stays locked for ever |
| Continuations (`coordination.ts` 934-1451) | one record per stable key | ensure, retry | strategic review, Stop hook, `autonomy` commands | remote calls fail, arrive late or twice, answers are lost; the lease may be taken away | a verified record names a ticket made for it; identities are not forgotten; retries converge |
| Coordination binding (`coordination.ts` 823-916) | binding file | bind, verify | `autonomy` commands | remote readbacks | a bound destination was read back |
| Kernel commands (`cli/commands/goal.ts`, `ticket.ts`, `verify.ts`, `checkpoint.ts`) | goals, tickets, evidence pointers, active goal | create, activate, block, verify, complete, abandon, enforce, worktree; create, start, block, submit, done; verify run | agents | overlapping commands; agents commit while a verification runs | done means the latest submission passed; dependencies first; evidence is kept |
| Ticket backends (`tickets/provider.ts`) | local rows, or GitHub / Multica issues | list, get, create, setStatus, addEvidence | kernel commands | several remote calls per operation, readbacks | mutations are idempotent; a failure leaves no local claim |
| Stop hook (`hooks/stop.ts`) | none | decide to block; persist follow-ups | agent host | reads state another session writes | unverified work of an enforced goal holds the session |
| Session claims (`state/session-claims.ts`) | claims with a time to live | claim, refresh, release, resolve | nothing yet | expiry | two sessions do not share a goal by accident |
| Installed loop state (`autonomy/installed-loop-state.ts`) | loop state, intents, history | pause, unpause, restore | strategic action | crash between intent and state, replay, ABA of state versions | an action takes effect once |
| Strategic action (`autonomy/strategic-action.ts`) | intents, receipts | apply, recover, roll back | strategic review | external mutation between two local writes | receipt if and only if the mutation was read back |
| Strategic review (`autonomy/strategic-review.ts`) | reviews, decisions | review, continue | scheduler | evidence, ticket and other reviews move between its stages | a stored report has the audit and the tracked ticket it claims |
| Missed-slot watchdog (`autonomy/missed-slot-watchdog.ts`) | its state, the gap issue | tick, enable, disable | scheduler | crash between tracker and state, receipts written while it looks | one agreed live gap |
| Natural schedules (`autonomy/hk-natural-schedules.ts`) | slot and workflow receipts, keys, published origin, projections, signed record | run a slot, grade a day, install, sign | scheduler | dies between any two of its files; a key pair is two files | a cycle is graded complete for slots that ran by themselves; what is signed verifies with the published key |
| Continuation audit, shadow, closure (`continuation/*`) | content-addressed records, index, observations | persist, rebuild, observe, gate | scheduled finalizer, kernel | nested leases, crash between record and index | a delivered PASS stays admissible to the closure gate; the index is a function of the records |
| Deeds (`autonomy/deeds.ts`) | deed files, pointer, follow-ups | post-tool-use, record, persist | hooks | hooks overlap, are repeated and die, midnight passes | each deed is an event or in quarantine, once; a page lists events that are there |
| PM loop (`autonomy/pm.ts`) | PM records, hand-offs | prepare, hand off, review, status | scheduler | invocations overlap on one board that people edit; a review remembers what it read before its lease | one worker per prepared ticket; a gate that passed was earned |
| Knowledge promotion (`autonomy/knowledge-promotion.ts`) | raw articles, pages, pointers, versions, intents, receipts | promote, roll back | `autonomy` commands | nine writes in a row, leases per promotion and not per page | a promotion takes effect once; the version to go back to is kept |
| PM canary (`autonomy/pm-installed-canary.ts`, `pinned-local-artifact-store.ts`) | artifacts, staged records, index | run | `autonomy` commands | no lease, partly written files | all of it or nothing is reported |
| Origins of schedulers and actors (`autonomy/pm-scheduler-origin.ts`, `pm-actor-origin.ts`) | manifest, record, signature | read and authenticate | PM loop, strategic review | the files are replaced while they are read | what is returned was signed by the key of one manifest |
| Enforcement rollback (`autonomy/enforcement-rollback.ts`) | baselines, state, package | capture, disable, re-enable | operators | crash between baseline and state | re-enabling restores what was enabled |
| Finalizer, mutation proof, cost policy (`continuation/*`) | mutation records | check a response, record a mutation, evaluate a trace | scheduled finalizer | tickets move while it reads | a PASS is covered, open and proved |
| Scout, strategic canary, parity | none | validation of inputs and proofs | scheduler | pure | - |
| Migration (`migration/disk.ts`, `rename.ts`) | `state.json`, `legacy/v2`, `.migration-v3.tmp` | migrateOnDisk, rename of the former directory | any lean command that finds V2 state | a death or failure between two renames, a retry, V2 commands in between, two calls at once | the V2 bytes are never lost; V3 stands beside their archive; a failure leaves all as it was |
| Legacy V2 workflow, wiki, hooks' capsules, installation | old state, pages, config | | | mostly text and file copying | - |

`PROJECT.json` lists every component with its status, and every hazard with the
line where it bites and the properties aimed at it.

## Modules

| Module | Models | Uses |
|---|---|---|
| `FencedLock` | what the lease promises, without files or clocks | |
| `Lease` | `acquireContinuationLock`, `staleLock`, heartbeat, release | `FencedLock` (refined) |
| `Lease_proofs` | theorems about `Lease` | `Lease` |
| `Continuation` | `ensureContinuation`, `retryContinuations` for one key | `FencedLock` (as its lease) |
| `Continuation_proofs` | theorems about `Continuation` | `Continuation` |
| `Kernel` | goal, ticket and verify commands over `state.json`, the Stop decision | |
| `Kernel_proofs` | theorems about `Kernel` | `Kernel` |
| `InstalledLoop` | `setPaused` with restore targets, intents and history | |
| `InstalledLoop_proofs` | theorems about `InstalledLoop` | `InstalledLoop` |
| `StrategicAction` | `apply` with replay, recovery, readback, receipts, rollback | `InstalledLoop` (as its loop adapter) |
| `StrategicAction_proofs` | theorems about `StrategicAction` | `StrategicAction`, `InstalledLoop_proofs` |
| `Watchdog` | slots and receipts of a day, `tickWatchdog`, `runNaturalSlot`, `gradeNaturalCycle` | |
| `HkSchedules` | installation of the schedules and signing of the scheduler origin | |
| `ShadowStore` | audits, shadow records and the closure gate | |
| `CostPolicy` | `evaluateExecutionPolicy` | |
| `Finalizer` | `finalizeContinuationLedgerLive`, mutation records | |
| `EnforcementRollback` | baseline, disable, re-enable | |
| `KnowledgePromotion` | promote and roll back a page | |
| `PinnedCommit` | the PM canary's transaction of files | |
| `PmLoop` | prepare, hand-off, review, status | |
| `OriginReads` | guarded reading of manifests, records and signatures | |
| `StrategicReview` | evaluation, integrity follow-up, audit, report, replay | |
| `Deeds` | post-tool-use and Stop hooks, follow-ups, pointer | |
| `GitHubTickets` | the GitHub backend of the tickets | |
| `MulticaTickets` | the Multica backend of the tickets | |
| `Migration` | `migrateOnDisk`: archive, commit, undo, retry | |
| `Tickets_proofs` | theorems about `MulticaTickets`, `GitHubTickets`, `Finalizer`, `CostPolicy`, `PmLoop` | these |
| `Records_proofs` | theorems about `HkSchedules`, `Watchdog`, `OriginReads`, `ShadowStore`, `EnforcementRollback`, `Migration`, `PinnedCommit`, `KnowledgePromotion` | these |
| `Stores_proofs` | theorems about `StrategicReview`, `Deeds`, and about all components of the run `stores` together | `MCStores`, `Tickets_proofs`, `Records_proofs` |
| `MCLease`, `MCContinuation`, `MCKernel`, `MCStrategicAction`, `MCStores` | instances for TLC | |

### Lease

State: `ownerFile[n]` is the file `<key>.lock.<n>.owner.json`; `lockDir` the
directory `<key>.lock`, identified by the attempt that created it; `claim` the
nonce in its `owner.json`; `moved` the directories in `stale-locks`. Each
process has a program counter with one label per await that touches a shared
file: `Attempt` writes the owner file, `Mkdir` creates the directory or fails
with EEXIST, `ClaimDir` and `ClaimRename` are the two halves of
`writeJsonAtomic(claimFile)` (its `ensureDir` can re-create a directory that was
moved away), `ReadClaim`, `ReadOwner`, `Judge` are the waiter's reads and its
decision, `Move` and `Retire` are `staleLock`, and `Heartbeat`,
`HeartbeatWrite`, `HeartbeatReread`, `CallDone`, `Release` the lease in use.
`Crash` kills a process anywhere; `Tick` lets time pass for all timestamps.

Abstractions: nonces come from a finite pool and are reused once nothing
mentions them (as a UUID, a new one equals nothing in sight); `MCLease` defines
`PoolSuffices`, which holds of the pools of `lease_overlap` and
`lease_reclaim`, so these stand for unlimited ones. `lease_three` would need a
sixth nonce for that and has five, for speed: with six it has 562 states more
(of 1,328,042), and the same properties hold. Ages saturate at twice the lease, the largest bound the code
compares with. Clock skew between hosts and pid reuse are not modelled; malformed
JSON in claim or owner file is not, because nothing writes one. `Tick` between
mkdir and the claim write is allowed only where `MayStall` says so.

`FencedLock` is deliberately not a mutex: the code does not implement one (see
finding 1). It says that entering makes one process the valid holder, that
losing validity is final, and that a fenced call starts only while valid. A call
may outlive its fence.

### Continuation

State: the record of one key, the tracker's tickets that carry the key, create
requests still in flight from senders that are gone (`late`), the lease
(variables of `FencedLock`), and per worker a program counter and the locals of
`ensureContinuation` (`job`). Steps follow the code: acquire; read the stored
record (other contract: `continuation_conflict`); write it as pending; heartbeat
and create; record the identity (conflict keeps the recorded one); heartbeat and
get, compare; metadata set and list, with the policy deciding what a failure
means; last heartbeat; write verified. Each write has its readback
(`Write`, `Reread`); the heartbeat in front of every remote call is `Beat`.

Abstractions: request texts become `Contracts` (requests that share a key and
differ elsewhere); a ticket's mutable part is as created, progressed by its users
or rewritten. The tracker is external and is taken to honour the idempotency
key. Faults - an outage, a lost or incomplete answer, a late request, a crash, a
foreign create, a meddling user - draw on `MaxFaults`, the one bound of the
model. Progress by the tracker's users is not a fault and is not counted.

### Kernel

State: `store` is `state.json` (per goal its status, `stop_enforcement` and
whether it has a worktree; the active goal; ticket statuses; the evidence
pointers in order), `tree` what is checked out at each goal's evidence root,
`step` and `job` the running commands. A command loads the state (`Load`, with
the refusals that depend on it), and then either ends without a write (`Abort`:
git failed, the closure gate refused, the process was killed) or writes the
whole state derived from what it read (`Save`). Commands that take a digest read
the checkout in a step of its own (`ReadCheckout`), and `verify run` executes the
command in another (`VerifyExecute`), because other processes run in between.
`Work` is the agents' edits and commits, at any time. `StopMayBlock` is
`buildStopHookOutput`.

Abstractions: a digest is the clean checkout it was taken from, or `NoCommit`
for tickets that change no code; acceptance texts do not change (no command
changes them). `recorded_at` is the order of the pointers: a chain of writes
only ever appends. `goal complete` takes the digest of each code ticket one
after the other; the model takes one for all, which is exact with at most one
code ticket per goal and otherwise leaves out a commit in between. Events
(`events.jsonl`), `active_ticket_id`, titles and texts are left out.

### InstalledLoop

State: `live` is the loop's state file, `loopIntent[a]` the intent of action `a`,
`history` the history entries, `call[p]` and `loopPc[p]` the call of process `p`
and how far it is. A caller hands over arguments (`Call`) and takes the outcome
(`Return`). In between there is one step per file operation: `Acquire`,
`ReadLoopIntent`, then either `Compare` for a replay or `Plan` and `Announce` for
a first call, `AttemptLoop`, `WriteLive`, and `finalizeIntent` as `WriteHistory`
and `FinalizeLoop`. A call fails (`FailLoop`) or its process dies (`DieInLoop`)
between any two of them.

Abstractions: a state version hashes the previous version, the flag and the
action, so it is the sequence of what was hashed, and comparing digests is
comparing states. The loop's lease is taken to be exclusive; what happens when it
is not is finding 1. `readInstalledLoopState` changes nothing. `took`, the actions
whose write changed the state, is auxiliary.

### StrategicAction

State: `intents[a]` and `receipts` are the files of an action; `ticket` is the one
remote ticket that comments and priorities go to, `issues` the tickets that carry
the root cause of a finding; the loop is `InstalledLoop`'s. `apply` is followed
label by label: `Apply` (the request, made from a live read or repeated from the
intent), `Enter` (the lease of the action identity), `Replay`, `Recover`, `Check`
(the live reads with which `applyTicketOwner`, `applyTicketMutation`,
`applyLoopPause` and `applyRollback` begin), `Pend`, `Attempt`, `Mutate` or the
adapter's steps, `ReadBack`, then `Mint`, `Store`, `Finish` of
`persistFinalReceipt`, or `StopShort` for a partial or blocked intent.
`UserEdits` are the tracker's users.

What each comparison of states looks at follows the code: a readback of a ticket
ignores its status, one of the loop looks at the pause flag only, and the
comparisons before a change and of a rollback look at everything.

Abstractions: requests are authenticated before anything here happens, and
mutation proofs and the `status` operation leave the modelled files alone. A
search and the exact read of what it found are one step. Crashes, failed calls,
lost answers and users' interference draw on `MaxFaults`, the one bound.

Behaviours the code has that no property here claims otherwise (each is a hazard
in `PROJECT.json`): two pauses of one loop can both get a receipt for one change,
because the readback compares the flag alone (`strategic-action.ts:1094`), and a
rollback of one then undoes what the other's receipt claims; and a pause that
changed the loop, crashed before its receipt and was rolled back through another
action's receipt finds the loop as it was before it and pauses it again on replay.

### The components around the loop

Fifteen modules, one per component, over files that no other component writes.
`MCStores` runs them one at a time (`part` names the one a behaviour is of). In
each, an action is one write or one remote call of the code, a process that dies
keeps what it wrote, and what other programs do to the same files or tickets is
an action too. The behaviours named at the end of a section are the code's; no
property claims otherwise.

**Watchdog.** The clock counts phases of a day; a slot is due when its phase is
over. `RunSlot`, `WriteSlotReceipt`, `WriteScoutPointer`, `FinishSlot` are the
natural runner, `RecordByHand` the operator's receipt; `TickObserve` reads what is
missed and finds the live gap, `TickConflicts`, `TickActs`, `TickSaves` are the
rest of the tick, `GradeDay` and `GradeOpensGap` the grading. Receipts are written
while a tick is between its steps. `OneAgreedGap`: at most one gap is open, and
the state and a fresh search agree on it. The grading takes no lease, so in the
code it and a tick can both search in vain and open two gaps. Searching and opening
are one step here (`CreateOrUpdate`), which is right only while the two do not
overlap (`GradeOverlaps`, off in the run and in the theorem); a tick that died and a
grading after it can leave the watchdog in `watchdog_gap_conflict` until somebody
intervenes, which is why agreement is claimed while nobody died.

**HkSchedules.** Installing and signing are lists of stages, one per file, and die
between any two. `SignedByPublishedKey`: a signature that is there was made with
the key pair whose public half is in both its file and the published origin.

**ShadowStore.** `auditFiles` and `shadowFiles` are the two directories,
`auditIndex` and `auditJsonl` the projections. A record's name contains its time and
its identity does not, so two records of one audit are possible; readers then
refuse the directory. `DeliveredPassCloses`: the closure gate accepts every
verdict PASS the observation returned on the model route, `ProjectionFollows`: the
projections list only what exists and contain what was used. A response of the
model route whose ladder ended at a script is delivered as PASS and refused by
the gate (`closure.ts` wants the model stage). The ids that pair failures are
left out, as are two holders of the lease (`audit.ts:375`): here it is exclusive.

**CostPolicy.** `EvaluateExecutionPolicy` collects reasons as the code does;
`LeastCost` says directly what the evaluation is for, and `PolicyIsLeastCost` that
the two agree on every trace in bounds.

**Finalizer.** The check goes item by item with a read of the tracker and of the
mutation log, while tickets open and close and mutations are recorded.
`PassIsProved`: a PASS means that announcements are matched one to one by items,
each ticket was open at some moment of the check, and each done item is proved.
What recognises announcements in prose is abstracted to what it recognises;
closed stands for every reason a ticket disproves its item.

**EnforcementRollback.** `WriteBaseline` and `WriteActive` are the two files of a
capture, `RestorePackage` and `WriteSurface` those of a re-enabling. `WayBack`: a
surface that is off can be turned on again from the baseline the state names. No
caller consults `isRollbackSurfaceEnabled`, so what a surface that is off means is
not modelled.

**KnowledgePromotion.** `work[p]` walks the nine writes of a promotion or a
rollback of one page; `intents`, `pageReceipts`, `versions`, `articles` are the
files. The lease is one per promotion, so two promotions overlap on the page.
`PageHistoryHolds`: a promotion with a receipt writes the page no more, and the
text it replaced is kept as a version. The final intent is written without its
operation (`knowledge-promotion.ts:621`), so the receipt of a rollback replaces the
intent of the promotion and a request repeated after it is refused; overlapping
promotions may lose each other's log entries, and a rollback of one of them may
restore a text that was never alone on the page. Authentication is one
condition.

**PinnedCommit.** Each file is absent, partly written or whole. `Preflight`,
`OpenTemp`, `FillTemp`, `Link`, `Revalidate` publish artifacts, `StageRecord`,
`FillRecord`, `Commit`, `FillIndex`, `Reload` are the transaction. Executions share
no lease and write the same bytes. `CanaryIsAtomic`: what dead executions left
never refuses one that is alone, and a report stands on all of its files.

**PmLoop.** The receipts of an invocation (`prepares`, `claims`, `handoffs`,
`reviews`, `pmGaps`), the board and its comments and corrections, and what a
review read before it took its lease (`reviewing`). `OneWorker`: one worker's run
is handed off, after it was announced, and somebody else reviews it.
`GateIsEarned`: the gate passes on a completed, unchanged run with a clean review the
scheduler signed. Of the code's behaviour: a reviewer signs the ticket proof with
its time of reading, so against a tracker that stamps its proofs a first review
never matches (`ProofsAreStamped`, off in the run); the rows the GitHub variant
lists lack fields the selection needs; two invocations may claim one candidate, and
two reviews with one root cause may both file its correction; a ticket whose
status changed after its review makes the status fail; a hand-off does not ask
whether the loop is paused.

**OriginReads.** Files are read twice, in pieces, from directories held open
(`ReadHead`, `ReadTail`), then pinned and confirmed, while `Republish`,
`WriteRecord`, `WriteSignature` and `SwapRoot` change them. `OriginIsOne`: what is
returned is one manifest that was published during the read and a record signed
with its key. A write in place is one step here; the scheduler's reader does not
confirm (`reader.confirms`), and nobody reads the manifest again at the end.

**StrategicReview.** `Authenticate`, `CheckContract`, `EnsureFollowUp`, `ReadProof`,
`AuditLedger`, `PersistReport`, with `Snapshot` for the bounded mode and `Replay`
for stored reports; twelve checks of the contract are one condition.
`ReportIsBacked`: whoever gets a report finds it stored under its own request with
a passing audit, and a drift it mentions tracked. A refused evaluation says it
mutated nothing although the follow-up's ticket may have been created; a lane must
name that ticket before it exists, so the first evaluation of a drift is refused.

**Deeds.** `events`, `quarantine`, `followUps`, `pages` (the pointer of each day) and
`ensured` (what the tracker has, from `Continuation`'s promise); hook calls take
the turn's lease, fail, die and are repeated, and midnight passes.
`DeedsAreAccountedFor`: a call answered as written or replayed is on its day's
page, and a Stop hook that went through stored, ensured and recorded its
follow-ups. A different list in the same turn is refused for good; the Stop
decision uses the state read before the follow-ups were ensured.

**GitHubTickets.** `issues` are the tracker's; an operation of a client is a
sequence of calls (list, create, exact; view, edit, close or reopen, exact; read,
post, read) whose answers may be lost (`GhFails`) after they took effect, while
`PeopleEdit` changes issues. `AnswersAreSo`: what was answered is so unless others
changed the issue meanwhile; `OneIssuePerAction`: retried creates of one strategic
action make one issue. Status and priority rewrite the whole body they read, so
clients can undo each other's; a reopening that fails goes unnoticed; a create
without action recognises its issue by title alone; two clients that post the same
strategic comment both fail on readback. The tracker's delay in listing and its
limit of 200 are left out.

**MulticaTickets.** `tickets` are the tracker's, which sets status and priority
itself; a strategic issue is found by the tracker's search for its marker
(`SearchIssues`) and read hit by hit (`ReadHit`), and one that has an owner by
then is passed over. `MulticaKeepsItsWord`: what was answered is so unless others
changed the issue meanwhile, and one strategic action has one issue among those no
person ever took. A create that lost its answer and whose issue was assigned before
the retry makes a second one; titles are compared with the first 200 issues of the
whole workspace, so that a ticket beyond them is made again (here the list, and the
search, are complete and up to date). Deleted issues and issues of another parent,
which make a strategic read fail, are among the failures (`McFails`).
`BackendsKeepTheirWord` is the property of both backends.

**Migration.** `stateFile`, `archive`, `tempDir` and `legacyDir` are the files, a V2
state is its bytes (an edition) and a V3 state the edition it was converted from.
The steps of `migrateOnDisk` are actions up to `TidyTemp`; any of them may fail
(`StepFails`), after which `UndoState` to `UndoTemp` put back what the call changed,
the state in place and the archive file by file, and a call may die anywhere, the
undoing included (`MigrationDies`). Between calls users write V2 state, restore the
archive or rename the former directory. `OriginalKept`: the V2 bytes in use are
whole as the state or in the archive, a V3 state has a whole archive of its own
bytes beside it, and a call that failed and undid its work leaves state and archive
as it found them. Calls do not overlap in the run (`MigrationsOverlap`). If they do,
and nothing keeps two lean commands from migrating at once, TLC loses the bytes
without any fault: A names the archive, B removes the temporary directory they
share, A cannot rename its state and starts to undo, B stages its own, compares the
archive, A removes it and B's V3 state gets its name. A V2 command that overlaps a
call is likewise overwritten by it. A V2 command (a wiki command, `init --force`)
after a call that died between the two renames leaves an archive of other bytes
than the state's, and every later migration is refused until a person removes or
restores it, as after a death while an archive is being removed;
`docs/lean-0.3.md:13` has a crash leave the temporary directory at most.

## Runs

| Run | Instance | Shows |
|---|---|---|
| `lease_three` | 3 processes of 2 hosts, stalls and expiry anywhere, one may die | `HolderIntact`, `LostForGood`, `LeaseLostOnlyToTakeover`, `ImplementsFence` |
| `lease_reclaim` | 2 processes of one host, one may die, fair | `LiveHolderNotJudged`, `Reclaimed` |
| `lease_overlap` | 2 processes, nothing fails | violation of `OneActiveCall` (finding 1) |
| `cont_faults` | 2 workers, 2 contracts, 2 tickets, 2 faults; the lease is kept, or it may be taken at any time and there is 1 fault | `VerifiedIsWhatWasAsked`, `MetadataIsThere` in both; `RemoteNeverForgotten`, `ContractStable` when the lease is kept |
| `cont_recover` | 2 workers, 1 contract, 2 faults, fair | `Converges` |
| `cont_outage` | 1 worker, 1 fault, users progress the ticket, fair | violation of `VerifiedRecovers` (finding 2) |
| `kernel_serial` | 1 command at a time, all commands, 2 tickets of which one blocks the other, 2 commits, 3 pointers | `CompletedOnEvidence`, `DoneAfterDependencies`, `EvidenceKept` |
| `kernel_racing` | 2 overlapping commands, 1 ticket, 2 commits, 3 pointers | `DoneHasEvidence`, `ActiveIsOpen`, `StopHoldsUnverified` |
| `kernel_tested` | 1 command at a time, agents keep committing | violation of `PassRanOnItsDigest` (finding 3) |
| `kernel_failing` | 1 command at a time | violation of `FailingEvidenceRejected` (finding 4) |
| `strategic_apply` | 2 processes, 3 actions in three cases (two pauses and a rollback of one; priority, comment and a rollback of the priority on one ticket; two follow-ups of one root cause and a comment), 2 faults | `ReceiptsRecorded`, `AttemptIsDurable`, `RollbackUndoes`, `AnsweredIsInert`, `ReceiptKept`; of the adapter `StateIsAnnounced`, `HistoryOfEffects` |
| `stores` | one of the fifteen components around the loop, each with its own bounds | `StoresTypeOK`, and per component: `OneAgreedGap`, `CycleReceiptIsEarned`, `SignedByPublishedKey`, `AuditsHold`, `PolicyIsLeastCost`, `PassIsProved`, `WayBack`, `PageHistoryHolds`, `CanaryIsAtomic`, `PmReceiptsHold`, `OriginIsOne`, `ReportIsBacked`, `DeedsAreAccountedFor`, `BackendsKeepTheirWord`, `OriginalKept` |

Why the bounds are enough. The lease's interesting conflicts are between a
holder, a waiter that judged it and a waiter that judged its predecessor: three
processes, which may make any number of attempts. A continuation needs two contracts and two tickets
for a conflict of either kind and two faults for a failure during the recovery
from a failure. The kernel needs two commits for a stale submission, three
pointers for submit, verify, resubmit, and two commands for a lost update; the
theorems remove these bounds for the invariants. `kernel_racing` uses the
commands that write a status or pointer its invariants mention (`Racing` in
`MCKernel`); the theorems cover all of them. A strategic action meets another one
on its subject and the rollback of either; two faults are a crash and a failure or
an interference during the recovery from it, and `MaxFaults` also bounds the
tracker's users. Symmetry is used over nonces, workers, contracts, ticket identities, processes and commits in runs without
liveness.

In `stores` every component has bounds for the conflict its property is about:
two days, two gaps, one record by hand and one death for the watchdog (a death
in one tick, recovery in the next); four jobs and two deaths for keys (the two
halves of two pairs); one run audited by two surfaces at two times; two models and
two calls for the policy (a correction and a tie); ledgers and proses of two
entries over two tickets and two runs; two surfaces, two baselines and two deaths;
two promotions and one death, overlapping; two executions, two artifacts, three
records and two deaths; two invocations, two tickets and two actors with one
change from outside; two writes during a read of origins (a torn read takes three:
the properties were also checked with three); two reviews and one
change; two tools, two items and two hook calls over midnight; two clients, one
action, two issues, three operations and one edit or assignment per backend; three
editions of the V2 state and three faults (a death, and a failure with a death in its
undoing).

Deadlock is checked in all runs but `stores`, whose components stop when their
bounds are used up. Where a type invariant is proved (`Lease`, `Continuation`,
`Kernel`, `InstalledLoop`, `StrategicAction`) no run repeats it. `IntentKept` is
left to its theorem too.

Fairness. `lease_reclaim`: a running process keeps executing (`WF` of its steps;
a killed one has none), every protected operation ends (`SF` of `Release`: each
provider call has a timeout), and the clock runs. `cont_recover`: running workers
keep going, acquisition is retried by the poll loop and succeeds when the lease
is free again and again, and the scheduled loop keeps calling
`retryContinuations`. Both take scheduling alone; nothing assumes that a remote
call succeeds, except that the faults are finitely many. `Converges` excludes
user progress and meddling: with them a mismatch is meant to stay.

## Findings

1. **Two callers can be inside the lease** (`lease_overlap`). `staleLock` renames
   whatever directory has the path (`coordination.ts:1064`), not the one the
   waiter judged. Two waiters judge the same released claim; the first moves it
   away and acquires; the second then moves the *new* directory away and acquires
   too. A heartbeat notices, but only before the next call; most users of
   `withCoordinationLease` never heartbeat.
2. **A verified continuation can be lost to one outage** (`cont_outage`). A replay
   overwrites `verified` with `pending` before it calls; after an outage the
   tolerance for a retitled or closed ticket is gone.
3. **A verification can test something else than what it vouches for**
   (`kernel_tested`). The digest is compared before the command only.
4. **An earlier pass outlives a later failure** (`kernel_failing`) of the same
   submission, which `docs/lean-0.3.md` says is rejected.

## Proofs

TLAPS proves, for any number of processes, keys, tickets and commits and without
the bounds above:

* `Lease_proofs`: type correctness, `HolderIntact`, `LiveHolderNotJudged`,
  `LostForGood`, `LeaseLostOnlyToTakeover`, and `Implements`: the lease
  implements `FencedLock` under the mapping of `Lease!Fence`. The inductive
  invariant `IInv` adds to these that nonces in use are distinct and not yet in
  any claim before their owner writes it (`DistinctNonces`,
  `UnseenBeforeClaim`), that a claim lies in a directory (`ClaimNeedsDir`), that
  a process in an attempt or operation has a nonce (`HasNonce`), that a moved
  claim's owner file can belong to nobody who still holds (`RetiredIsGone`), and
  that a waiter's copy of an owner file is one its owner wrote
  (`JudgedByOwnFile`). Freshness of UUIDs is the guard of `Attempt`.
* `Continuation_proofs`: type correctness, `VerifiedIsWhatWasAsked` and
  `MetadataIsThere`, also when the lease is taken away at any time. `IInv`
  follows a worker: the identity it carries names an existing ticket
  (`IdKnown`), once it compared it the ticket was created for its contract
  (`ComparedMatches`), metadata it believes set is on the ticket
  (`MetaClaimed`, `MetaUnclaimed`), and where a pending write leads
  (`WritesLeadBack`). No property of the lease is needed, which is the point:
  these survive the overlap of finding 1.
  `RemoteNeverForgotten` and `ContractStable` speak of the behaviours in which
  nobody takes the lease from a running worker, and do need it: `KInv` adds that
  whoever is past the acquisition holds the lease, and that what this worker read,
  wrote and was answered agrees with the record (`HolderKnows`): the recorded
  contract is its own, and the recorded identity is the one it knows before the
  tracker's answer was written and the one it was answered afterwards.
* `Kernel_proofs`: type correctness, `DoneHasEvidence`, `ActiveIsOpen`,
  `StopHoldsUnverified`, for any number of overlapping commands. A command
  derives what it writes from one state it read, so the invariant is a predicate
  of states (`Sound`) that every command preserves, asserted of the file and of
  every copy in use (`JobSound`); a verification in flight additionally remembers
  that a submission existed (`Executed`). That a non-empty list of a ticket's
  pointers has a latest one is carried in `Sound` (`HasLatest`) rather than
  proved by induction.
  `CompletedOnEvidence`, `DoneAfterDependencies` and `EvidenceKept` relate two
  states of the file and are proved from `Serial`, the one-at-a-time use the
  repository's README assumes (and false without it): the command that runs works
  on a copy of what is in the file (`Alone`), and a write does what the command
  decided on that copy (`Outcome`), for every dependency relation.
* `InstalledLoop_proofs`, for callers that may ask for anything in any order:
  `LoopTypeOK`, `WriteAhead`, `StateIsAnnounced`, `HistoryOfEffects`,
  `IntentKept`. The invariant `LoopIInv` says for each phase of a call what is on
  disk and whether the loop is before or after the announced change (`Phases`);
  that survives other calls because of the lease (`LoopExclusive`).
* `StrategicAction_proofs`: type correctness, `ReceiptsRecorded`,
  `AnsweredIsInert`, `AttemptIsDurable`, `RollbackUndoes`, `ReceiptKept`, and
  `UsesTheAdapter`: the composition is a behaviour of `LoopSpec`, so that the
  adapter's theorems hold in it. `IInv` says what a process in each phase knows
  of its action's intent (`JobFits`: its copy is the one on disk, the intent has
  no receipt before `Mint`, is marked attempted before a change), what intents
  and receipts on disk guarantee (`IntentFits`, `ReceiptFits`) and that one
  process works on an action (`ActionLeases`, from the guard of `Enter`). Nothing
  is assumed of the tracker, its users or of actions on the same subject.
  `AllStay`, what no step does to an intent, is proved along with the invariant.
* `Tickets_proofs`, the components that read and write tickets.
  * `MulticaTickets` and `GitHubTickets` keep their word to their callers. The
    promise is about what was answered, and people and other clients act between
    the steps of a call: the invariants say for each stage of a call what it has
    read and what of it still holds unless somebody else touched the issue
    (`ClientInv`, `GhClientInv`), that one client at most is about to create an
    action's issue (`OneCreator`, `OneGhCreator`), and that comments are never more
    than the calls begun for them (`SaidIsCalled`, `PostsAreCalled`), so that a
    retry may count them.
  * `Finalizer`: `PassIsProved`. The check goes through the items in order, and
    those before the one it is at are proved (`FinalizerInv`).
  * `CostPolicy`: `PolicyIsLeastCost`, a pure evaluation against its reference
    definition. Where an induction would be used, the smallest counterexample is
    taken instead (the natural numbers are well founded; a lemma, `Smallest`).
  * `PmLoop`: `PmReceiptsHold`. The receipts of an invocation follow on each other
    (`PreparedInOrder`, `HandedOffInOrder`, `ReviewedInOrder`).
* `Records_proofs`, the components that keep records on disk. Each writes several
  files for one change and may die between two of them; each invariant says what is
  on disk between any two writes.
  * `HkSchedules`: `SignedByPublishedKey`. The parts of the pair on disk agree
    (`KeysAgree`), a published pair is kept (`PublishedIsKept`), and a job reaches
    its signature only past its key stages (`KeysComeFirst`, `JobUsesThePair`).
  * `Watchdog`: `OneAgreedGap` and `CycleReceiptIsEarned`. Nobody dying, what is
    remembered is the open gap or the one a tick has just opened
    (`RememberedIsOpen`), and a receipt by hand that counts is vouched for
    (`VouchedFor`).
    `OneAgreedGap` is proved from `~GradeOverlaps`, as it is checked;
    `CycleReceiptIsEarned` needs no such condition.
  * `OriginReads`: `OriginIsOne`, with any number of writes. A file keeps its first
    piece while it keeps the identity it was opened with (`OpenedHolds`), and a write
    never brings an identity back (`Fresh`), so what is read whole is what the file
    held (`SeenHolds`): the argument needs one of the two reads only.
  * `ShadowStore`: `AuditsHold`. An audit under way has written the files before the
    index and the index before the line file (`AuditInOrder`), and what was
    delivered is recorded (`DeliveredIsRecorded`).
  * `EnforcementRollback`: `WayBack`. It speaks of the surfaces that are off now, and
    any of them may be turned off next, so the invariant says it of all
    (`Generous`), that nothing is off before there is a baseline (`AllOn`), and what
    a command knows between its two files (`InHand`).
  * `Migration`: `OriginalKept`, from `~MigrationsOverlap`, as it is checked. What is
    on disk between calls (`AtRest`), and in each stage of the one call, on its way
    on and on its way back (`CallInv`).
  * `PinnedCommit`: `CanaryIsAtomic`. A file has its final name only when it is whole
    (`PublishedIsWhole`), the index comes last (`IndexIsLast`), and nothing takes a
    file away (`FilesGrow`).
  * `KnowledgePromotion`: `PageHistoryHolds`. An intent holds what its receipt will
    need (`IntentHolds`), whatever other operations do to the page meanwhile.
* `Stores_proofs`, the two remaining components and all of them together.
  * `StrategicReview`: `ReportIsBacked`. The invariant says what a review has
    established when it reaches each stage (`Established`) and that a stored report
    stands on its audit and its ticket (`ReportsFit`), which a replay relies on.
    Others can only add to what it established (`Grows`).
  * `Deeds`: `DeedsAreAccountedFor`. A call has done what its stage says
    (`CallHolds`), a list that was taken up stands with the items before the next
    one ensured (`ListStands`), and what is written stays written (`DeedsGrow`).
  * `StoresAre...`: the specification of the run `stores` implements that of each
    component, so that what is proved of a component is proved of it in that run:
    `StoresTypeOK` (from `~MigrationsOverlap`) and `BackendsKeepTheirWord` are stated
    and proved of it as a whole.

Assumptions: the named `ASSUME`s of the modules (the constants' types, and that the
null values are not records; TLC evaluates them), and in the six theorems that say so
in their statement one of the switches `Serial`, `~GradeOverlaps` and
`~MigrationsOverlap`, which the runs that check the same properties set likewise. Each
is the condition under which the code keeps the promise: what happens without it is in
the list of hazards and above.

The inductive invariants of the components were checked by TLC on a small instance
before they were proved.

Only model-checked: the liveness properties `Reclaimed` and `Converges` (liveness is
beyond the prover here). Every other property of a passing run is stated by a theorem.
The findings are counterexamples, which only TLC gives.

## Plan

What is left, in this order.

1. `Continuation` over several keys: the order and limit of `retryContinuations`;
   the binding and its verification.
2. `Kernel`'s commands over `GitHubTickets` instead of the local rows: a failed
   remote call between two local writes.
3. The two behaviours of `StrategicAction` named above as checked statements, and
   an abstract specification (an action is asked, takes effect, is answered) that
   the parts of it that hold refine; the identity-to-receipt part is proved.
4. `ShadowStore` with `FencedLock` as its lease, so that finding 1 happens to it;
   the watchdog's tick under the same.
5. Proofs: that the write of a displaced worker is the only way a continuation loses
   its identity; the watchdog with searching and opening a gap as two steps, and what
   is left of `OneAgreedGap` then.
6. The field mapping of `migrateV2ToV3` against the table of `docs/lean-0.3.md`.

## Not modelled

Text recognition and formatting, schema validation of well-formed input, file
permissions and symlink checks, installation, the V2 workflow, and everything
the inventory marks as pure. Session claims have no caller outside their tests;
the binding is one write after a chain of reads. `PROJECT.json` gives the reason
per component.
