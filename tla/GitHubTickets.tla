---------------------------- MODULE GitHubTickets ----------------------------
(***************************************************************************)
(* The tickets of a goal kept as issues of GitHub: the status, the priority   *)
(* and the action that made an issue are written into its body, so that each  *)
(* change reads the body, rewrites it and writes it whole, then closes or     *)
(* reopens the issue, and reads back.  Clients work at once, a call may act   *)
(* although its answer is lost, and people edit and close issues too.         *)
(***************************************************************************)
EXTENDS Integers, Sequences, FiniteSets, FiniteSetsExt

CONSTANTS GhClients,       \* processes with a provider
          GhActions,       \* strategic actions that create or comment
          MaxIssues,       \* children of the parent
          MaxGhCalls,      \* operations begun
          MaxPeopleEdits   \* edits and closings by people

ASSUME GitHubAssumption ==
    /\ {MaxIssues, MaxGhCalls, MaxPeopleEdits} \subseteq Nat
    /\ "none" \notin GhActions

VARIABLES
    issues,        \* the children of the parent, by number
    gh,            \* the operation of each client
    disturbed,     \* clients whose issue others changed since they began
    ghCalls,       \* operations begun
    peopleEdits    \* what people did

githubVars == <<issues, gh, disturbed, ghCalls, peopleEdits>>

TerminalStatuses == {"done", "cancelled"}
GhStatuses == {"todo", "in_review"} \cup TerminalStatuses
GhPriorities == {"medium", "high"}

(* A body without ticket marker still names its parent, in the line above it. *)
GhBodies == [status : GhStatuses \cup {"none"}, priority : GhPriorities,
             action : GhActions \cup {"none"}]
NoBody == [status |-> "none", priority |-> "medium", action |-> "none"]

(* The tickets a person adds share one title here.  said: how many comments there are
   of each action, and under "none" how many of the evidence. *)
Notes == GhActions \cup {"none"}
Issues == [body : GhBodies, open : BOOLEAN, said : [Notes -> 0 .. MaxGhCalls]]

GhOperations ==
    [op : {"create"}, action : GhActions \cup {"none"}, at : {"list", "create", "exact"},
     number : 0 .. MaxIssues, body : {NoBody}]
    \cup [op : {"status"}, want : GhStatuses, at : {"view", "edit", "close", "exact"},
          number : 1 .. MaxIssues, body : GhBodies]
    \cup [op : {"priority"}, want : GhPriorities, at : {"before", "view", "edit", "exact"},
          number : 1 .. MaxIssues, body : GhBodies]
    \cup [op : {"comment"}, action : Notes,
          at : {"before", "post", "exact"}, number : 1 .. MaxIssues, body : {NoBody}]

GhIdle == [op |-> "idle", at |-> "answered"]

AtAnswer(o) == [o EXCEPT !.at = "answered"]

GitHubTypeOK ==
    /\ issues \in Seq(Issues) /\ Len(issues) <= MaxIssues
    /\ \A c \in GhClients : \/ gh[c] = GhIdle
                            \/ gh[c] \in GhOperations
                            \/ \E o \in GhOperations : gh[c] = AtAnswer(o)
    /\ disturbed \subseteq GhClients
    /\ ghCalls \in 0 .. MaxGhCalls /\ peopleEdits \in 0 .. MaxPeopleEdits

GitHubInit ==
    /\ issues = <<>>
    /\ gh = [c \in GhClients |-> GhIdle]
    /\ disturbed = {} /\ ghCalls = 0 /\ peopleEdits = 0

-----------------------------------------------------------------------------
(* What the provider reads *)

(* parseGithubStatus: the marker says it, and else the state of the issue. *)
StatusOf(issue) ==
    IF issue.body.status # "none" THEN issue.body.status
    ELSE IF issue.open THEN "todo" ELSE "done"

(* listChildren.  Mutant: the list leaves closed issues out, as gh does unless it
   is told otherwise. *)
BugChildren(all) == {n \in DOMAIN all : all[n].open}

Children(all) == DOMAIN all

(* The create of a ticket takes a child of its title for it, and that of a strategic
   action the child with its marker; here the newest. *)
Existing(action) == {n \in Children(issues) : issues[n].body.action = action}

-----------------------------------------------------------------------------
(* Operations *)

GhStays(c) == UNCHANGED <<issues, disturbed, ghCalls, peopleEdits>>
GhGoes(c, at) == gh' = [gh EXCEPT ![c].at = at]

(* Those at work on the issue are disturbed by what another does to it. *)
Disturbs(c, n) ==
    disturbed' = disturbed \cup {d \in GhClients \ {c} : gh[d].op # "idle" /\ gh[d].number = n}

OnIssue(c, n, issue) ==
    /\ issues' = [issues EXCEPT ![n] = issue]
    /\ Disturbs(c, n)
    /\ UNCHANGED <<ghCalls, peopleEdits>>

GhBegins(c, operation) ==
    /\ gh[c] = GhIdle \/ gh[c].at = "answered"
    /\ ghCalls < MaxGhCalls
    /\ ghCalls' = ghCalls + 1
    /\ gh' = [gh EXCEPT ![c] = operation]
    /\ disturbed' = disturbed \ {c}
    /\ UNCHANGED <<issues, peopleEdits>>

(* Creates of one strategic action are kept apart by the lease of the action
   (strategic-action.ts), those of a ticket's title by nothing. *)
BeginCreate(c) ==
    \E a \in GhActions \cup {"none"} :
       /\ a # "none" => \A d \in GhClients : ~(gh[d].op = "create" /\ gh[d].at # "answered"
                                               /\ gh[d].action = a)
       /\ GhBegins(c, [op |-> "create", action |-> a, at |-> "list", number |-> 0, body |-> NoBody])

BeginOnIssue(c) ==
    \E n \in DOMAIN issues :
       \/ \E s \in GhStatuses :
             GhBegins(c, [op |-> "status", want |-> s, at |-> "view", number |-> n, body |-> NoBody])
       \/ \E p \in GhPriorities :
             GhBegins(c, [op |-> "priority", want |-> p, at |-> "before", number |-> n, body |-> NoBody])
       \/ \E a \in Notes :
             GhBegins(c, [op |-> "comment", action |-> a, at |-> "before", number |-> n,
                          body |-> NoBody])

(* A call fails, or its answer is lost: the operation throws.  What it did stays. *)
GhFails(c) ==
    /\ gh[c].at # "answered"
    /\ gh' = [gh EXCEPT ![c] = GhIdle]
    /\ GhStays(c)

(* create, strategic.create: what is there already is the answer. *)
ListChildren(c) ==
    /\ gh[c].op = "create" /\ gh[c].at = "list"
    /\ LET found == Existing(gh[c].action)
       IN  gh' = [gh EXCEPT ![c].at = IF found = {} THEN "create" ELSE "answered",
                            ![c].number = IF found = {} THEN 0 ELSE Max(found)]
    /\ GhStays(c)

CreateIssue(c) ==
    /\ gh[c].op = "create" /\ gh[c].at = "create"
    /\ Len(issues) < MaxIssues
    /\ issues' = Append(issues, [body |-> [NoBody EXCEPT !.status = "todo", !.action = gh[c].action],
                                 open |-> TRUE, said |-> [a \in Notes |-> 0]])
    /\ \/ gh' = [gh EXCEPT ![c].at = "exact", ![c].number = Len(issues) + 1]
       \/ gh' = [gh EXCEPT ![c] = GhIdle]
    /\ UNCHANGED <<disturbed, ghCalls, peopleEdits>>

ReadCreated(c) ==
    /\ gh[c].op = "create" /\ gh[c].at = "exact"
    /\ issues[gh[c].number].body.action = gh[c].action
    /\ GhGoes(c, "answered")
    /\ GhStays(c)

(* setStatus, setPriority: the body is read and later written whole. *)
ReadBefore(c) ==
    /\ gh[c].op = "priority" /\ gh[c].at = "before"
    /\ GhGoes(c, IF issues[gh[c].number].body.priority = gh[c].want THEN "answered" ELSE "view")
    /\ GhStays(c)

ViewIssue(c) ==
    /\ gh[c].op \in {"status", "priority"} /\ gh[c].at = "view"
    /\ gh' = [gh EXCEPT ![c].body = issues[gh[c].number].body, ![c].at = "edit"]
    /\ GhStays(c)

(* rewriteStatus, rewritePriority *)
Rewritten(o) ==
    IF o.op = "status" THEN [o.body EXCEPT !.status = o.want]
    ELSE [o.body EXCEPT !.priority = o.want]

EditIssue(c) ==
    /\ gh[c].at = "edit"
    /\ OnIssue(c, gh[c].number, [issues[gh[c].number] EXCEPT !.body = Rewritten(gh[c])])
    /\ \/ GhGoes(c, IF gh[c].op = "status" THEN "close" ELSE "exact")
       \/ gh' = [gh EXCEPT ![c] = GhIdle]

(* A close that fails is a failure; a reopen that fails is taken for an issue that
   was open, whatever it failed for. *)
CloseOrReopen(c) ==
    LET terminal == gh[c].want \in TerminalStatuses
    IN  /\ gh[c].op = "status" /\ gh[c].at = "close"
        /\ GhGoes(c, "exact")
        /\ \/ OnIssue(c, gh[c].number, [issues[gh[c].number] EXCEPT !.open = ~terminal])
           \/ ~terminal /\ GhStays(c)

ReadWritten(c) ==
    /\ gh[c].op \in {"status", "priority"} /\ gh[c].at = "exact"
    /\ LET issue == issues[gh[c].number]
       IN  gh[c].want = IF gh[c].op = "status" THEN StatusOf(issue) ELSE issue.body.priority
    /\ GhGoes(c, "answered")
    /\ GhStays(c)

(* addEvidence, strategic.comment: one that is there is not made again. *)
ReadComments(c) ==
    /\ gh[c].op = "comment" /\ gh[c].at = "before"
    /\ GhGoes(c, IF issues[gh[c].number].said[gh[c].action] > 0 THEN "answered" ELSE "post")
    /\ GhStays(c)

PostComment(c) ==
    /\ gh[c].op = "comment" /\ gh[c].at = "post"
    /\ OnIssue(c, gh[c].number, [issues[gh[c].number] EXCEPT !.said[gh[c].action] = @ + 1])
    /\ \/ GhGoes(c, "exact")
       \/ gh' = [gh EXCEPT ![c] = GhIdle]

(* Evidence must be there, a strategic comment must be there once. *)
ReadPosted(c) ==
    /\ gh[c].op = "comment" /\ gh[c].at = "exact"
    /\ issues[gh[c].number].said[gh[c].action] \in 
          (IF gh[c].action = "none" THEN Nat \ {0} ELSE {1})
    /\ GhGoes(c, "answered")
    /\ GhStays(c)

(* People close and reopen issues, and clean their bodies of markers. *)
PeopleEdit ==
    /\ peopleEdits < MaxPeopleEdits
    /\ peopleEdits' = peopleEdits + 1
    /\ \E n \in DOMAIN issues :
          /\ \/ issues' = [issues EXCEPT ![n].open = ~@]
             \/ issues' = [issues EXCEPT ![n].body.status = "none"]
          /\ disturbed' = disturbed \cup {d \in GhClients : gh[d].op # "idle" /\ gh[d].number = n}
    /\ UNCHANGED <<gh, ghCalls>>

GitHubNext ==
    \/ \E c \in GhClients :
          \/ BeginCreate(c) \/ BeginOnIssue(c) \/ GhFails(c)
          \/ ListChildren(c) \/ CreateIssue(c) \/ ReadCreated(c)
          \/ ReadBefore(c) \/ ViewIssue(c) \/ EditIssue(c) \/ CloseOrReopen(c) \/ ReadWritten(c)
          \/ ReadComments(c) \/ PostComment(c) \/ ReadPosted(c)
    \/ PeopleEdit

GitHubSpec == GitHubInit /\ [][GitHubNext]_githubVars

-----------------------------------------------------------------------------
(* What an operation answered is so, unless somebody else changed the issue since
   it began: a ticket said to be done or cancelled is closed and says so, and a priority
   or a comment is there; and one strategic action has one issue, although creates
   lose their answers and are tried again and issues are closed or edited by people
   (tickets/provider.ts). *)
AnswersAreSo ==
    \A c \in GhClients :
       gh[c].op # "idle" /\ gh[c].at = "answered" /\ c \notin disturbed =>
          LET issue == issues[gh[c].number]
          IN  /\ gh[c].op = "status" => /\ issue.body.status = gh[c].want
                                        /\ gh[c].want \in TerminalStatuses => ~issue.open
              /\ gh[c].op = "priority" => issue.body.priority = gh[c].want
              /\ gh[c].op = "comment" => issue.said[gh[c].action] > 0

OneIssuePerAction ==
    \A a \in GhActions : Cardinality({n \in DOMAIN issues : issues[n].body.action = a}) <= 1

(* The adapter keeps its word to its callers: both of the above (tickets/provider.ts). *)
GitHubKeepsItsWord == AnswersAreSo /\ OneIssuePerAction

=============================================================================
