---------------------------- MODULE GitInspection ----------------------------
(***************************************************************************)
(* Inspecting a workspace (bridge/workspace-inspection.ts): the listing, a *)
(* file, the status, a diff and the footer summary, each a chain of git    *)
(* commands.                                                               *)
(*                                                                         *)
(* Every command is a call of runGit, which first asks git for the filters *)
(* to turn off and then runs the command; both children take a slot of one *)
(* limiter that the whole bridge shares.  A request is the chain of its    *)
(* commands: the After operators give the steps that may follow an exit    *)
(* code, with what git printed left open.  The agent commits and writes    *)
(* files all the time, so that every command and every look at a file may  *)
(* find anything.                                                          *)
(***************************************************************************)
EXTENDS Naturals, Sequences, FiniteSets

CONSTANTS
  Request,      \* requests for an inspection
  Op,           \* the inspections asked for, among Ops
  MaxActive,    \* children at a time
  MaxQueued,    \* calls that may wait
  MaxRounds,    \* bound: rounds of the loops over directories, files and submodules
  File,         \* the regular files that may be at the previewed path
  Absent        \* no regular file at the path

Ops == {"list", "file", "status", "diff", "summary"}

\* Two commands of one request may run side by side.
Call == Request \X {1, 2}

VARIABLE
  git     \* the limiter (active, queue), the calls and the requests

NoCall == [phase |-> "none", filter |-> FALSE, code |-> 0]
NotAsked == [op |-> "list", step |-> "idle", left |-> MaxRounds, label |-> "none", status |-> 0,
             seen |-> Absent, open |-> Absent]

Init ==
  git = [active |-> 0, queue |-> <<>>, call |-> [c \in Call |-> NoCall],
         req |-> [r \in Request |-> NotAsked]]

(***************************************************************************)
(* The limiter.  These operators take the record git and return its next   *)
(* value.                                                                  *)
(***************************************************************************)
Over(w, r) == w.req[r].step = "over"

\* The request is answered, unless another of its commands has failed it before.
Answered(w, r, n) ==
  IF Over(w, r) THEN w ELSE [w EXCEPT !.req[r] = [@ EXCEPT !.step = "over", !.status = n]]

\* A slot is taken, or waited for, or refused.
Acquire(w, c) ==
  IF w.active < MaxActive THEN [w EXCEPT !.active = @ + 1, !.call[c].phase = "granted"]
  ELSE IF Len(w.queue) < MaxQueued THEN [w EXCEPT !.queue = Append(@, c), !.call[c].phase = "queued"]
  ELSE Answered([w EXCEPT !.call[c].phase = "none"], c[1], 429)

\* Mutant: the slot is given up as well as handed over.
ReleaseTwice(w, c) ==
  LET freed == [w EXCEPT !.call[c].phase = "none", !.active = @ - 1]
  IN  IF w.queue = <<>> THEN freed
      ELSE [freed EXCEPT !.queue = Tail(@), !.call[Head(w.queue)].phase = "granted"]

\* The first waiter is handed the slot; without one it is free.
Release(w, c) ==
  LET freed == [w EXCEPT !.call[c].phase = "none"]
  IN  IF w.queue = <<>> THEN [freed EXCEPT !.active = @ - 1]
      ELSE [freed EXCEPT !.queue = Tail(@), !.call[Head(w.queue)].phase = "granted"]

\* runGit: the configured filters first.
RunGit(w, c) == Acquire([w EXCEPT !.call[c] = [phase |-> "none", filter |-> TRUE, code |-> 0]], c)

(***************************************************************************)
(* What follows a command.                                                 *)
(***************************************************************************)
Go(q, s) == [q EXCEPT !.step = s]
Say(q, n) == [q EXCEPT !.step = "over", !.status = n]
Again(q, s) == IF q.left > 0 THEN {[q EXCEPT !.step = s, !.left = @ - 1]} ELSE {}

\* The root is a checkout, the one repository of the directories, or refused.
AfterRoot(q, code) ==
  {Say(q, 422)} \union Again(q, "root")
    \union (IF code = 0 \/ q.left < MaxRounds THEN {Go(q, "probe")} ELSE {})

\* A listing answers, and a file is looked for in it.
Listed(q) == IF q.op = "list" THEN {Say(q, 200)} ELSE {Say(q, 404), Go(q, "look")}

\* isGitRepository; without a repository the tree is walked, and nothing is changed.
AfterProbe(q, code) ==
  IF code = 0 THEN {Go(q, "context")}
  ELSE IF q.op \in {"list", "file"} THEN Listed(q)
  ELSE {Say(q, IF q.op = "diff" THEN 404 ELSE 200)}

AfterContext(q, code) ==
  IF code = 0
  THEN {Go(q, IF q.op \in {"list", "file"} THEN "ls-files" ELSE IF q.op = "summary" THEN "summary" ELSE "status")}
  ELSE IF q.op \in {"list", "file"} THEN Listed(q)
  ELSE {Say(q, IF q.op = "summary" THEN 200 ELSE 500)}

AfterListing(q, code) == IF code = 0 THEN Listed(q) ELSE {Say(q, 500)}

\* What the counts are for: the answer, or the diff of a changed file.
Counted(q) ==
  IF q.op = "status" THEN {Say(q, 200)}
  ELSE {Say(q, 404), [Go(q, "loose") EXCEPT !.label = "untracked"]}
         \union {[Go(q, "recontext") EXCEPT !.label = l] : l \in {"added", "added, deleted", "other"}}

\* New files are counted one by one, within a number and a time.
NewFiles(q) == {Say(q, 413), Go(q, "untracked")} \union Counted(q)

AfterStatus(q, code) ==
  IF code = 0 THEN {Say(q, 422), Go(q, "attributes"), Go(q, "numstat")} ELSE {Say(q, 500)}

AfterAttributes(q, code) == IF code = 0 THEN {Say(q, 422), Go(q, "numstat")} ELSE {Say(q, 500)}

\* Without a first commit there is no HEAD to compare with.
AfterNumstat(q, code) == IF code = 0 THEN NewFiles(q) ELSE {Go(q, "head")}
AfterHead(q, code) == IF code = 0 THEN {Go(q, "both")} ELSE NewFiles(q)
AfterBoth(q, code) == IF code = 0 THEN NewFiles(q) ELSE {Say(q, 500)}

AfterUntracked(q, code) ==
  IF code \in {0, 1} THEN {Say(q, 413)} \union Again(q, "untracked") \union Counted(q) ELSE {Say(q, 500)}

AfterRecontext(q, code) == {IF code = 0 THEN Go(q, "diff") ELSE Say(q, 500)}

AfterDiff(q, code) ==
  {IF code = 0 THEN Say(q, 200)
   ELSE IF q.label = "added" THEN Go(q, "loose")
   ELSE IF q.label = "added, deleted" THEN Go(q, "unborn") ELSE Say(q, 500)}

\* A diff against nothing, which exits 1 when it finds something.
AfterLoose(q, code) == {Say(q, IF code \in {0, 1} THEN 200 ELSE 500)}
AfterUnborn(q, code) == {Say(q, IF code = 0 THEN 500 ELSE 200)}

\* The summary goes down into the submodules.
AfterSummary(q, code) == {IF code = 0 THEN Go(q, "index") ELSE Say(q, 500)}
Submodules(q) == {Say(q, 200)} \union Again(q, "submodule")
AfterIndex(q, code) == IF code = 0 THEN Submodules(q) ELSE {Say(q, 500)}
AfterSubmodule(q, code) == IF code = 0 THEN {Go(q, "summary"), Say(q, 429)} ELSE Submodules(q)

After(q, code) ==
  CASE q.step = "root" -> AfterRoot(q, code)
    [] q.step = "probe" -> AfterProbe(q, code)
    [] q.step = "context" -> AfterContext(q, code)
    [] q.step = "ls-files" -> AfterListing(q, code)
    [] q.step = "status" -> AfterStatus(q, code)
    [] q.step = "attributes" -> AfterAttributes(q, code)
    [] q.step = "numstat" -> AfterNumstat(q, code)
    [] q.step = "head" -> AfterHead(q, code)
    [] q.step = "both" -> AfterBoth(q, code)
    [] q.step = "untracked" -> AfterUntracked(q, code)
    [] q.step = "recontext" -> AfterRecontext(q, code)
    [] q.step = "diff" -> AfterDiff(q, code)
    [] q.step = "loose" -> AfterLoose(q, code)
    [] q.step = "unborn" -> AfterUnborn(q, code)
    [] q.step = "summary" -> AfterSummary(q, code)
    [] q.step = "index" -> AfterIndex(q, code)
    [] q.step = "submodule" -> AfterSubmodule(q, code)

\* The exit codes of git (external): 2 stands for any failure, or for no commit yet.
Codes(step) ==
  IF step \in {"untracked", "loose"} THEN {0, 1, 2} ELSE {0, 2}

\* A request goes on with the commands of its next step, or looks at the file.
Proceed(w, r, q) ==
  LET on == [w EXCEPT !.req[r] = q]
  IN  IF q.step \in {"over", "look"} THEN on
      ELSE IF q.step = "both" THEN RunGit(RunGit(on, <<r, 1>>), <<r, 2>>)
      ELSE RunGit(on, <<r, 1>>)

(***************************************************************************)
(* Actions.                                                                *)
(***************************************************************************)
\* A route asks for the root first; the summary of a transcript knows its directory.
Ask(r) ==
  /\ git.req[r].step = "idle"
  /\ \E op \in Op :
       git' = Proceed(git, r, [NotAsked EXCEPT !.op = op, !.step = IF op = "summary" THEN "probe" ELSE "root"])

\* Mutant: a command that throws keeps its slot.
GiveUpSlotless(c, n) == Answered([git EXCEPT !.call[c].phase = "none"], c[1], n)

\* The command throws: its slot is released and its request fails.
GiveUp(c, n) == Answered(Release(git, c), c[1], n)

\* With a slot, the child is started, unless its time has passed in the queue.
Spawn(c) ==
  /\ git.call[c].phase = "granted"
  /\ \/ git' = [git EXCEPT !.call[c].phase = "running"]
     \/ git' = GiveUp(c, IF git.req[c[1]].step = "untracked" THEN 413 ELSE 500)

\* The child is killed at its timeout, prints too much, or names a filter it cannot turn off.
ChildFails(c) ==
  /\ git.call[c].phase = "running"
  /\ \E n \in {413, 500} \union (IF git.call[c].filter THEN {422} ELSE {}) :
       git' = GiveUp(c, IF n = 500 /\ git.req[c[1]].step = "untracked" THEN 413 ELSE n)

\* The filters are known: the command itself queues for a slot.
FiltersKnown(c) ==
  /\ git.call[c].phase = "running" /\ git.call[c].filter
  /\ git' = Acquire([Release(git, c) EXCEPT !.call[c].filter = FALSE], c)

\* The command exits, and the request goes on when no other command of its step is left.
CommandExits(c) ==
  LET r == c[1]
      q == git.req[r]
      done == Release(git, c)
  IN  /\ git.call[c].phase = "running" /\ ~git.call[c].filter
      /\ IF q.step = "over" THEN git' = done
         ELSE \E code \in Codes(q.step) :
                LET noted == [done EXCEPT !.call[c].code = code]
                    other == noted.call[<<r, 3 - c[2]>>]
                IN  IF q.step = "both" /\ other.phase # "none" THEN git' = noted
                    ELSE \E next \in After(q, IF q.step = "both" /\ other.code # 0 THEN other.code ELSE code) :
                           git' = Proceed(noted, r, next)

SameFile(q) == q.open = q.seen

\* resolveWorkspaceFile, open, and stat with read, with awaits between them.
Look(r) ==
  /\ git.req[r].step = "look"
  /\ \E f \in File \union {Absent} :
       git' = [git EXCEPT !.req[r] = IF f = Absent THEN Say(@, 404) ELSE [Go(@, "open") EXCEPT !.seen = f]]

OpenFile(r) ==
  /\ git.req[r].step = "open"
  /\ \E f \in File \union {Absent} :
       git' = [git EXCEPT !.req[r] = IF f = Absent THEN Say(@, 404) ELSE [Go(@, "read") EXCEPT !.open = f]]

ReadFile(r) ==
  /\ git.req[r].step = "read"
  /\ \E n \in {200, 413, 422} :
       git' = [git EXCEPT !.req[r] = Say(@, IF SameFile(git.req[r]) THEN n ELSE 404)]

Steps(r) ==
  \/ Look(r) \/ OpenFile(r) \/ ReadFile(r)
  \/ \E k \in {1, 2} : Spawn(<<r, k>>) \/ ChildFails(<<r, k>>) \/ FiltersKnown(<<r, k>>) \/ CommandExits(<<r, k>>)

Next == \E r \in Request : Ask(r) \/ Steps(r)

Fairness == \A r \in Request : WF_git(Steps(r))

Spec == Init /\ [][Next]_git /\ Fairness

(***************************************************************************)
(* Properties.                                                             *)
(***************************************************************************)
TypeOK ==
  /\ git.active \in 0 .. MaxActive /\ Len(git.queue) <= MaxQueued
  /\ \A c \in Call : git.call[c].phase \in {"none", "queued", "granted", "running"}
  /\ \A r \in Request : git.req[r].left \in 0 .. MaxRounds

\* Every slot that is taken belongs to a command that has it, also when commands fail,
\* time out while they wait, or outlive a request that was failed by their sibling; there
\* are never more children than slots, and nobody waits while a slot is free.
SlotsAreHeld ==
  /\ git.active = Cardinality({c \in Call : git.call[c].phase \in {"granted", "running"}})
  /\ git.active <= MaxActive
  /\ git.queue # <<>> => git.active = MaxActive

\* Every inspection is answered, however many share the limiter: the commands that a
\* request waits for never wait for a slot that the request holds.
InspectionAnswered == \A r \in Request : (git.req[r].step # "idle") ~> (git.req[r].step = "over")

=============================================================================
