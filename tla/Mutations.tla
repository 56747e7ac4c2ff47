------------------------------ MODULE Mutations ------------------------------
(***************************************************************************)
(* The mutations of the HTTP API (bridge/server.ts) and the one-shot RPCs  *)
(* they send to Herdr (bridge/herdr-client.ts): request deduplication, the *)
(* queue of each pane, the two steps of a reply, the parallel closes of a  *)
(* scope, and what the client is told when an RPC fails half way.          *)
(*                                                                         *)
(* A wish is one thing a user wants done; the browser may post it again,   *)
(* with the same request id, when an answer got lost.  Post n runs job n   *)
(* unless a deduplicator hands it an earlier job.  A call <<n, i, t>> is   *)
(* the RPC of job n's step i at target t.                                  *)
(***************************************************************************)
EXTENDS Naturals, Sequences, FiniteSets, Functions

CONSTANTS
  Wish,         \* the wishes of all users
  Want,         \* Want[w]: kind, targets, id, say (payload), submit, body
  Target,       \* panes, and the tabs and workspaces the creates aim at
  NoText,       \* the empty text of a reply
  NoId,         \* a body without requestId
  Script,       \* bound: the sequences of wishes that are posted
  MaxPosts,     \* bound: posts of one behaviour
  MaxEntries,   \* REPLY_DEDUPE_MAX_ENTRIES
  MaxRestarts   \* bound: restarts of the bridge

Kind == {"reply", "keys", "input", "submit", "close", "focus", "rename", "createTab",
         "createWorkspace", "createWorktree", "removeWorktree", "closeScope"}

Deduplicator == {"reply", "create", "worktree", "action"}

Post == 1 .. MaxPosts

ASSUME MutationAssumption ==
  /\ {MaxPosts, MaxRestarts} \subseteq Nat /\ MaxEntries \in Nat \ {0}
  /\ \A w \in Wish : /\ Want[w].kind \in Kind
                     /\ Want[w].targets \in (SUBSET Target) \ {{}}
                     /\ Want[w].kind # "closeScope" => \E t \in Target : Want[w].targets = {t}

VARIABLES
  post,       \* post[n]: the HTTP request number n
  posts,      \* how many posts were made
  job,        \* job[n]: the operation post n started
  phase,      \* phase[n][t]: the call of job n's current step at target t
  entry,      \* entry[n]: the entry of job n in its deduplicator's Map
  tail,       \* tail[t]: the last job chained in pane t's queue, if the Map has one
  wire,       \* calls Herdr has received whole and not yet acted on
  done,       \* calls Herdr has carried out
  refused,    \* calls Herdr has rejected with a structured error
  lapsed,     \* history: keys whose finished (or crashed) entry was forgotten
  split,      \* history: replies a queued mutation of another job cut in two
  restarts

serverVars == <<job, phase, entry, tail>>
herdrVars  == <<wire, done, refused>>
vars == <<post, posts, job, phase, entry, tail, wire, done, refused, lapsed, split, restarts>>

(***************************************************************************)
(* Request bodies.  A body maps the fields it has to TRUE when the field   *)
(* has the type and the range the parser asks for.                         *)
(***************************************************************************)
Required(body, fields) == \A f \in fields : f \in DOMAIN body /\ body[f]
Optional(body, fields) == \A f \in fields \cap DOMAIN body : body[f]

ParseReplyBody(b)           == Optional(b, {"text", "submit", "requestId"})
ParseKeysBody(b)            == Required(b, {"keys"})
ParseInputBody(b)           == Required(b, {"data"})
ParseSubmitBody(b)          == Required(b, {"data", "key"})
ParseRenameTabBody(b)       == Required(b, {"label"})
ParseCreateTabBody(b)       == Required(b, {"workspaceId"}) /\ Optional(b, {"label", "cwd", "requestId"})
ParseCreateWorkspaceBody(b) == Optional(b, {"cwd", "label", "requestId"})
ParseCreateWorktreeBody(b)  ==
  Required(b, {"workspaceId"}) /\ Optional(b, {"branch", "base", "label", "requestId"})
ParseRemoveWorktreeBody(b)  == Optional(b, {"force", "requestId"})
ParseCloseScopeBody(b)      == Required(b, {"requestId"})

(***************************************************************************)
(* The handlers.  plan.valid: the body parses; plan.dedup and plan.key:    *)
(* the deduplicator and the key of the request, if it has one; plan.queued *)
(* whether it goes through the PaneMutationQueue; plan.steps: the sets of  *)
(* targets called together, one set after the other.                       *)
(***************************************************************************)
The(S) == CHOOSE t \in S : TRUE

Plan(valid, dedup, key, signature, queued, steps) ==
  [valid |-> valid, dedup |-> dedup, key |-> key, signature |-> signature,
   queued |-> queued, steps |-> steps]

Keyed(plan) == plan.dedup # "none"

Direct(valid, queued, w) ==
  Plan(valid, "none", <<>>, <<>>, queued, <<w.targets>>)

ReplyPane(w) ==
  Plan(ParseReplyBody(w.body), IF w.id = NoId THEN "none" ELSE "reply",
       <<w.targets, w.id>>, <<w.say, w.submit>>, TRUE,
       (IF w.say = NoText THEN <<>> ELSE <<w.targets>>) \o (IF w.submit THEN <<w.targets>> ELSE <<>>))

KeysPane(w)   == Direct(ParseKeysBody(w.body), TRUE, w)
InputPane(w)  == Direct(ParseInputBody(w.body), TRUE, w)
SubmitPane(w) == Direct(ParseSubmitBody(w.body), TRUE, w)
ClosePane(w)  == Direct(TRUE, TRUE, w)
FocusPane(w)  == Direct(TRUE, FALSE, w)
RenameTab(w)  == Direct(ParseRenameTabBody(w.body), FALSE, w)

Once(valid, dedup, w) ==
  Plan(valid, IF w.id = NoId THEN "none" ELSE dedup, <<{}, w.id>>,
       <<w.kind, w.targets, w.say>>, FALSE, <<w.targets>>)

CreateTab(w)       == Once(ParseCreateTabBody(w.body), "create", w)
CreateWorkspace(w) == Once(ParseCreateWorkspaceBody(w.body), "create", w)
CreateWorktree(w)  == Once(ParseCreateWorktreeBody(w.body), "worktree", w)
RemoveWorktree(w)  == Once(ParseRemoveWorktreeBody(w.body), "action", w)

\* closeScopePaneIds reads the panes from the engine's current snapshot, which
\* may list only some of them: present.
CloseScope(w, present) ==
  [Once(ParseCloseScopeBody(w.body), "action", w) EXCEPT !.steps = <<w.targets \cap present>>]

PlanOf(w, present) ==
  CASE w.kind = "reply"           -> ReplyPane(w)
    [] w.kind = "keys"            -> KeysPane(w)
    [] w.kind = "input"           -> InputPane(w)
    [] w.kind = "submit"          -> SubmitPane(w)
    [] w.kind = "close"           -> ClosePane(w)
    [] w.kind = "focus"           -> FocusPane(w)
    [] w.kind = "rename"          -> RenameTab(w)
    [] w.kind = "createTab"       -> CreateTab(w)
    [] w.kind = "createWorkspace" -> CreateWorkspace(w)
    [] w.kind = "createWorktree"  -> CreateWorktree(w)
    [] w.kind = "removeWorktree"  -> RemoveWorktree(w)
    [] w.kind = "closeScope"      -> CloseScope(w, present)

(***************************************************************************)
(* What the client is told: ok, textDelivered and deliveryAmbiguous.       *)
(***************************************************************************)
Answer(ok, typed, unsure) == [ok |-> ok, typed |-> typed, unsure |-> unsure]
Fine      == Answer(TRUE, FALSE, FALSE)
Rejection == Answer(FALSE, FALSE, FALSE)   \* bad body, conflict, capacity
Answers   == {Answer(o, y, u) : o \in BOOLEAN, y \in BOOLEAN, u \in BOOLEAN}

\* A HerdrRequestError with requestWritten is ambiguous, every other error definite.
MutationFailureResponse(error) == Answer(FALSE, FALSE, error = "unsure")

\* The catch block of sendReplySteps: error ended step i of the reply w.
SendReplySteps(w, i, error) ==
  LET typing == i = 1 /\ w.say # NoText
      typed  == i = 2
  IN  IF typing THEN Answer(FALSE, error = "unsure", error = "unsure")
      ELSE Answer(FALSE, typed, error = "unsure")

FailureAnswer(w, i, error) ==
  IF w.kind = "reply" THEN SendReplySteps(w, i, error) ELSE MutationFailureResponse(error)

(***************************************************************************)
(* State.                                                                  *)
(***************************************************************************)
NoJob  == 0
Unsent == [state |-> "unsent", wish |-> CHOOSE w \in Wish : TRUE, job |-> NoJob, answer |-> Rejection]
Idle   == [state |-> "none", plan |-> Plan(FALSE, "none", <<>>, <<>>, FALSE, <<>>), prior |-> NoJob,
           step |-> 0, answer |-> Rejection]

Phase == {"idle", "opening", "partial", "written",        \* before the promise settles
          "ok", "refused", "unwritten", "unsure",         \* how it settled (a restart leaves it unsure)
          "misread"}                                      \* a create whose result has the wrong shape
Failed == {"refused", "unwritten", "unsure", "misread"}

Init ==
  /\ post = [n \in Post |-> Unsent]
  /\ posts = 0
  /\ job = [n \in Post |-> Idle]
  /\ phase = [n \in Post |-> [t \in Target |-> "idle"]]
  /\ entry = [n \in Post |-> "none"]
  /\ tail = [t \in Target |-> NoJob]
  /\ wire = {} /\ done = {} /\ refused = {}
  /\ lapsed = {} /\ split = {}
  /\ restarts = 0

(***************************************************************************)
(* The deduplicators.  Entries are inserted in the order of their jobs'    *)
(* numbers, so a Map in insertion order is the set of jobs that have one.  *)
(***************************************************************************)
Held(d) == {n \in Post : entry[n] # "none" /\ job[n].plan.dedup = d}

\* entry.completedAt <= now - ttl; TtlPasses is what makes an entry "expired".
Prune(d) == {n \in Held(d) : entry[n] # "expired"}

Full(held) == Cardinality(held) >= MaxEntries

\* Mutant: the oldest entry makes room, also while its job runs.
MakeRoomAnyhow(held) == {n \in held : Full(held) => \E k \in held : k < n}

\* At capacity the oldest completed entry makes room; without one the request is refused.
MakeRoom(held) ==
  IF Full(held) THEN {n \in held : \E k \in held : k < n /\ entry[k] = "done"}
                     \union {n \in held : entry[n] # "done"}
  ELSE held

\* Entries of d outside kept are deleted, and job n gets one.
Keep(d, kept, n) ==
  /\ entry' = [m \in Post |-> IF m = n THEN "running"
                             ELSE IF m \in Held(d) \ kept THEN "none" ELSE entry[m]]
  /\ lapsed' = lapsed \union {job[m].plan.key : m \in {k \in Held(d) \ kept : job[k].state = "over"}}

(***************************************************************************)
(* PaneMutationQueue.run: the job starts when the one before it settled.   *)
(***************************************************************************)
Enlist(n, plan) ==
  LET pane == IF plan.queued /\ plan.steps # <<>> THEN plan.steps[1] ELSE {}
  IN  /\ job' = [job EXCEPT ![n] = [state |-> "open", plan |-> plan, step |-> 0, answer |-> Rejection,
                                    prior |-> IF pane = {} THEN NoJob ELSE tail[The(pane)]]]
      /\ tail' = [t \in Target |-> IF t \in pane THEN n ELSE tail[t]]

Turn(n) == job[n].prior # NoJob => job[job[n].prior].state = "over"

(***************************************************************************)
(* A client posts wish w: the first time, or again after it gave up on     *)
(* every earlier post of it (useHerdr keeps the request id until then).    *)
(***************************************************************************)
Scripted(w) ==
  \E s \in Script : /\ posts < Len(s) /\ s[posts + 1] = w
                   /\ \A n \in 1 .. posts : s[n] = post[n].wish

MayPost(w) == \A n \in Post : post[n].wish = w => post[n].state \in {"unsent", "lost"}

Reject(n, w) ==
  post' = [post EXCEPT ![n] = [state |-> "answered", wish |-> w, job |-> NoJob, answer |-> Rejection]]

Await(n, w, m) ==
  post' = [post EXCEPT ![n] = [state |-> IF entry[m] \in {"done", "expired"} THEN "answered" ELSE "waiting",
                               wish |-> w, job |-> m, answer |-> job[m].answer]]

\* RequestDeduplicator.run: prune, then join or refuse, or make room and start.
RunKeyed(n, w, plan) ==
  LET d    == plan.dedup
      hits == {m \in Prune(d) : job[m].plan.key = plan.key}
      room == MakeRoom(Prune(d))
  IN  \/ \E m \in hits :
           /\ job[m].plan.signature # plan.signature
           /\ Reject(n, w) /\ Keep(d, Prune(d), NoJob) /\ UNCHANGED <<job, tail>>
      \/ \E m \in hits :
           /\ job[m].plan.signature = plan.signature
           /\ Await(n, w, m) /\ Keep(d, Prune(d), NoJob) /\ UNCHANGED <<job, tail>>
      \/ /\ hits = {} /\ Full(room)
         /\ Reject(n, w) /\ Keep(d, room, NoJob) /\ UNCHANGED <<job, tail>>
      \/ /\ hits = {} /\ ~Full(room)
         /\ Enlist(n, plan) /\ Await(n, w, n) /\ Keep(d, room, n)

\* A request without a request id, or of a route that knows none.
RunUnkeyed(n, w, plan) == Enlist(n, plan) /\ Await(n, w, n) /\ UNCHANGED <<entry, lapsed>>

PostWish(w) ==
  /\ posts < MaxPosts /\ Scripted(w) /\ MayPost(w)
  /\ posts' = posts + 1
  /\ \E present \in IF Want[w].kind = "closeScope" THEN SUBSET Want[w].targets ELSE {Target} :
       LET n    == posts + 1
           plan == PlanOf(Want[w], present)
       IN  \/ ~plan.valid /\ Reject(n, w) /\ UNCHANGED <<job, tail, entry, lapsed>>
           \/ plan.valid /\ Keyed(plan) /\ RunKeyed(n, w, plan)
           \/ plan.valid /\ ~Keyed(plan) /\ RunUnkeyed(n, w, plan)
  /\ UNCHANGED <<phase, herdrVars, split, restarts>>

\* The client's fetch times out or its connection breaks; the handler runs on.
ClientGivesUp(n) ==
  /\ post[n].state = "waiting"
  /\ post' = [post EXCEPT ![n].state = "lost"]
  /\ UNCHANGED <<posts, serverVars, herdrVars, lapsed, split, restarts>>

(***************************************************************************)
(* A job runs.                                                             *)
(***************************************************************************)
Call(n, t) == <<n, job[n].step, t>>

\* Mutant: the tail is dropped without asking whether it is still this job's.
FinishDropsTail(n, answer) ==
  /\ job' = [job EXCEPT ![n].state = "over", ![n].answer = answer]
  /\ tail' = [t \in Target |-> IF t \in UNION Range(job[n].plan.steps) THEN NoJob ELSE tail[t]]
  /\ entry' = [entry EXCEPT ![n] = IF @ = "running" THEN "done" ELSE @]
  /\ post' = [m \in Post |-> IF post[m].state = "waiting" /\ post[m].job = n
                             THEN [post[m] EXCEPT !.state = "answered", !.answer = answer] ELSE post[m]]

\* The job settles: its entry is completed, its posts are answered, and its tail
\* is dropped from the queue's Map if nothing was chained behind it.
Finish(n, answer) ==
  /\ job' = [job EXCEPT ![n].state = "over", ![n].answer = answer]
  /\ tail' = [t \in Target |-> IF tail[t] = n THEN NoJob ELSE tail[t]]
  /\ entry' = [entry EXCEPT ![n] = IF @ = "running" THEN "done" ELSE @]
  /\ post' = [m \in Post |-> IF post[m].state = "waiting" /\ post[m].job = n
                             THEN [post[m] EXCEPT !.state = "answered", !.answer = answer] ELSE post[m]]

\* The next step's calls connect; for a reply's keys, after the settle pause.
NextCalls(n) ==
  LET next == job[n].step + 1
  IN  IF next \in DOMAIN job[n].plan.steps THEN job[n].plan.steps[next] ELSE {}

StartStep(n) ==
  /\ job[n].state = "open" /\ Turn(n)
  /\ \A t \in Target : phase[n][t] \in {"idle", "ok"}
  /\ \/ /\ NextCalls(n) # {}
        /\ job' = [job EXCEPT ![n].step = @ + 1]
        /\ phase' = [phase EXCEPT ![n] = [t \in Target |-> IF t \in NextCalls(n) THEN "opening" ELSE "idle"]]
        /\ UNCHANGED <<tail, entry, post>>
     \/ /\ NextCalls(n) = {}
        /\ Finish(n, Fine)
        /\ UNCHANGED phase
  /\ UNCHANGED <<posts, herdrVars, lapsed, split, restarts>>

\* The connection opens, or drains, and Herdr's socket takes bytes of the request.
Write(n, t) ==
  /\ \/ /\ phase[n][t] = "opening"
        /\ phase' = [phase EXCEPT ![n][t] = "partial"] /\ UNCHANGED wire
     \/ /\ phase[n][t] \in {"opening", "partial"}
        /\ phase' = [phase EXCEPT ![n][t] = "written"]
        /\ wire' = wire \union {Call(n, t)}
  /\ UNCHANGED <<post, posts, job, entry, tail, done, refused, lapsed, split, restarts>>

\* A call settles; the first failure of a step ends the job.
Settle(n, t, outcome) ==
  /\ phase' = [phase EXCEPT ![n][t] = outcome]
  /\ IF outcome \in Failed /\ job[n].state = "open"
     THEN Finish(n, FailureAnswer(Want[post[n].wish], job[n].step, outcome))
     ELSE UNCHANGED <<job, tail, entry, post>>
  /\ UNCHANGED <<posts, herdrVars, lapsed, split, restarts>>

\* The creates take the new pane out of the result, after request() has resolved.
Creates == {"createTab", "createWorkspace", "createWorktree"}

\* Herdr's reply line arrives; a damaged one leaves the client of the RPC in doubt.
\* A result in which a create does not find the pane makes it throw a plain TypeError.
ReplyArrives(n, t) ==
  /\ phase[n][t] = "written"
  /\ \/ Call(n, t) \in done /\ Settle(n, t, "ok")
     \/ Call(n, t) \in done /\ Want[post[n].wish].kind \in Creates /\ Settle(n, t, "misread")
     \/ Call(n, t) \in refused /\ Settle(n, t, "refused")
     \/ Call(n, t) \in done \union refused /\ Settle(n, t, "unsure")

\* Mutant: a request that was written counts as unsent until it is answered.
CallFailsUnflagged(n, t) == phase[n][t] \in {"opening", "partial", "written"} /\ Settle(n, t, "unwritten")

\* Mutant: the timer is cleared once the request is written.
CallFailsUntimed(n, t) ==
  \/ phase[n][t] = "opening" /\ Settle(n, t, "unwritten")
  \/ phase[n][t] = "partial" /\ Settle(n, t, "unsure")

\* Timeout, socket error or close before the reply.
CallFails(n, t) ==
  \/ phase[n][t] = "opening" /\ Settle(n, t, "unwritten")
  \/ phase[n][t] \in {"partial", "written"} /\ Settle(n, t, "unsure")

\* completedAt falls ttlMs behind.
TtlPasses(n) ==
  /\ entry[n] = "done"
  /\ entry' = [entry EXCEPT ![n] = "expired"]
  /\ UNCHANGED <<post, posts, job, phase, tail, herdrVars, lapsed, split, restarts>>

\* The bridge dies and comes back: maps, queues and open requests are gone,
\* what Herdr has received it may still carry out.
Restart ==
  /\ restarts < MaxRestarts
  /\ restarts' = restarts + 1
  /\ lapsed' = lapsed \union {job[n].plan.key : n \in {m \in Post : entry[m] # "none"}}
  /\ entry' = [n \in Post |-> "none"]
  /\ tail' = [t \in Target |-> NoJob]
  /\ job' = [n \in Post |-> IF job[n].state = "open" THEN [job[n] EXCEPT !.state = "over"] ELSE job[n]]
  /\ phase' = [n \in Post |-> [t \in Target |->
                IF phase[n][t] \in {"opening", "partial", "written"} THEN "unsure" ELSE phase[n][t]]]
  /\ post' = [n \in Post |-> IF post[n].state = "waiting" THEN [post[n] EXCEPT !.state = "lost"] ELSE post[n]]
  /\ UNCHANGED <<posts, herdrVars, split>>

(***************************************************************************)
(* Herdr (external): it acts on the requests it received in any order, one *)
(* connection each, whether or not the bridge still waits.                 *)
(***************************************************************************)
Halfway(n, t) == Len(job[n].plan.steps) = 2 /\ <<n, 1, t>> \in done /\ <<n, 2, t>> \notin done

HerdrExecutes(c) ==
  /\ c \in wire
  /\ wire' = wire \ {c}
  /\ done' = done \union {c}
  /\ split' = IF job[c[1]].plan.queued /\ job[c[1]].state = "open"
              THEN split \union {n \in Post \ {c[1]} : Halfway(n, c[3])} ELSE split
  /\ UNCHANGED <<post, posts, serverVars, refused, lapsed, restarts>>

HerdrRefuses(c) ==
  /\ c \in wire
  /\ wire' = wire \ {c}
  /\ refused' = refused \union {c}
  /\ UNCHANGED <<post, posts, serverVars, done, lapsed, split, restarts>>

ServerStep(n) ==
  \/ StartStep(n)
  \/ \E t \in Target : Write(n, t) \/ ReplyArrives(n, t) \/ CallFails(n, t)

Next ==
  \/ \E w \in Wish : PostWish(w)
  \/ \E n \in Post : ClientGivesUp(n) \/ ServerStep(n) \/ TtlPasses(n)
  \/ Restart
  \/ \E c \in wire : HerdrExecutes(c) \/ HerdrRefuses(c)

\* The promise chains run, and the 5 s timer of every call fires.
Fairness ==
  \A n \in Post : /\ WF_vars(StartStep(n))
                  /\ \A t \in Target : WF_vars(CallFails(n, t))

Spec == Init /\ [][Next]_vars /\ Fairness

(***************************************************************************)
(* Properties.                                                             *)
(***************************************************************************)
TypeOK ==
  /\ posts \in 0 .. MaxPosts /\ restarts \in 0 .. MaxRestarts
  /\ \A n \in Post : /\ post[n].state \in {"unsent", "waiting", "answered", "lost"}
                     /\ post[n].job \in 0 .. MaxPosts /\ post[n].answer \in Answers
                     /\ job[n].state \in {"none", "open", "over"} /\ job[n].prior \in 0 .. MaxPosts
                     /\ phase[n] \in [Target -> Phase]
  /\ entry \in [Post -> {"none", "running", "done", "expired"}]
  /\ tail \in [Target -> 0 .. MaxPosts]
  /\ wire \intersect done = {} /\ wire \intersect refused = {} /\ done \intersect refused = {}
  /\ split \subseteq Post

Reached(n) == \E c \in wire \union done : c[1] = n

\* A keyed mutation reaches Herdr from two jobs only if the bridge had forgotten
\* the finished first one (ten minutes passed, 512 later requests, a restart): a
\* retry, an eviction or a late answer never types a reply twice.
OnceUntilForgotten ==
  \A n, m \in Post :
    /\ n # m /\ Reached(n) /\ Reached(m)
    /\ Keyed(job[n].plan) /\ job[n].plan.dedup = job[m].plan.dedup /\ job[n].plan.key = job[m].plan.key
    => job[n].plan.key \in lapsed

Definite(a) == ~a.ok /\ ~a.typed /\ ~a.unsure

\* The jobs a client speaks of when it speaks of post n: those of the same wish
\* that its request id ties together, or the post's own.
Ours(n) ==
  {m \in Post : /\ post[m].state # "unsent" /\ post[m].wish = post[n].wish
                /\ m = n \/ (Keyed(job[m].plan) /\ job[m].plan.key \notin lapsed)}

\* Herdr carried out the create of job n and answered with a result it cannot read.
Misread(n) == \E t \in Target : phase[n][t] = "misread"

\* Whoever is told plainly that a mutation failed may do it again: nothing of it
\* is in the terminal or on its way there, not even from an earlier post whose
\* answer was lost.  The one way to be told wrong is a create that Herdr answered
\* with a result of the wrong shape, whose TypeError no code marks as ambiguous.
\* (Closing a scope is several mutations: see the README.)
FailureIsHonest ==
  \A n \in Post :
    post[n].state = "answered" /\ Definite(post[n].answer) /\ Want[post[n].wish].kind # "closeScope"
    => \A m \in Ours(n) : Reached(m) => Misread(m)

\* No mutation that waited its turn in the pane's queue lands between the text
\* and the submit keys of a reply that was confirmed.
ReplyIsWhole == \A n \in split : ~(job[n].state = "over" /\ job[n].answer.ok)

\* Every request is answered, whatever Herdr does with the ones before it in
\* the queue.
EveryPostAnswered == \A n \in Post : post[n].state = "waiting" ~> post[n].state # "waiting"

=============================================================================
