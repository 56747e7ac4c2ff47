--------------------------- MODULE MutationsProofs ---------------------------
(***************************************************************************)
(* For any wishes, targets, posts, restarts and sizes of the deduplicator: *)
(* a keyed mutation runs once until it is forgotten, a plain failure is    *)
(* true, and a confirmed reply is in one piece.                            *)
(***************************************************************************)
EXTENDS Mutations, SequenceTheorems, TLAPS

Started(n) == job[n].state # "none"
Over(n)    == job[n].state = "over"
Pending    == {"opening", "partial"}

(***************************************************************************)
(* Types.  A job's plan is the plan of its post's wish.                    *)
(***************************************************************************)
PlansOf(w) == {PlanOf(Want[w], S) : S \in SUBSET Target}

Posts ==
  [state : {"unsent", "waiting", "answered", "lost"}, wish : Wish \union {Unsent.wish},
   job : 0 .. MaxPosts, answer : Answers]

Plans == (UNION {PlansOf(w) : w \in Wish}) \union {Idle.plan}

Jobs ==
  [state : {"none", "open", "over"}, plan : Plans,
   prior : 0 .. MaxPosts, step : 0 .. 2, answer : Answers]

Typed ==
  /\ posts \in 0 .. MaxPosts
  /\ post \in [Post -> Posts]
  /\ job \in [Post -> Jobs]
  /\ phase \in [Post -> [Target -> Phase]]
  /\ entry \in [Post -> {"none", "running", "done", "expired"}]
  /\ tail \in [Target -> 0 .. MaxPosts]
  /\ split \subseteq Post

\* Posts are numbered as they are made, and a job belongs to the post of its number.
Numbered ==
  \A n \in Post :
    /\ n > posts => post[n].state = "unsent" /\ ~Started(n)
    /\ n <= posts => post[n].state # "unsent" /\ post[n].wish \in Wish
    /\ Started(n) => job[n].plan \in PlansOf(post[n].wish) /\ job[n].plan.valid
    /\ ~Started(n) => job[n] = Idle /\ entry[n] = "none"

(***************************************************************************)
(* The deduplicators.                                                      *)
(***************************************************************************)
SameRequest(p, q) == p.dedup = q.dedup /\ p.key = q.key

\* An entry tells how far its job is; a keyed job without one is forgotten.
Entered ==
  \A n \in Post :
    /\ entry[n] = "running" => job[n].state = "open"
    /\ entry[n] \in {"done", "expired"} => Over(n)
    /\ entry[n] # "none" => Keyed(job[n].plan)
    /\ Keyed(job[n].plan) /\ entry[n] = "none" => job[n].plan.key \in lapsed

\* Two jobs of one request: the first was forgotten when the second started.
OneJob ==
  \A n, m \in Post :
    n # m /\ Keyed(job[n].plan) /\ SameRequest(job[n].plan, job[m].plan) => job[n].plan.key \in lapsed

(***************************************************************************)
(* The calls.                                                              *)
(***************************************************************************)
Seen == wire \union done \union refused

Called ==
  /\ Seen \subseteq Post \X (1 .. 2) \X Target
  /\ \A c \in Seen : c[2] <= job[c[1]].step /\ c[3] \in job[c[1]].plan.steps[c[2]]
  /\ wire \intersect done = {} /\ wire \intersect refused = {} /\ done \intersect refused = {}

\* A job has made the calls of its steps in order, and goes on only when all
\* calls of a step were carried out.
Phased ==
  \A n \in Post :
    /\ job[n].step <= Len(job[n].plan.steps)
    /\ job[n].step = 0 => \A t \in Target : phase[n][t] = "idle"
    /\ job[n].step > 0 => \A t \in Target : phase[n][t] # "idle" <=> t \in job[n].plan.steps[job[n].step]
    /\ \A t \in Target : /\ phase[n][t] \in Pending => Call(n, t) \notin Seen
                         /\ phase[n][t] = "ok" => Call(n, t) \in done
    /\ \A i \in 1 .. 2, t \in Target :
         i < job[n].step /\ t \in job[n].plan.steps[i] => <<n, i, t>> \in done

\* Whoever is told that all went well: it did.
FineIsDone ==
  \A n \in Post :
    job[n].answer.ok =>
      /\ Over(n)
      /\ \A i \in 1 .. 2, t \in Target :
           i <= Len(job[n].plan.steps) /\ t \in job[n].plan.steps[i] => <<n, i, t>> \in done

(***************************************************************************)
(* The queue of a pane: jobs settle in the order of their numbers.         *)
(***************************************************************************)
Queues(n, t) ==
  /\ Started(n) /\ job[n].plan.queued
  /\ job[n].plan.steps # <<>> /\ t \in job[n].plan.steps[1]

Began(n) == Over(n) \/ job[n].step > 0

Queued ==
  \A t \in Target :
    /\ tail[t] # NoJob => Queues(tail[t], t)
    /\ \A n \in Post : Queues(n, t) /\ ~Over(n) => n <= tail[t]
    /\ \A n, m \in Post :
         Queues(n, t) /\ Queues(m, t) /\ m < n =>
           /\ Began(n) => Over(m)
           /\ Over(m) \/ (m <= job[n].prior /\ Queues(job[n].prior, t) /\ job[n].prior < n)

SplitOver == \A n \in split : Over(n) /\ ~job[n].answer.ok

(***************************************************************************)
(* What clients are told.                                                  *)
(***************************************************************************)
\* A client waits for the job of its post, or for that of an earlier post of the
\* same request with the same content.
Waits ==
  \A k \in Post :
    post[k].state = "waiting" =>
      LET m == post[k].job
          asked == PlanOf(Want[post[k].wish], Target)
      IN  /\ m \in Post /\ job[m].state = "open"
          /\ k # m => /\ ~Started(k)
                      /\ Keyed(asked) /\ SameRequest(job[m].plan, asked)
                      /\ job[m].plan.signature = asked.signature

\* Nothing of post n reached Herdr, but for a create whose result was misread, and
\* nothing of it will.
Silent(n) ==
  /\ n <= posts /\ job[n].state # "open"
  /\ \A t \in Target : phase[n][t] \notin Pending
  /\ Reached(n) => Misread(n)

Plainly(n) == Definite(job[n].answer) /\ Want[post[n].wish].kind # "closeScope"

\* A job that failed plainly is silent, as long as a client may still be told.
JobsHonest == \A n \in Post : Over(n) /\ entry[n] # "none" /\ Plainly(n) => Silent(n)

PostsHonest ==
  \A n \in Post :
    post[n].state = "answered" /\ Definite(post[n].answer) /\ Want[post[n].wish].kind # "closeScope"
    => \A m \in Ours(n) : Silent(m)

IInv ==
  /\ Typed /\ Numbered /\ Entered /\ OneJob /\ Called /\ Phased /\ FineIsDone
  /\ Queued /\ SplitOver /\ Waits /\ JobsHonest /\ PostsHonest

-----------------------------------------------------------------------------
(***************************************************************************)
(* Lemmas about plans.                                                     *)
(***************************************************************************)
Repeats(s, S, x, n) == s \in Seq(S) /\ Len(s) \in 0 .. n /\ \A i \in 1 .. Len(s) : s[i] = x

LEMMA WantKind ==
  ASSUME NEW w \in Wish
  PROVE  /\ Want[w].kind \in Kind
         /\ Want[w].targets \in SUBSET Target
         /\ Want[w].kind # "closeScope" => \E t \in Target : Want[w].targets = {t}
  BY MutationAssumption

LEMMA FirstOfThree ==
  ASSUME NEW a, NEW b, NEW c, NEW x, NEW y, NEW z, <<a, b, c>> = <<x, y, z>>
  PROVE  a = x
  OBVIOUS

LEMMA RepeatsNone == ASSUME NEW S, NEW x PROVE Repeats(<<>>, S, x, 1)
  BY DEF Repeats

LEMMA RepeatsOnce == ASSUME NEW S, NEW x \in S PROVE Repeats(<<x>>, S, x, 1)
  BY DEF Repeats

LEMMA RepeatsTwice ==
  ASSUME NEW S, NEW x, NEW s, NEW u, Repeats(s, S, x, 1), Repeats(u, S, x, 1)
  PROVE  Repeats(s \o u, S, x, 2)
<1>1. s \in Seq(S) /\ u \in Seq(S)
  BY DEF Repeats
<1>2. Len(s \o u) = Len(s) + Len(u) /\ s \o u \in Seq(S)
  BY <1>1, ConcatProperties
<1> QED BY <1>1, <1>2, ConcatProperties DEF Repeats

\* A reply has at most two steps, both at its pane.
LEMMA ReplyPlan ==
  ASSUME NEW w \in Wish
  PROVE  /\ Repeats(ReplyPane(Want[w]).steps, SUBSET Target, Want[w].targets, 2)
         /\ ReplyPane(Want[w]).queued = TRUE
         /\ ReplyPane(Want[w]).dedup \in {"none", "reply"}
<1> DEFINE T == Want[w].targets
           A == IF Want[w].say = NoText THEN <<>> ELSE <<T>>
           B == IF Want[w].submit THEN <<T>> ELSE <<>>
<1>1. T \in SUBSET Target
  BY WantKind
<1>2. /\ ReplyPane(Want[w]).steps = A \o B
      /\ ReplyPane(Want[w]).queued = TRUE
      /\ ReplyPane(Want[w]).dedup \in {"none", "reply"}
  BY DEF ReplyPane, Plan
<1>3. Repeats(A, SUBSET Target, T, 1) /\ Repeats(B, SUBSET Target, T, 1)
  BY <1>1, RepeatsNone, RepeatsOnce, Zenon
<1> HIDE DEF A, B
<1>4. Repeats(A \o B, SUBSET Target, T, 2)
  BY <1>3, RepeatsTwice, Zenon
<1> QED BY <1>2, <1>4

LEMMA PlanShape ==
  ASSUME NEW w \in Wish, NEW p \in PlansOf(w)
  PROVE  /\ p.steps \in Seq(SUBSET Target) /\ Len(p.steps) \in 0 .. 2
         /\ Want[w].kind # "closeScope" => Repeats(p.steps, SUBSET Target, Want[w].targets, 2)
         /\ Want[w].kind # "reply" => Len(p.steps) = 1
         /\ p.queued => Want[w].kind # "closeScope"
         /\ p.dedup = "reply" => Want[w].kind = "reply"
         /\ Want[w].kind = "reply" => p.dedup \in {"none", "reply"}
<1>1. PICK S \in SUBSET Target : p = PlanOf(Want[w], S)
  BY DEF PlansOf
<1> DEFINE T == Want[w].targets
<1>2. T \in SUBSET Target /\ Want[w].kind \in Kind
  BY WantKind
<1>3. Repeats(<<T>>, SUBSET Target, T, 2) /\ Len(<<T>>) = 1 /\ <<T>> \in Seq(SUBSET Target)
  BY <1>2 DEF Repeats
<1>4. CASE Want[w].kind = "reply"
  BY <1>1, <1>4, ReplyPlan DEF PlanOf, Repeats
<1>5. CASE Want[w].kind \in {"keys", "input", "submit", "close"}
  <2>1. p.steps = <<T>> /\ p.dedup = "none"
    BY <1>1, <1>5 DEF PlanOf, KeysPane, InputPane, SubmitPane, ClosePane, Direct, Plan
  <2> QED BY <2>1, <1>3, <1>5
<1>6. CASE Want[w].kind \in {"focus", "rename"}
  <2>1. p.steps = <<T>> /\ p.dedup = "none"
    BY <1>1, <1>6 DEF PlanOf, FocusPane, RenameTab, Direct, Plan
  <2> QED BY <2>1, <1>3, <1>6
<1>7. CASE Want[w].kind \in {"createTab", "createWorkspace", "createWorktree", "removeWorktree"}
  <2>1. p.steps = <<T>> /\ p.dedup # "reply"
    BY <1>1, <1>7 DEF PlanOf, CreateTab, CreateWorkspace, CreateWorktree, RemoveWorktree, Once, Plan
  <2> QED BY <2>1, <1>3, <1>7
<1>8. CASE Want[w].kind = "closeScope"
  <2>1. p.steps = <<T \intersect S>> /\ p.queued = FALSE /\ p.dedup # "reply"
    BY <1>1, <1>8 DEF PlanOf, CloseScope, Once, Plan
  <2>2. T \intersect S \in SUBSET Target
    BY <1>2
  <2> QED BY <2>1, <2>2, <1>8
<1> QED BY <1>2, <1>4, <1>5, <1>6, <1>7, <1>8 DEF Kind

\* Only the panes of a scope depend on what the engine listed.
LEMMA PlansAgree ==
  ASSUME NEW w \in Wish, NEW p \in PlansOf(w), NEW q \in PlansOf(w)
  PROVE  p.valid = q.valid /\ p.dedup = q.dedup /\ p.key = q.key /\ p.signature = q.signature
<1>1. PICK S \in SUBSET Target : p = PlanOf(Want[w], S)
  BY DEF PlansOf
<1>2. PICK R \in SUBSET Target : q = PlanOf(Want[w], R)
  BY DEF PlansOf
<1>3. CASE Want[w].kind = "closeScope"
  <2>1. PlanOf(Want[w], S) = CloseScope(Want[w], S) /\ PlanOf(Want[w], R) = CloseScope(Want[w], R)
    BY <1>3 DEF PlanOf
  <2> QED BY <1>1, <1>2, <2>1 DEF CloseScope, Once, Plan
<1>4. CASE Want[w].kind # "closeScope"
  <2>1. PlanOf(Want[w], S) = PlanOf(Want[w], R)
    BY <1>4 DEF PlanOf
  <2> QED BY <1>1, <1>2, <2>1
<1> QED BY <1>3, <1>4

\* Requests that count as the same are both the closing of a scope, or neither.
LEMMA SameKind ==
  ASSUME NEW w \in Wish, NEW p \in PlansOf(w), NEW v \in Wish, NEW q \in PlansOf(v),
         Keyed(p), p.dedup = q.dedup, p.signature = q.signature, Want[v].kind = "closeScope"
  PROVE  Want[w].kind = "closeScope"
<1>1. PICK S \in SUBSET Target : p = PlanOf(Want[w], S)
  BY DEF PlansOf
<1>2. PICK R \in SUBSET Target : q = PlanOf(Want[v], R)
  BY DEF PlansOf
<1>3. q.signature = <<"closeScope", Want[v].targets, Want[v].say>> /\ q.dedup \in {"none", "action"}
  BY <1>2 DEF PlanOf, CloseScope, Once, Plan
<1>4. SUFFICES ASSUME Want[w].kind # "closeScope" PROVE FALSE
  OBVIOUS
<1>5. CASE Want[w].kind = "removeWorktree"
  <2>1. p.signature = <<"removeWorktree", Want[w].targets, Want[w].say>>
    BY <1>1, <1>5 DEF PlanOf, RemoveWorktree, Once, Plan
  <2>2. <<"removeWorktree", Want[w].targets, Want[w].say>> = <<"closeScope", Want[v].targets, Want[v].say>>
    BY <2>1, <1>3
  <2>3. "removeWorktree" = "closeScope"
    BY <2>2, FirstOfThree
  <2> QED BY <2>3
<1>6. CASE Want[w].kind = "reply"
  BY <1>3, <1>6, PlanShape DEF Keyed
<1>7. CASE Want[w].kind \in {"keys", "input", "submit", "close", "focus", "rename"}
  BY <1>1, <1>7 DEF PlanOf, KeysPane, InputPane, SubmitPane, ClosePane, FocusPane, RenameTab, Direct,
     Plan, Keyed
<1>8. CASE Want[w].kind \in {"createTab", "createWorkspace", "createWorktree"}
  <2>1. p.dedup \in {"none", "create", "worktree"}
    BY <1>1, <1>8 DEF PlanOf, CreateTab, CreateWorkspace, CreateWorktree, Once, Plan
  <2> QED BY <2>1, <1>3 DEF Keyed
<1> QED BY <1>4, <1>5, <1>6, <1>7, <1>8, WantKind DEF Kind

-----------------------------------------------------------------------------
(***************************************************************************)
(* Lemmas about the invariant.                                             *)
(***************************************************************************)
LEMMA AnswerTyped ==
  ASSUME NEW o \in BOOLEAN, NEW y \in BOOLEAN, NEW u \in BOOLEAN
  PROVE  Answer(o, y, u) \in Answers /\ Answer(o, y, u).ok = o
<1>1. Answer(o, y, u) \in Answers
  BY DEF Answers
<1>2. Answer(o, y, u).ok = o
  BY DEF Answer
<1> QED BY <1>1, <1>2

LEMMA InitTyped == Init => IInv
<1> SUFFICES ASSUME Init PROVE IInv
  OBVIOUS
<1>1. Rejection \in Answers /\ ~Rejection.ok
  BY AnswerTyped DEF Rejection
<1>2. /\ Idle.state = "none" /\ Idle.step = 0 /\ Idle.plan.dedup = "none" /\ Idle.plan.steps = <<>>
      /\ Idle.answer = Rejection /\ Unsent.state = "unsent"
  BY DEF Unsent, Idle, Plan
<1>10. Unsent \in Posts
  BY <1>1, MutationAssumption DEF Unsent, Posts, NoJob
<1>11. Idle \in Jobs
  <2>1. Idle.plan \in Plans
    BY DEF Plans
  <2>2. Idle = [state |-> "none", plan |-> Idle.plan, prior |-> NoJob, step |-> 0, answer |-> Rejection]
    BY DEF Idle
  <2> QED BY <1>1, <2>1, <2>2, MutationAssumption DEF Jobs, NoJob
<1>3. MaxPosts \in Nat /\ 0 \notin Post
  BY MutationAssumption DEF Post
<1>4. Typed
  BY <1>3, <1>10, <1>11 DEF Init, Typed, Phase, NoJob
<1>5. \A n \in Post : /\ ~Started(n) /\ job[n] = Idle /\ ~Keyed(job[n].plan) /\ post[n].state = "unsent"
                      /\ entry[n] = "none" /\ n > posts
  BY <1>2, <1>3 DEF Init, Started, Keyed, Post
<1>6. Entered /\ OneJob /\ Waits /\ JobsHonest /\ PostsHonest
  BY <1>2, <1>5 DEF Entered, OneJob, Waits, JobsHonest, PostsHonest, Over
<1>12. Numbered
  BY <1>3, <1>4, <1>5 DEF Numbered, Typed, Post
<1>7. Called /\ FineIsDone /\ SplitOver
  BY <1>1, <1>2, <1>5 DEF Init, Called, FineIsDone, SplitOver, Seen
<1>8. Phased
  <2>1. Len(Idle.plan.steps) = 0
    BY <1>2
  <2> QED BY <1>2, <1>5, <2>1 DEF Phased, Init, Pending
<1>9. Queued
  BY <1>5 DEF Init, Queued, Queues, NoJob
<1> QED BY <1>4, <1>6, <1>7, <1>8, <1>9, <1>12 DEF IInv

LEMMA PostIsNat == Post \subseteq Nat \ {0} /\ MaxPosts \in Nat /\ NoJob \notin Post
  BY MutationAssumption DEF Post, NoJob

LEMMA JobFields ==
  ASSUME Typed, NEW n \in Post
  PROVE  /\ job[n].state \in {"none", "open", "over"} /\ job[n].prior \in 0 .. MaxPosts
         /\ job[n].step \in 0 .. 2 /\ job[n].answer \in Answers
  BY DEF Typed, Jobs

\* The plan of a job is one of the plans of its wish.
LEMMA JobPlan ==
  ASSUME Typed, Numbered, NEW n \in Post
  PROVE  /\ job[n].plan.steps \in Seq(SUBSET Target) /\ Len(job[n].plan.steps) \in 0 .. 2
         /\ Started(n) => /\ post[n].wish \in Wish /\ job[n].plan \in PlansOf(post[n].wish)
                          /\ n <= posts /\ post[n].state # "unsent"
         /\ ~Started(n) => ~Keyed(job[n].plan) /\ job[n].step = 0 /\ job[n].plan.steps = <<>>
<1>1. CASE Started(n)
  <2>1. n <= posts
    BY <1>1, PostIsNat DEF Numbered, Typed
  <2>2. post[n].wish \in Wish /\ job[n].plan \in PlansOf(post[n].wish) /\ post[n].state # "unsent"
    BY <1>1, <2>1 DEF Numbered
  <2> QED BY <1>1, <2>1, <2>2, PlanShape
<1>2. CASE ~Started(n)
  <2>1. Idle.plan.dedup = "none" /\ Idle.plan.steps = <<>> /\ Idle.step = 0
    BY DEF Idle, Plan
  <2>2. job[n].plan.dedup = "none" /\ job[n].plan.steps = <<>> /\ job[n].step = 0
    BY <1>2, <2>1 DEF Numbered
  <2>3. job[n].plan.steps \in Seq(SUBSET Target) /\ Len(job[n].plan.steps) \in 0 .. 2
    BY <2>2
  <2> QED BY <1>2, <2>2, <2>3 DEF Keyed
<1> QED BY <1>1, <1>2

\* Except for the closing of a scope, all calls of a job go to one target.
LEMMA OneTarget ==
  ASSUME Typed, Numbered, NEW n \in Post, Started(n), Want[post[n].wish].kind # "closeScope"
  PROVE  \E t \in Target : \A i \in 1 .. Len(job[n].plan.steps) : job[n].plan.steps[i] = {t}
<1>1. post[n].wish \in Wish /\ job[n].plan \in PlansOf(post[n].wish)
  BY JobPlan
<1>2. \A i \in 1 .. Len(job[n].plan.steps) : job[n].plan.steps[i] = Want[post[n].wish].targets
  BY <1>1, PlanShape DEF Repeats
<1> QED BY <1>1, <1>2, WantKind

LEMMA QueuesOne ==
  ASSUME Typed, Numbered, NEW n \in Post, NEW t \in Target, Queues(n, t)
  PROVE  \A i \in 1 .. Len(job[n].plan.steps) : job[n].plan.steps[i] = {t}
<1>1. Want[post[n].wish].kind # "closeScope" /\ job[n].plan.steps \in Seq(SUBSET Target)
  BY JobPlan, PlanShape DEF Queues
<1>2. PICK u \in Target : \A i \in 1 .. Len(job[n].plan.steps) : job[n].plan.steps[i] = {u}
  BY <1>1, OneTarget DEF Queues
<1>3. 1 \in 1 .. Len(job[n].plan.steps)
  BY <1>1 DEF Queues
<1> QED BY <1>2, <1>3 DEF Queues

\* What keeps the answer of a post honest.
LEMMA StaysHonest ==
  ASSUME PostsHonest, NEW k \in Post, post[k].state = "answered", post'[k].answer = post[k].answer,
         lapsed \subseteq lapsed',
         \A n \in Post : /\ Silent(n) => Silent(n)'
                         /\ post'[n].wish = post[n].wish
                         /\ post'[n].state # "unsent" => post[n].state # "unsent"
                         /\ job'[n].plan = job[n].plan
  PROVE  Definite(post'[k].answer) /\ Want[post'[k].wish].kind # "closeScope"
         => \A m \in Ours(k)' : Silent(m)'
  BY DEF PostsHonest, Ours, Keyed

-----------------------------------------------------------------------------
(***************************************************************************)
(* The steps of clients, clocks and Herdr.                                 *)
(***************************************************************************)
LEMMA ClientGivesUpKeeps ==
  ASSUME IInv, NEW k \in Post, ClientGivesUp(k)
  PROVE  IInv'
<1> USE DEF IInv
<1>1. /\ post' = [post EXCEPT ![k].state = "lost"] /\ post[k].state = "waiting"
      /\ UNCHANGED <<posts, job, phase, entry, tail, wire, done, refused, lapsed, split>>
  BY DEF ClientGivesUp, serverVars, herdrVars
<1>2. Typed'
  BY <1>1 DEF Typed, Posts
<1>3. \A n \in Post : /\ post'[n].wish = post[n].wish /\ post'[n].answer = post[n].answer /\ post'[n].job = post[n].job
                      /\ post'[n].state = IF n = k THEN "lost" ELSE post[n].state
  BY <1>1 DEF Typed, Posts
<1>4. Numbered'
  BY <1>1, <1>3 DEF Numbered, Started
<1>5. Entered' /\ OneJob' /\ Called' /\ Phased' /\ FineIsDone' /\ Queued' /\ SplitOver'
  <2>1. Entered'
    BY <1>1 DEF Entered, Over
  <2>2. OneJob'
    BY <1>1 DEF OneJob
  <2>3. Called'
    BY <1>1 DEF Called, Seen
  <2>4. Phased'
    BY <1>1 DEF Phased, Seen, Call
  <2>5. FineIsDone'
    BY <1>1 DEF FineIsDone, Over
  <2>6. Queued'
    BY <1>1 DEF Queued, Queues, Began, Started, Over
  <2>7. SplitOver'
    BY <1>1 DEF SplitOver, Over
  <2> QED BY <2>1, <2>2, <2>3, <2>4, <2>5, <2>6, <2>7
<1>6. Waits'
  BY <1>1, <1>3 DEF Waits, Started
<1>7. \A n \in Post : Silent(n) <=> Silent(n)'
  BY <1>1 DEF Silent, Misread, Reached
<1>8. JobsHonest'
  BY <1>1, <1>3, <1>7 DEF JobsHonest, Plainly, Over
<1>9. PostsHonest'
  BY <1>1, <1>3, <1>7, StaysHonest DEF PostsHonest
<1> QED BY <1>2, <1>4, <1>5, <1>6, <1>8, <1>9

LEMMA TtlPassesKeeps ==
  ASSUME IInv, NEW k \in Post, TtlPasses(k)
  PROVE  IInv'
<1> USE DEF IInv
<1>1. /\ entry' = [entry EXCEPT ![k] = "expired"] /\ entry[k] = "done"
      /\ UNCHANGED <<post, posts, job, phase, tail, wire, done, refused, lapsed, split>>
  BY DEF TtlPasses, herdrVars
<1>2. Typed'
  BY <1>1 DEF Typed
<1>3. \A n \in Post : entry'[n] = IF n = k THEN "expired" ELSE entry[n]
  BY <1>1 DEF Typed
<1>4. Numbered' /\ Entered'
  BY <1>1, <1>3 DEF Numbered, Entered, Started, Over
<1>5. OneJob' /\ Called' /\ Phased' /\ FineIsDone' /\ Queued' /\ SplitOver' /\ Waits'
  <2>1. OneJob'
    BY <1>1 DEF OneJob
  <2>2. Called'
    BY <1>1 DEF Called, Seen
  <2>3. Phased'
    BY <1>1 DEF Phased, Seen, Call
  <2>4. FineIsDone'
    BY <1>1 DEF FineIsDone, Over
  <2>5. Queued'
    BY <1>1 DEF Queued, Queues, Began, Started, Over
  <2>6. SplitOver'
    BY <1>1 DEF SplitOver, Over
  <2>7. Waits'
    BY <1>1 DEF Waits, Started
  <2> QED BY <2>1, <2>2, <2>3, <2>4, <2>5, <2>6, <2>7
<1>6. JobsHonest' /\ PostsHonest'
  BY <1>1, <1>3 DEF JobsHonest, PostsHonest, Ours, Silent, Misread, Reached, Plainly, Over
<1> QED BY <1>2, <1>4, <1>5, <1>6

\* Herdr's steps move a call from one of its sets to another.
LEMMA HerdrKeeps ==
  ASSUME IInv, NEW c \in wire, HerdrRefuses(c) \/ HerdrExecutes(c), SplitOver'
  PROVE  IInv'
<1> USE DEF IInv
<1>1. /\ UNCHANGED <<post, posts, job, phase, entry, tail, lapsed>>
      /\ wire' = wire \ {c}
      /\ \/ done' = done \union {c} /\ refused' = refused
         \/ refused' = refused \union {c} /\ done' = done
  BY DEF HerdrRefuses, HerdrExecutes, serverVars
<1>2. split' \subseteq Post
  BY DEF HerdrRefuses, HerdrExecutes, Typed
<1>3. Seen' = Seen /\ done \subseteq done' /\ wire' \union done' \subseteq wire \union done
  BY <1>1 DEF Seen
<1>4. Typed' /\ Numbered' /\ Entered' /\ OneJob' /\ Waits'
  BY <1>1, <1>2 DEF Typed, Numbered, Entered, OneJob, Waits, Started, Over
<1>5. Called'
  BY <1>1, <1>3 DEF Called
<1>6. Phased' /\ FineIsDone'
  BY <1>1, <1>3 DEF Phased, FineIsDone, Over, Call
<1>7. Queued'
  BY <1>1 DEF Queued, Queues, Began, Started, Over
<1>8. \A n \in Post : Silent(n) => Silent(n)'
  BY <1>1, <1>3 DEF Silent, Misread, Reached
<1>9. JobsHonest'
  BY <1>1, <1>8 DEF JobsHonest, Plainly, Over
<1>10. PostsHonest'
  BY <1>1, <1>8, StaysHonest DEF PostsHonest
<1> QED BY <1>4, <1>5, <1>6, <1>7, <1>9, <1>10

\* A mutation whose turn has come finds the reply before it settled, and unless
\* both its steps were carried out, settled as failed.
LEMMA HerdrSplitsOver ==
  ASSUME IInv, NEW c \in wire, HerdrExecutes(c)
  PROVE  SplitOver'
<1> USE DEF IInv
<1>1. UNCHANGED job
  BY DEF HerdrExecutes, serverVars
<1>2. CASE split' = split
  BY <1>1, <1>2 DEF SplitOver, Over
<1>3. CASE split' # split
  <2> DEFINE k == c[1]
             t == c[3]
  <2>1. /\ k \in Post /\ job[k].plan.queued /\ job[k].state = "open"
        /\ split' = split \union {n \in Post \ {k} : Halfway(n, t)}
    BY <1>3 DEF HerdrExecutes, Called, Seen
  <2>2. c[2] \in 1 .. 2 /\ t \in Target /\ c[2] <= job[k].step /\ t \in job[k].plan.steps[c[2]]
    BY DEF Called, Seen
  <2>3. job[k].step <= Len(job[k].plan.steps) /\ job[k].step \in 0 .. 2
    BY <2>1 DEF Phased, Typed, Jobs
  <2>4. Queues(k, t) /\ Began(k) /\ ~Over(k)
    <3>1. 1 \in 1 .. Len(job[k].plan.steps) /\ c[2] \in 1 .. Len(job[k].plan.steps)
      BY <2>1, <2>2, <2>3, JobPlan
    <3>2. job[k].plan.steps \in Seq(SUBSET Target) /\ job[k].plan.steps # <<>>
      BY <2>1, <3>1, JobPlan
    <3>3. job[k].plan.steps[1] \in SUBSET Target /\ Started(k)
      BY <2>1, <3>1, <3>2 DEF Started
    <3>4. PICK u \in Target : \A i \in 1 .. Len(job[k].plan.steps) : job[k].plan.steps[i] = {u}
      <4>1. Want[post[k].wish].kind # "closeScope"
        BY <2>1, <3>3, JobPlan, PlanShape
      <4> QED BY <2>1, <3>3, <4>1, OneTarget
    <3>5. t \in job[k].plan.steps[1]
      BY <2>2, <3>1, <3>4
    <3>6. job[k].step > 0
      BY <2>2, <2>3
    <3> QED BY <2>1, <2>2, <3>2, <3>3, <3>5, <3>6 DEF Queues, Began, Over
  <2>5. ASSUME NEW n \in Post, n # k, Halfway(n, t)
        PROVE  Over(n) /\ ~job[n].answer.ok
    <3>1. Len(job[n].plan.steps) = 2 /\ <<n, 1, t>> \in done /\ <<n, 2, t>> \notin done
      BY <2>5 DEF Halfway
    <3>2. 1 <= job[n].step /\ t \in job[n].plan.steps[1]
      BY <3>1 DEF Called, Seen
    <3>3. Started(n) /\ job[n].plan.steps # <<>> /\ job[n].plan.steps \in Seq(SUBSET Target)
      BY <3>1, <3>2, JobPlan
    <3>4. Want[post[n].wish].kind = "reply"
      BY <3>1, <3>3, JobPlan, PlanShape
    <3>5. job[n].plan.queued
      <4>1. PICK S \in SUBSET Target : job[n].plan = PlanOf(Want[post[n].wish], S)
        BY <3>3, JobPlan DEF PlansOf
      <4> QED BY <3>3, <3>4, <4>1, JobPlan, ReplyPlan DEF PlanOf
    <3>6. Queues(n, t) /\ Began(n)
      BY <3>2, <3>3, <3>5, JobFields DEF Queues, Began
    <3>7. Over(n)
      <4>1. n \in Nat /\ k \in Nat
        BY <2>1, PostIsNat
      <4>2. CASE n < k
        BY <2>1, <2>2, <2>4, <3>6, <4>2 DEF Queued
      <4>3. CASE k < n
        BY <2>1, <2>2, <2>4, <3>6, <4>3 DEF Queued
      <4> QED BY <2>5, <4>1, <4>2, <4>3
    <3>8. t \in job[n].plan.steps[2]
      BY <2>2, <3>1, <3>2, <3>6, QueuesOne
    <3>9. ~job[n].answer.ok
      BY <2>2, <3>1, <3>8 DEF FineIsDone
    <3> QED BY <3>7, <3>9
  <2> QED BY <1>1, <2>1, <2>5 DEF SplitOver, Over
<1> QED BY <1>2, <1>3

\* A call is written once, before anyone has seen it.
LEMMA WriteKeeps ==
  ASSUME IInv, NEW k \in Post, NEW t \in Target, Write(k, t)
  PROVE  IInv'
<1> USE DEF IInv
<1>1. UNCHANGED <<post, posts, job, entry, tail, done, refused, lapsed, split>>
  BY DEF Write
<1>2. PICK x \in {"partial", "written"} :
        /\ phase' = [phase EXCEPT ![k][t] = x] /\ phase[k][t] \in Pending
        /\ wire' = IF x = "written" THEN wire \union {Call(k, t)} ELSE wire
  BY DEF Write, Pending
<1>3. \A n \in Post, u \in Target : phase'[n][u] = IF n = k /\ u = t THEN x ELSE phase[n][u]
  BY <1>2 DEF Typed
<1>4. Typed'
  <2>1. phase' \in [Post -> [Target -> Phase]]
    BY <1>2 DEF Typed, Phase
  <2> QED BY <1>1, <2>1 DEF Typed
<1>5. Numbered' /\ Entered' /\ OneJob' /\ SplitOver' /\ Waits'
  BY <1>1 DEF Numbered, Entered, OneJob, SplitOver, Waits, Started, Over
<1>6. job[k].step \in 1 .. 2 /\ t \in job[k].plan.steps[job[k].step]
  <2>1. phase[k][t] # "idle" /\ job[k].step \in 0 .. 2
    BY <1>2, JobFields DEF Pending
  <2>2. job[k].step > 0
    BY <2>1 DEF Phased
  <2> QED BY <2>1, <2>2 DEF Phased
<1>7. Call(k, t) \notin Seen /\ Call(k, t) \in Post \X (1 .. 2) \X Target
  BY <1>2, <1>6 DEF Phased, Call
<1>8. Called'
  <2>1. Seen' \subseteq Seen \union {Call(k, t)}
    BY <1>1, <1>2 DEF Seen
  <2>2. Call(k, t)[1] = k /\ Call(k, t)[2] = job[k].step /\ Call(k, t)[3] = t
    BY DEF Call
  <2>3. \A c \in Seen' : c[2] <= job'[c[1]].step /\ c[3] \in job'[c[1]].plan.steps[c[2]]
    BY <1>1, <1>6, <2>1, <2>2 DEF Called
  <2>4. wire' \intersect done' = {} /\ wire' \intersect refused' = {} /\ done' \intersect refused' = {}
    BY <1>1, <1>2, <1>7 DEF Called, Seen
  <2> QED BY <1>7, <2>1, <2>3, <2>4 DEF Called
<1>9. Phased'
  <2>1. ASSUME NEW n \in Post, NEW u \in Target
        PROVE  /\ phase'[n][u] \in Pending => Call(n, u)' \notin Seen'
               /\ phase'[n][u] = "ok" => Call(n, u)' \in done'
               /\ phase'[n][u] # "idle" <=> phase[n][u] # "idle"
    <3>1. Call(n, u)' = Call(n, u) /\ (n # k \/ u # t => Call(n, u) # Call(k, t))
      BY <1>1 DEF Call
    <3>2. Seen' = IF x = "written" THEN Seen \union {Call(k, t)} ELSE Seen
      BY <1>1, <1>2 DEF Seen
    <3> QED BY <1>1, <1>2, <1>3, <3>1, <3>2 DEF Phased, Pending
  <2> QED BY <1>1, <2>1 DEF Phased
<1>10. FineIsDone' /\ Queued'
  BY <1>1 DEF FineIsDone, Queued, Queues, Began, Started, Over
<1>11. \A n \in Post : Silent(n) => Silent(n)'
  <2> SUFFICES ASSUME NEW n \in Post, Silent(n) PROVE Silent(n)'
    OBVIOUS
  <2>1. n # k
    BY <1>2 DEF Silent
  <2>2. \A c \in wire' \union done' : c[1] = n => c \in wire \union done
    BY <1>1, <1>2, <2>1 DEF Call
  <2> QED BY <1>1, <1>3, <2>1, <2>2 DEF Silent, Misread, Reached
<1>12. JobsHonest'
  BY <1>1, <1>11 DEF JobsHonest, Plainly, Over
<1>13. PostsHonest'
  BY <1>1, <1>11, StaysHonest DEF PostsHonest
<1> QED BY <1>4, <1>5, <1>8, <1>9, <1>10, <1>12, <1>13

-----------------------------------------------------------------------------
(***************************************************************************)
(* The steps of the server.                                                *)
(***************************************************************************)
\* All open jobs are cut off, and nobody waits for them any more.
LEMMA RestartKeeps ==
  ASSUME IInv, Restart
  PROVE  IInv'
<1> USE DEF IInv
<1>1. /\ UNCHANGED <<posts, wire, done, refused, split>>
      /\ entry' = [n \in Post |-> "none"] /\ tail' = [t \in Target |-> NoJob]
      /\ lapsed' = lapsed \union {job[n].plan.key : n \in {m \in Post : entry[m] # "none"}}
  BY DEF Restart, herdrVars
<1>2. /\ job' \in [Post -> Jobs]
      /\ \A n \in Post : /\ job'[n].state = IF job[n].state = "open" THEN "over" ELSE job[n].state
                         /\ job'[n].plan = job[n].plan /\ job'[n].prior = job[n].prior
                         /\ job'[n].step = job[n].step /\ job'[n].answer = job[n].answer
                         /\ job[n].state = "none" => job'[n] = job[n]
  <2>1. job' = [n \in Post |-> IF job[n].state = "open" THEN [job[n] EXCEPT !.state = "over"] ELSE job[n]]
    BY DEF Restart
  <2>2. \A n \in Post : job[n] \in Jobs /\ [job[n] EXCEPT !.state = "over"] \in Jobs
    BY DEF Typed, Jobs
  <2>3. job' \in [Post -> Jobs]
    BY <2>1, <2>2
  <2>4. \A n \in Post : /\ [job[n] EXCEPT !.state = "over"].plan = job[n].plan
                         /\ [job[n] EXCEPT !.state = "over"].prior = job[n].prior
                         /\ [job[n] EXCEPT !.state = "over"].step = job[n].step
                         /\ [job[n] EXCEPT !.state = "over"].answer = job[n].answer
                         /\ [job[n] EXCEPT !.state = "over"].state = "over"
    BY <2>2 DEF Jobs
  <2> QED BY <2>1, <2>3, <2>4
<1>3. /\ post' \in [Post -> Posts]
      /\ \A n \in Post : /\ post'[n].state = IF post[n].state = "waiting" THEN "lost" ELSE post[n].state
                         /\ post'[n].wish = post[n].wish /\ post'[n].answer = post[n].answer
  BY ZenonT(60) DEF Restart, Typed, Posts
<1>4. /\ phase' \in [Post -> [Target -> Phase]]
      /\ \A n \in Post, t \in Target :
           phase'[n][t] = IF phase[n][t] \in {"opening", "partial", "written"} THEN "unsure" ELSE phase[n][t]
  BY DEF Restart, Typed, Phase
<1>5. Typed'
  BY <1>1, <1>2, <1>3, <1>4, PostIsNat DEF Typed, NoJob
<1>6. Numbered'
  BY <1>1, <1>2, <1>3 DEF Numbered, Started
<1>7. Entered' /\ OneJob'
  BY <1>1, <1>2 DEF Entered, OneJob, Keyed, SameRequest
<1>8. Called'
  BY <1>1, <1>2 DEF Called, Seen
<1>9. Phased'
  <2>1. \A n \in Post, t \in Target : Call(n, t)' = Call(n, t)
    BY <1>2 DEF Call
  <2>2. Seen' = Seen /\ done' = done
    BY <1>1 DEF Seen
  <2>3. ASSUME NEW n \in Post, NEW t \in Target
        PROVE  /\ phase'[n][t] \in Pending => Call(n, t)' \notin Seen'
               /\ phase'[n][t] = "ok" => Call(n, t)' \in done'
               /\ phase'[n][t] # "idle" <=> phase[n][t] # "idle"
    BY <1>4, <2>1, <2>2 DEF Phased, Pending
  <2> QED BY <1>2, <2>2, <2>3 DEF Phased
<1>10. FineIsDone' /\ SplitOver'
  BY ZenonT(60), <1>1, <1>2 DEF FineIsDone, SplitOver, Over, Typed
<1>11. Queued'
  <2>1. \A n \in Post, t \in Target : Queues(n, t)' => Over(n)'
    BY <1>2, JobFields DEF Queues, Started, Over
  <2> QED BY <1>1, <2>1, PostIsNat DEF Queued
<1>12. Waits' /\ JobsHonest'
  BY <1>1, <1>3 DEF Waits, JobsHonest
<1>13. \A n \in Post : Silent(n) => Silent(n)'
  <2> SUFFICES ASSUME NEW n \in Post, Silent(n) PROVE Silent(n)'
    OBVIOUS
  <2>1. n <= posts' /\ job'[n].state # "open"
    BY <1>1, <1>2 DEF Silent
  <2>2. \A t \in Target : phase'[n][t] \notin Pending
    BY <1>4 DEF Silent, Pending
  <2>3. Reached(n)' = Reached(n)
    BY <1>1 DEF Reached
  <2>4. Misread(n) => Misread(n)'
    BY <1>4 DEF Misread
  <2> QED BY <2>1, <2>2, <2>3, <2>4 DEF Silent
<1>14. PostsHonest'
  BY <1>1, <1>2, <1>3, <1>13, StaysHonest DEF PostsHonest
<1> QED BY <1>5, <1>6, <1>7, <1>8, <1>9, <1>10, <1>11, <1>12, <1>14

\* A job whose turn has come, or that has begun, has nothing before it in its queue.
FirstInLine(k) ==
  \A t \in Target, m \in Post : Queues(k, t) /\ Queues(m, t) /\ m < k => Over(m)

LEMMA TurnIsFirst ==
  ASSUME IInv, NEW k \in Post, Turn(k) \/ Began(k)
  PROVE  FirstInLine(k)
<1> SUFFICES ASSUME NEW t \in Target, NEW m \in Post, Queues(k, t), Queues(m, t), m < k
             PROVE  Over(m)
  BY DEF FirstInLine
<1>1. CASE Began(k)
  BY <1>1 DEF IInv, Queued
<1>2. CASE Turn(k) /\ ~Over(m)
  <2> DEFINE p == job[k].prior
  <2>1. m <= p /\ Queues(p, t) /\ p < k /\ p \in 0 .. MaxPosts
    BY <1>2, JobFields DEF IInv, Queued
  <2>2. p \in Post /\ p # NoJob
    BY <2>1, PostIsNat DEF Post, NoJob
  <2>3. Over(p)
    BY <1>2, <2>2 DEF Turn, Over
  <2>4. m # p /\ m < p
    BY <1>2, <2>1, <2>2, <2>3, PostIsNat
  <2> QED BY <2>1, <2>2, <2>3, <2>4 DEF IInv, Queued, Began
<1> QED BY <1>1, <1>2

\* What keeps the queues in order: jobs begin when they are the first, and a tail is
\* dropped when its job is over.
LEMMA StaysQueued ==
  ASSUME IInv,
         \A n \in Post : /\ job'[n].plan = job[n].plan /\ job'[n].prior = job[n].prior
                         /\ Started(n)' <=> Started(n)
                         /\ Over(n) => Over(n)'
                         /\ Began(n)' => Began(n) \/ FirstInLine(n),
         \A t \in Target : \/ tail'[t] = tail[t]
                           \/ /\ tail'[t] = NoJob /\ tail[t] \in Post
                              /\ job'[tail[t]].state = "over" /\ FirstInLine(tail[t])
  PROVE  Queued'
<1> USE DEF IInv
<1>1. \A n \in Post, t \in Target : Queues(n, t)' <=> Queues(n, t)
  BY DEF Queues
<1>2. \A t \in Target : tail[t] \in 0 .. MaxPosts /\ (tail[t] # NoJob => tail[t] \in Post)
  BY PostIsNat DEF Typed, Post, NoJob
<1>3. \A n \in Post, m \in Post : job[n].prior \in 0 .. MaxPosts /\ (m <= job[n].prior => job[n].prior \in Post)
  BY JobFields, PostIsNat DEF Post
<1> SUFFICES ASSUME NEW t \in Target
             PROVE  /\ tail'[t] # NoJob => Queues(tail[t], t)'
                    /\ \A n \in Post : Queues(n, t)' /\ ~Over(n)' => n <= tail'[t]
                    /\ \A n, m \in Post :
                         Queues(n, t)' /\ Queues(m, t)' /\ m < n =>
                           /\ Began(n)' => Over(m)'
                           /\ Over(m)' \/ (m <= job'[n].prior /\ Queues(job[n].prior, t)' /\ job'[n].prior < n)
  BY DEF Queued
<1>4. tail'[t] # NoJob => Queues(tail[t], t)'
  <2>1. tail'[t] # NoJob => tail'[t] = tail[t] /\ tail[t] \in Post /\ Queues(tail[t], t)
    BY <1>2 DEF Queued
  <2> QED BY <2>1 DEF Queues, Started
<1>5. ASSUME NEW n \in Post, Queues(n, t)', ~Over(n)'
      PROVE  n <= tail'[t]
  <2>1. Queues(n, t) /\ ~Over(n) /\ n <= tail[t]
    BY <1>1, <1>5 DEF Queued
  <2>2. CASE tail'[t] = tail[t]
    BY <2>1, <2>2
  <2>3. CASE tail[t] \in Post /\ job'[tail[t]].state = "over" /\ FirstInLine(tail[t])
    <3>1. Queues(tail[t], t)
      BY <2>3, PostIsNat DEF Queued
    <3>2. n # tail[t]
      BY <1>5, <2>3 DEF Over
    <3>3. n < tail[t]
      <4>1. n \in Nat /\ tail[t] \in Nat
        BY <2>3, PostIsNat
      <4> QED BY <2>1, <3>2, <4>1
    <3> QED BY <2>1, <2>3, <3>1, <3>3 DEF FirstInLine
  <2> QED BY <2>2, <2>3
<1>6. ASSUME NEW n \in Post, NEW m \in Post, Queues(n, t)', Queues(m, t)', m < n
      PROVE  /\ Began(n)' => Over(m)'
             /\ Over(m)' \/ (m <= job'[n].prior /\ Queues(job[n].prior, t)' /\ job'[n].prior < n)
  <2>1. Queues(n, t) /\ Queues(m, t)
    BY <1>1, <1>6
  <2>2. Began(n)' => Over(m)'
    BY <1>6, <2>1 DEF Queued, FirstInLine
  <2>3. Over(m) \/ (m <= job[n].prior /\ Queues(job[n].prior, t) /\ job[n].prior < n)
    BY <1>6, <2>1 DEF Queued
  <2> QED BY <1>1, <1>3, <2>2, <2>3
<1> QED BY <1>4, <1>5, <1>6

\* The next calls of a job are new, and those of the step before it were carried out.
LEMMA NextStepKeeps ==
  ASSUME IInv, NEW k \in Post, StartStep(k), NextCalls(k) # {}
  PROVE  IInv'
<1> USE DEF IInv
<1> DEFINE next == job[k].step + 1
<1>1. /\ job[k].state = "open" /\ Turn(k)
      /\ \A t \in Target : phase[k][t] \in {"idle", "ok"}
      /\ job' = [job EXCEPT ![k].step = @ + 1]
      /\ phase' = [phase EXCEPT ![k] = [t \in Target |-> IF t \in NextCalls(k) THEN "opening" ELSE "idle"]]
      /\ UNCHANGED <<tail, entry, post, posts, wire, done, refused, lapsed, split>>
  BY DEF StartStep, Finish, herdrVars
<1>2. next \in 1 .. Len(job[k].plan.steps) /\ next \in 1 .. 2 /\ NextCalls(k) = job[k].plan.steps[next]
  <2>1. job[k].plan.steps \in Seq(SUBSET Target) /\ Len(job[k].plan.steps) \in 0 .. 2
    BY JobPlan
  <2>2. next \in DOMAIN job[k].plan.steps /\ NextCalls(k) = job[k].plan.steps[next]
    BY DEF NextCalls
  <2> QED BY <2>1, <2>2
<1>3. /\ job' \in [Post -> Jobs]
      /\ \A n \in Post : /\ job'[n].step = IF n = k THEN next ELSE job[n].step
                         /\ job'[n].plan = job[n].plan /\ job'[n].state = job[n].state
                         /\ job'[n].prior = job[n].prior /\ job'[n].answer = job[n].answer
                         /\ n # k => job'[n] = job[n]
  <2> DEFINE x == [job[k] EXCEPT !.step = next]
  <2>1. job[k] \in Jobs /\ job' = [job EXCEPT ![k] = x]
    BY <1>1 DEF Typed
  <2>2. x \in Jobs /\ x.step = next /\ x.plan = job[k].plan /\ x.state = job[k].state
        /\ x.prior = job[k].prior /\ x.answer = job[k].answer
    BY <1>2, <2>1 DEF Jobs
  <2> HIDE DEF x
  <2> QED BY <2>1, <2>2 DEF Typed
<1>4. /\ phase' \in [Post -> [Target -> Phase]]
      /\ \A n \in Post, t \in Target :
           phase'[n][t] = IF n # k THEN phase[n][t]
                          ELSE IF t \in job[k].plan.steps[next] THEN "opening" ELSE "idle"
  BY <1>1, <1>2 DEF Typed, Phase
<1>5. Typed'
  BY <1>1, <1>3, <1>4 DEF Typed
<1>6. Numbered' /\ Entered' /\ OneJob' /\ FineIsDone' /\ SplitOver' /\ Waits'
  BY <1>1, <1>3 DEF Numbered, Entered, OneJob, FineIsDone, SplitOver, Waits, Started, Over, Typed
<1>7. job[k].step \in Nat /\ \A c \in Seen : c[1] = k => c[2] < next
  BY JobFields DEF Called
<1>8. Called'
  <2>1. Seen' = Seen
    BY <1>1 DEF Seen
  <2>2. \A c \in Seen : c[2] <= job'[c[1]].step /\ c[3] \in job'[c[1]].plan.steps[c[2]]
    BY <1>3, <1>7 DEF Called
  <2> QED BY <1>1, <2>1, <2>2 DEF Called
<1>9. Phased'
  <2>1. Seen' = Seen /\ done' = done
    BY <1>1 DEF Seen
  <2>2. ASSUME NEW n \in Post, n # k
        PROVE  /\ job'[n] = job[n]
               /\ \A t \in Target : Call(n, t)' = Call(n, t) /\ phase'[n][t] = phase[n][t]
    BY <1>3, <1>4, <2>2 DEF Call
  <2>3. \A t \in Target : Call(k, t)' = <<k, next, t>> /\ <<k, next, t>> \notin Seen
    BY <1>3, <1>7 DEF Call
  <2>4. \A i \in 1 .. 2, t \in Target :
          i < next /\ t \in job[k].plan.steps[i] => <<k, i, t>> \in done
    <3> SUFFICES ASSUME NEW i \in 1 .. 2, NEW t \in Target, i < next, t \in job[k].plan.steps[i]
                 PROVE  <<k, i, t>> \in done
      OBVIOUS
    <3>1. CASE i < job[k].step
      BY <3>1 DEF Phased
    <3>2. CASE i = job[k].step
      <4>1. phase[k][t] = "ok"
        BY <1>1, <3>2 DEF Phased
      <4>2. Call(k, t) = <<k, i, t>>
        BY <3>2 DEF Call
      <4> QED BY <4>1, <4>2 DEF Phased
    <3> QED BY <1>7, <3>1, <3>2
  <2>5. ASSUME NEW n \in Post
        PROVE  /\ job'[n].step <= Len(job'[n].plan.steps)
               /\ job'[n].step = 0 => \A t \in Target : phase'[n][t] = "idle"
               /\ job'[n].step > 0 =>
                    \A t \in Target : phase'[n][t] # "idle" <=> t \in job'[n].plan.steps[job'[n].step]
               /\ \A t \in Target : /\ phase'[n][t] \in Pending => Call(n, t)' \notin Seen'
                                    /\ phase'[n][t] = "ok" => Call(n, t)' \in done'
               /\ \A i \in 1 .. 2, t \in Target :
                    i < job'[n].step /\ t \in job'[n].plan.steps[i] => <<n, i, t>> \in done'
    <3>1. CASE n # k
      BY <2>1, <2>2, <3>1 DEF Phased
    <3>2. CASE n = k
      <4>1. job'[n].step = next /\ job'[n].plan = job[n].plan /\ next > 0 /\ next <= Len(job[n].plan.steps)
        BY <1>2, <1>3, <3>2
      <4>2. \A t \in Target : phase'[n][t] = IF t \in job[n].plan.steps[next] THEN "opening" ELSE "idle"
        BY <1>4, <3>2
      <4>3. \A t \in Target : /\ phase'[n][t] # "idle" <=> t \in job'[n].plan.steps[next]
                              /\ phase'[n][t] \in Pending => Call(n, t)' \notin Seen'
                              /\ phase'[n][t] # "ok"
        BY <2>1, <2>3, <3>2, <4>1, <4>2
      <4> QED BY <2>1, <2>4, <3>2, <4>1, <4>3
    <3> QED BY <3>1, <3>2
  <2> QED BY <2>5 DEF Phased
<1>10. Queued'
  <2>1. \A n \in Post : (Over(n)' <=> Over(n)) /\ (Started(n)' <=> Started(n)) /\ (Began(n)' => n = k \/ Began(n))
    BY <1>3 DEF Over, Began, Started
  <2>2. FirstInLine(k)
    BY <1>1, TurnIsFirst
  <2> QED BY <1>1, <1>3, <2>1, <2>2, StaysQueued
<1>11. \A n \in Post : Silent(n) => Silent(n)'
  BY <1>1, <1>3, <1>4 DEF Silent, Misread, Reached
<1>12. JobsHonest'
  BY <1>1, <1>3, <1>11 DEF JobsHonest, Plainly, Over
<1>13. PostsHonest'
  BY <1>1, <1>3, <1>11, StaysHonest DEF PostsHonest
<1> QED BY <1>5, <1>6, <1>8, <1>9, <1>10, <1>12, <1>13

\* Calls of job k settle.
Settles(k) ==
  /\ phase' \in [Post -> [Target -> Phase]]
  /\ \A n \in Post, t \in Target :
       \/ phase'[n][t] = phase[n][t]
       \/ /\ n = k /\ phase[n][t] \in Pending \union {"written"}
          /\ phase'[n][t] \notin Pending \union {"idle"}
          /\ phase'[n][t] = "ok" => Call(n, t) \in done

LEMMA StaysPhased ==
  ASSUME IInv, NEW k \in Post, Settles(k), UNCHANGED <<wire, done, refused>>,
         \A n \in Post : job'[n].plan = job[n].plan /\ job'[n].step = job[n].step
  PROVE  /\ Phased'
         /\ \A n \in Post, t \in Target : phase'[n][t] \in Pending => phase[n][t] \in Pending
<1>1. Seen' = Seen /\ \A n \in Post, t \in Target : Call(n, t)' = Call(n, t)
  BY DEF Seen, Call
<1>2. ASSUME NEW n \in Post, NEW t \in Target
      PROVE  /\ phase'[n][t] \in Pending => phase[n][t] \in Pending
             /\ phase'[n][t] \in Pending => Call(n, t)' \notin Seen'
             /\ phase'[n][t] = "ok" => Call(n, t)' \in done'
             /\ phase'[n][t] # "idle" <=> phase[n][t] # "idle"
  BY <1>1 DEF IInv, Phased, Settles, Pending
<1>3. Phased'
  BY SMTT(30), <1>2 DEF IInv, Phased
<1> QED BY <1>2, <1>3

LEMMA MisreadStays ==
  ASSUME NEW k \in Post, Settles(k), NEW n \in Post, Misread(n)
  PROVE  Misread(n)'
  BY DEF Misread, Settles, Pending

\* A job that never started is silent.
LEMMA UnstartedSilent ==
  ASSUME IInv, NEW n \in Post, ~Started(n), n <= posts
  PROVE  Silent(n)
<1>1. job[n].step = 0
  BY JobPlan DEF IInv
<1>2. ~Reached(n)
  BY <1>1 DEF IInv, Called, Seen, Reached
<1> QED BY <1>1, <1>2 DEF IInv, Phased, Silent, Pending, Started

\* Two jobs of one wish, keyed and not forgotten, are one.
LEMMA OneJobOfWish ==
  ASSUME IInv, NEW w \in Wish, NEW m \in Post, NEW k \in Post, post[m].wish = w,
         Keyed(job[m].plan), job[m].plan.key \notin lapsed,
         SameRequest(job[k].plan, PlanOf(Want[w], Target))
  PROVE  m = k
<1>1. job[m].plan \in PlansOf(w)
  BY JobPlan DEF IInv
<1>2. PlanOf(Want[w], Target) \in PlansOf(w)
  BY DEF PlansOf
<1>3. SameRequest(job[m].plan, job[k].plan)
  BY <1>1, <1>2, PlansAgree DEF SameRequest
<1> QED BY <1>3 DEF IInv, OneJob

\* A job settles.
LEMMA FinishKeeps ==
  ASSUME IInv, NEW k \in Post, NEW answer \in Answers, job[k].state = "open", Finish(k, answer),
         Settles(k), FirstInLine(k), UNCHANGED <<posts, wire, done, refused, lapsed, split>>,
         answer.ok => \A i \in 1 .. 2, t \in Target :
                        i <= Len(job[k].plan.steps) /\ t \in job[k].plan.steps[i] => <<k, i, t>> \in done,
         Definite(answer) /\ Want[post[k].wish].kind # "closeScope" =>
           (Reached(k) => Misread(k)') /\ \A t \in Target : phase'[k][t] \notin Pending
  PROVE  IInv'
<1> USE DEF IInv
<1>1. /\ job' \in [Post -> Jobs]
      /\ \A n \in Post : /\ job'[n].state = IF n = k THEN "over" ELSE job[n].state
                         /\ job'[n].answer = IF n = k THEN answer ELSE job[n].answer
                         /\ job'[n].plan = job[n].plan /\ job'[n].prior = job[n].prior
                         /\ job'[n].step = job[n].step
                         /\ n # k => job'[n] = job[n]
  <2> DEFINE x == [job[k] EXCEPT !.state = "over", !.answer = answer]
  <2>1. job[k] \in Jobs /\ job' = [job EXCEPT ![k] = x]
    BY DEF Finish, Typed
  <2>2. x \in Jobs /\ x.step = job[k].step /\ x.plan = job[k].plan /\ x.state = "over"
        /\ x.prior = job[k].prior /\ x.answer = answer
    BY <2>1 DEF Jobs
  <2> HIDE DEF x
  <2> QED BY <2>1, <2>2 DEF Typed
<1>2. /\ post' \in [Post -> Posts]
      /\ \A n \in Post :
           LET told == post[n].state = "waiting" /\ post[n].job = k
           IN  /\ post'[n].state = IF told THEN "answered" ELSE post[n].state
               /\ post'[n].answer = IF told THEN answer ELSE post[n].answer
               /\ post'[n].wish = post[n].wish /\ post'[n].job = post[n].job
  <2>1. post' = [m \in Post |-> IF post[m].state = "waiting" /\ post[m].job = k
                                THEN [post[m] EXCEPT !.state = "answered", !.answer = answer] ELSE post[m]]
    BY DEF Finish
  <2>2. \A m \in Post : /\ post[m] \in Posts
                        /\ [post[m] EXCEPT !.state = "answered", !.answer = answer] \in Posts
    BY ZenonT(60) DEF Typed, Posts
  <2> QED BY <2>1, <2>2 DEF Posts
<1>3. /\ entry' \in [Post -> {"none", "running", "done", "expired"}]
      /\ \A n \in Post : entry'[n] = IF n = k /\ entry[n] = "running" THEN "done" ELSE entry[n]
  BY DEF Finish, Typed
<1>4. /\ tail' \in [Target -> 0 .. MaxPosts]
      /\ \A t \in Target : tail'[t] = IF tail[t] = k THEN NoJob ELSE tail[t]
  <2>1. tail' = [t \in Target |-> IF tail[t] = k THEN NoJob ELSE tail[t]]
    BY DEF Finish
  <2>2. NoJob \in 0 .. MaxPosts
    BY PostIsNat DEF NoJob
  <2> QED BY <2>1, <2>2 DEF Typed
<1>5. Typed'
  BY <1>1, <1>2, <1>3, <1>4 DEF Typed, Settles
<1>6. Numbered'
  BY <1>1, <1>2, <1>3 DEF Numbered, Started
<1>7. Entered' /\ OneJob'
  BY <1>1, <1>3 DEF Entered, OneJob, Over, Keyed, SameRequest
<1>8. Called'
  BY <1>1 DEF Called, Seen
<1>9. Phased' /\ \A n \in Post, t \in Target : phase'[n][t] \in Pending => phase[n][t] \in Pending
  BY <1>1, StaysPhased
<1>10. FineIsDone' /\ SplitOver'
  BY SMTT(30), <1>1 DEF FineIsDone, SplitOver, Over, Typed
<1>11. Queued'
  <2>1. \A n \in Post : /\ Started(n)' <=> Started(n)
                        /\ Over(n)' <=> n = k \/ Over(n)
                        /\ Began(n)' => n = k \/ Began(n)
    BY <1>1 DEF Over, Began, Started
  <2> QED BY <1>1, <1>4, <2>1, StaysQueued
<1>12. Waits'
  BY <1>1, <1>2 DEF Waits, Started
<1>13. \A n \in Post : Silent(n) => Silent(n)'
  <2>1. \A n \in Post : Misread(n) => Misread(n)'
    BY MisreadStays
  <2>2. \A n \in Post : Reached(n)' <=> Reached(n)
    BY DEF Reached
  <2> QED BY <1>1, <1>9, <2>1, <2>2 DEF Silent
<1>14. Definite(answer) /\ Want[post[k].wish].kind # "closeScope" => Silent(k)'
  <2>1. k <= posts
    BY JobPlan DEF Started
  <2>2. Reached(k)' <=> Reached(k)
    BY DEF Reached
  <2> QED BY <1>1, <2>1, <2>2 DEF Silent
<1>15. JobsHonest'
  BY <1>1, <1>2, <1>3, <1>13, <1>14 DEF JobsHonest, Plainly, Over
<1>16. PostsHonest'
  <2> SUFFICES ASSUME NEW p \in Post, post'[p].state = "answered", Definite(post'[p].answer),
                      Want[post'[p].wish].kind # "closeScope", NEW m \in Ours(p)'
               PROVE  Silent(m)'
    BY DEF PostsHonest
  <2>1. CASE post[p].state = "answered"
    <3>1. post'[p].answer = post[p].answer
      BY <1>2, <2>1
    <3>2. Definite(post'[p].answer) /\ Want[post'[p].wish].kind # "closeScope" => \A j \in Ours(p)' : Silent(j)'
      BY <1>1, <1>2, <1>13, <2>1, <3>1, StaysHonest
    <3> QED BY <3>2
  <2>2. CASE post[p].state = "waiting" /\ post[p].job = k
    <3> DEFINE asked == PlanOf(Want[post[p].wish], Target)
    <3>1. /\ m \in Post /\ post[m].wish = post[p].wish
          /\ m = p \/ (Keyed(job[m].plan) /\ job[m].plan.key \notin lapsed)
      BY <1>1, <1>2 DEF Ours, Keyed
    <3>2. post[p].wish \in Wish /\ p <= posts
      BY <2>2, PostIsNat DEF Numbered, Typed
    <3>3. asked \in PlansOf(post[p].wish)
      BY DEF PlansOf
    <3>4. Started(k) /\ post[k].wish \in Wish /\ job[k].plan \in PlansOf(post[k].wish)
      BY JobPlan DEF Started
    <3>5. Want[post[p].wish].kind # "closeScope" /\ Definite(answer)
      BY <1>2, <2>2
    <3>6. Want[post[k].wish].kind # "closeScope"
      <4>1. CASE p = k
        BY <3>5, <4>1
      <4>2. CASE p # k
        <5>1. Keyed(asked) /\ asked.dedup = job[k].plan.dedup /\ asked.signature = job[k].plan.signature
          BY <2>2, <4>2 DEF Waits, SameRequest
        <5> QED BY <3>2, <3>3, <3>4, <3>5, <5>1, SameKind
      <4> QED BY <4>1, <4>2
    <3>7. Silent(k)'
      BY <1>14, <3>5, <3>6
    <3>8. CASE m = k
      BY <3>7, <3>8
    <3>9. CASE m = p /\ m # k
      BY <1>13, <2>2, <3>2, <3>9, UnstartedSilent DEF Waits
    <3>10. CASE m # p /\ m # k
      <4>1. SameRequest(job[k].plan, asked)
        <5>1. CASE p = k
          BY <3>3, <3>4, <5>1, PlansAgree DEF SameRequest
        <5>2. CASE p # k
          BY <2>2, <5>2 DEF Waits
        <5> QED BY <5>1, <5>2
      <4> QED BY <3>1, <3>2, <3>10, <4>1, OneJobOfWish
    <3> QED BY <3>8, <3>9, <3>10
  <2> QED BY <1>2, <2>1, <2>2
<1> QED BY <1>5, <1>6, <1>7, <1>8, <1>9, <1>10, <1>11, <1>12, <1>15, <1>16

\* A job without further calls is done: all its calls were carried out.
LEMMA LastStepKeeps ==
  ASSUME IInv, NEW k \in Post, StartStep(k), NextCalls(k) = {}
  PROVE  IInv'
<1> USE DEF IInv
<1>1. /\ job[k].state = "open" /\ Turn(k) /\ Finish(k, Fine)
      /\ \A t \in Target : phase[k][t] \in {"idle", "ok"}
      /\ UNCHANGED <<phase, posts, wire, done, refused, lapsed, split>>
  BY DEF StartStep, herdrVars
<1>2. Fine \in Answers /\ Fine.ok
  BY AnswerTyped DEF Fine
<1>3. Settles(k)
  BY <1>1 DEF Settles, Typed
<1> DEFINE steps == job[k].plan.steps
           next == job[k].step + 1
<1>4. steps \in Seq(SUBSET Target) /\ Len(steps) \in 0 .. 2 /\ job[k].step \in 0 .. 2 /\ Started(k)
  BY <1>1, JobPlan, JobFields DEF Started
<1>5. ASSUME NEW i \in 1 .. 2, NEW t \in Target, i <= Len(steps), t \in steps[i]
      PROVE  <<k, i, t>> \in done
  <2>1. CASE next \in 1 .. Len(steps)
    <3>1. steps[next] = {}
      BY <1>1, <1>4, <2>1 DEF NextCalls
    <3>2. Want[post[k].wish].kind = "closeScope"
      <4>1. SUFFICES ASSUME Want[post[k].wish].kind # "closeScope" PROVE FALSE
        OBVIOUS
      <4>2. PICK u \in Target : \A j \in 1 .. Len(steps) : steps[j] = {u}
        BY <1>4, <4>1, OneTarget
      <4> QED BY <2>1, <3>1, <4>2
    <3>3. Len(steps) = 1
      BY <1>4, <3>2, JobPlan, PlanShape
    <3> QED BY <1>4, <1>5, <2>1, <3>1, <3>3
  <2>2. CASE next \notin 1 .. Len(steps)
    <3>1. job[k].step = Len(steps)
      BY <1>4, <2>2 DEF Phased
    <3>2. CASE i < job[k].step
      BY <1>5, <3>2 DEF Phased
    <3>3. CASE i = job[k].step
      <4>1. phase[k][t] = "ok"
        BY <1>1, <1>5, <3>3 DEF Phased
      <4>2. Call(k, t) = <<k, i, t>>
        BY <3>3 DEF Call
      <4> QED BY <4>1, <4>2 DEF Phased
    <3> QED BY <1>4, <1>5, <3>1, <3>2, <3>3
  <2> QED BY <2>1, <2>2
<1>6. ~Definite(Fine)
  BY <1>2 DEF Definite
<1>7. FirstInLine(k)
  BY <1>1, TurnIsFirst
<1> QED BY <1>1, <1>2, <1>3, <1>5, <1>6, <1>7, FinishKeeps

\* What the client is told of a failure is plain only if the first step failed, and
\* then nothing of it was written, or Herdr refused it.
LEMMA FailureTyped ==
  ASSUME NEW w, NEW i \in 1 .. 2, NEW error \in Failed
  PROVE  /\ FailureAnswer(w, i, error) \in Answers /\ ~FailureAnswer(w, i, error).ok
         /\ Definite(FailureAnswer(w, i, error)) => error # "unsure" /\ (w.kind = "reply" => i = 1)
<1> DEFINE unsure == error = "unsure"
<1>1. unsure \in BOOLEAN
  OBVIOUS
<1>2. \A y \in BOOLEAN : /\ Answer(FALSE, y, unsure) \in Answers /\ ~Answer(FALSE, y, unsure).ok
                         /\ Definite(Answer(FALSE, y, unsure)) => ~unsure /\ ~y
  BY <1>1, AnswerTyped DEF Definite, Answer
<1>3. CASE w.kind # "reply"
  <2>1. FailureAnswer(w, i, error) = Answer(FALSE, FALSE, unsure)
    BY <1>3 DEF FailureAnswer, MutationFailureResponse
  <2> QED BY <1>2, <1>3, <2>1
<1>4. CASE w.kind = "reply"
  <2>1. CASE i = 1 /\ w.say # NoText
    <3>1. FailureAnswer(w, i, error) = Answer(FALSE, unsure, unsure)
      BY <1>4, <2>1, Zenon DEF FailureAnswer, SendReplySteps
    <3> QED BY <1>1, <1>2, <2>1, <3>1
  <2>2. CASE ~(i = 1 /\ w.say # NoText)
    <3> DEFINE typed == i = 2
    <3>1. FailureAnswer(w, i, error) = Answer(FALSE, typed, unsure)
      BY <1>4, <2>2, Zenon DEF FailureAnswer, SendReplySteps
    <3>2. typed \in BOOLEAN /\ (~typed => i = 1)
      OBVIOUS
    <3> HIDE DEF typed
    <3> QED BY <1>2, <3>1, <3>2
  <2> QED BY <2>1, <2>2
<1> QED BY <1>3, <1>4

LEMMA SettleKeeps ==
  ASSUME IInv, NEW k \in Post, NEW t \in Target, NEW outcome \in {"ok"} \union Failed, Settle(k, t, outcome),
         phase[k][t] \in {"opening", "partial", "written"},
         outcome = "ok" => Call(k, t) \in done,
         outcome = "refused" => Call(k, t) \in refused,
         outcome = "unwritten" => phase[k][t] = "opening"
  PROVE  IInv'
<1> USE DEF IInv
<1>1. /\ phase' = [phase EXCEPT ![k][t] = outcome]
      /\ UNCHANGED <<posts, wire, done, refused, lapsed, split>>
  BY DEF Settle, herdrVars
<1>2. \A n \in Post, u \in Target : phase'[n][u] = IF n = k /\ u = t THEN outcome ELSE phase[n][u]
  BY <1>1 DEF Typed
<1>3. Settles(k)
  <2>1. phase' \in [Post -> [Target -> Phase]]
    BY <1>1 DEF Typed, Phase, Failed
  <2>2. outcome \notin Pending \union {"idle"} /\ phase[k][t] \in Pending \union {"written"}
    BY DEF Pending, Failed
  <2> QED BY <1>2, <2>1, <2>2 DEF Settles
<1>4. job[k].step \in 1 .. 2 /\ t \in job[k].plan.steps[job[k].step] /\ Started(k)
  <2>1. phase[k][t] # "idle" /\ job[k].step \in 0 .. 2
    BY JobFields
  <2>2. job[k].step > 0
    BY <2>1 DEF Phased
  <2>3. t \in job[k].plan.steps[job[k].step]
    BY <2>1, <2>2 DEF Phased
  <2> QED BY <2>1, <2>2, <2>3, JobPlan
<1>5. CASE UNCHANGED <<job, tail, entry, post>>
  <2>1. Phased' /\ \A n \in Post, u \in Target : phase'[n][u] \in Pending => phase[n][u] \in Pending
    BY <1>1, <1>3, <1>5, StaysPhased
  <2>2. Typed' /\ Numbered' /\ Entered' /\ OneJob' /\ Called' /\ FineIsDone' /\ SplitOver' /\ Waits'
    BY <1>1, <1>3, <1>5 DEF Typed, Numbered, Entered, OneJob, Called, FineIsDone, SplitOver, Waits,
                            Settles, Started, Over, Seen
  <2>3. Queued'
    BY <1>5 DEF Queued, Queues, Began, Started, Over
  <2>4. \A n \in Post : Silent(n) => Silent(n)'
    BY <1>1, <1>3, <1>5, <2>1, MisreadStays DEF Silent, Reached
  <2>5. JobsHonest'
    BY <1>5, <2>4 DEF JobsHonest, Plainly, Over
  <2>6. PostsHonest'
    BY <1>1, <1>5, <2>4, StaysHonest DEF PostsHonest
  <2> QED BY <2>1, <2>2, <2>3, <2>5, <2>6
<1>6. CASE outcome \in Failed /\ job[k].state = "open"
  <2> DEFINE w == Want[post[k].wish]
             answer == FailureAnswer(w, job[k].step, outcome)
  <2>1. Finish(k, answer)
    BY <1>6 DEF Settle
  <2>2. answer \in Answers /\ ~answer.ok
        /\ (Definite(answer) => outcome # "unsure" /\ (w.kind = "reply" => job[k].step = 1))
    BY <1>4, <1>6, FailureTyped
  <2>3. FirstInLine(k)
    BY <1>4, TurnIsFirst DEF Began
  <2>4. ASSUME Definite(answer), w.kind # "closeScope"
        PROVE  (Reached(k) => Misread(k)') /\ \A u \in Target : phase'[k][u] \notin Pending
    <3>1. post[k].wish \in Wish /\ job[k].plan \in PlansOf(post[k].wish) /\ job[k].step <= Len(job[k].plan.steps)
      BY <1>4, JobPlan DEF Phased
    <3>2. job[k].step = 1
      <4>1. CASE w.kind = "reply"
        BY <2>2, <2>4, <4>1
      <4>2. CASE w.kind # "reply"
        BY <1>4, <3>1, <4>2, PlanShape
      <4> QED BY <4>1, <4>2
    <3>3. job[k].plan.steps[1] = {t}
      BY <1>4, <2>4, <3>1, <3>2, OneTarget
    <3>4. outcome # "misread" => Call(k, t) \notin wire \union done
      <4>1. CASE outcome = "refused"
        BY <4>1 DEF Called
      <4>2. CASE outcome = "unwritten"
        BY <4>2 DEF Phased, Pending, Seen
      <4> QED BY <1>6, <2>2, <2>4, <4>1, <4>2 DEF Failed
    <3>5. Reached(k) => Misread(k)'
      <4> SUFFICES ASSUME NEW c \in wire \union done, c[1] = k, outcome # "misread" PROVE FALSE
        BY <1>2 DEF Reached, Misread
      <4>1. c \in Post \X (1 .. 2) \X Target /\ c[2] <= 1 /\ c[3] \in job[k].plan.steps[c[2]]
        BY <3>2 DEF Called, Seen
      <4>2. c[2] = 1 /\ c[3] = t
        BY <3>3, <4>1
      <4>3. c = Call(k, t)
        BY <3>2, <4>1, <4>2 DEF Call
      <4> QED BY <3>4, <4>3
    <3>6. \A u \in Target : phase'[k][u] \notin Pending
      <4>1. \A u \in Target : u # t => phase[k][u] = "idle"
        BY <3>2, <3>3 DEF Phased
      <4> QED BY <1>2, <1>6, <4>1 DEF Pending, Failed
    <3> QED BY <3>5, <3>6
  <2> HIDE DEF answer, w
  <2>5. w = Want[post[k].wish]
    BY DEF w
  <2> QED BY <1>1, <1>3, <1>6, <2>1, <2>2, <2>3, <2>4, <2>5, FinishKeeps
<1> QED BY <1>5, <1>6 DEF Settle

LEMMA ServerStepKeeps ==
  ASSUME IInv, NEW k \in Post, ServerStep(k)
  PROVE  IInv'
<1>1. CASE StartStep(k)
  BY <1>1, NextStepKeeps, LastStepKeeps
<1>2. ASSUME NEW t \in Target, Write(k, t) PROVE IInv'
  BY <1>2, WriteKeeps
<1>3. ASSUME NEW t \in Target, ReplyArrives(k, t) PROVE IInv'
  <2>1. CASE Call(k, t) \in done /\ Settle(k, t, "ok")
    BY <1>3, <2>1, SettleKeeps DEF ReplyArrives, Failed
  <2>2. CASE Call(k, t) \in refused /\ Settle(k, t, "refused")
    BY <1>3, <2>2, SettleKeeps DEF ReplyArrives, Failed
  <2>3. CASE Settle(k, t, "misread")
    BY <1>3, <2>3, SettleKeeps DEF ReplyArrives, Failed
  <2>4. CASE Settle(k, t, "unsure")
    BY <1>3, <2>4, SettleKeeps DEF ReplyArrives, Failed
  <2> QED BY <1>3, <2>1, <2>2, <2>3, <2>4 DEF ReplyArrives
<1>4. ASSUME NEW t \in Target, CallFails(k, t) PROVE IInv'
  <2>1. CASE phase[k][t] = "opening" /\ Settle(k, t, "unwritten")
    BY <2>1, SettleKeeps DEF Failed
  <2>2. CASE phase[k][t] \in {"partial", "written"} /\ Settle(k, t, "unsure")
    BY <2>2, SettleKeeps DEF Failed
  <2> QED BY <1>4, <2>1, <2>2 DEF CallFails
<1> QED BY <1>1, <1>2, <1>3, <1>4 DEF ServerStep

-----------------------------------------------------------------------------
(***************************************************************************)
(* A post.                                                                 *)
(***************************************************************************)
\* Whoever else loses its entry is over, and its key is forgotten.
Forgets(n) ==
  /\ lapsed \subseteq lapsed'
  /\ entry' \in [Post -> {"none", "running", "done", "expired"}]
  /\ \A m \in Post \ {n} : \/ entry'[m] = entry[m]
                           \/ entry'[m] = "none" /\ job[m].plan.key \in lapsed'

LEMMA KeepForgets ==
  ASSUME IInv, NEW d, NEW kept, NEW n, Keep(d, kept, n),
         \A m \in Held(d) \ kept : entry[m] \in {"done", "expired"}
  PROVE  /\ Forgets(n) /\ (n \in Post => entry'[n] = "running")
         /\ \A m \in Held(d) \ kept : job[m].plan.key \in lapsed'
<1>1. \A m \in Post : entry'[m] = IF m = n THEN "running" ELSE IF m \in Held(d) \ kept THEN "none" ELSE entry[m]
  BY DEF Keep
<1>2. \A m \in Held(d) \ kept : m \in Post /\ job[m].state = "over"
  BY DEF IInv, Entered, Over, Held
<1>3. \A m \in Held(d) \ kept : job[m].plan.key \in lapsed'
  BY <1>2 DEF Keep
<1>4. lapsed \subseteq lapsed'
  BY DEF Keep
<1>5. entry' \in [Post -> {"none", "running", "done", "expired"}]
  BY DEF Keep, IInv, Typed
<1> QED BY <1>1, <1>3, <1>4, <1>5 DEF Forgets

\* Pruning and making room forget only what is over.
LEMMA RoomForgets ==
  ASSUME IInv, NEW d, NEW kept \in {Prune(d), MakeRoom(Prune(d))}
  PROVE  /\ kept \subseteq Prune(d)
         /\ \A m \in Held(d) \ kept : entry[m] \in {"done", "expired"}
  BY DEF Prune, MakeRoom, Held, IInv, Typed

\* A request that hits no entry was never made, or was forgotten.
LEMMA MissIsForgotten ==
  ASSUME IInv, NEW plan, {m \in Prune(plan.dedup) : job[m].plan.key = plan.key} = {},
         NEW kept \in {Prune(plan.dedup), MakeRoom(Prune(plan.dedup))}, NEW n, Keep(plan.dedup, kept, n),
         NEW m \in Post, Keyed(job[m].plan), SameRequest(job[m].plan, plan)
  PROVE  job[m].plan.key \in lapsed'
<1>1. lapsed \subseteq lapsed'
  BY DEF Keep
<1>2. CASE entry[m] = "none"
  BY <1>1, <1>2 DEF IInv, Entered
<1>3. CASE entry[m] # "none"
  <2>1. m \in Held(plan.dedup) \ Prune(plan.dedup)
    BY <1>3 DEF Held, SameRequest
  <2>2. m \in Held(plan.dedup) \ kept
    BY <2>1, RoomForgets
  <2> QED BY <2>2, RoomForgets, KeepForgets
<1> QED BY <1>2, <1>3

\* What every post of wish w finds, and what it leaves alone.
Posted(n, w) ==
  /\ n \in Post /\ n = posts + 1 /\ posts' = n
  /\ w \in Wish /\ MayPost(w)
  /\ UNCHANGED <<phase, wire, done, refused, split>>

LEMMA PostIsFresh ==
  ASSUME IInv, NEW n, NEW w, Posted(n, w)
  PROVE  /\ ~Started(n) /\ job[n] = Idle /\ post[n].state = "unsent" /\ entry[n] = "none"
         /\ n \in Nat /\ posts \in Nat /\ ~Reached(n)
         /\ \A c \in Seen : c[1] # n
         /\ \A t \in Target : phase[n][t] = "idle"
         /\ \A m \in Post : m <= posts' <=> m <= posts \/ m = n
<1>1. n \in Nat /\ posts \in Nat
  BY PostIsNat DEF Posted, IInv, Typed
<1>2. ~Started(n) /\ job[n] = Idle /\ post[n].state = "unsent" /\ entry[n] = "none"
  BY <1>1 DEF Posted, IInv, Numbered
<1>3. job[n].step = 0
  BY <1>2, JobPlan DEF IInv, Posted
<1>4. \A c \in Seen : c[1] # n
  BY <1>3 DEF IInv, Called
<1>5. ASSUME NEW m \in Post
      PROVE  m <= posts' <=> m <= posts \/ m = n
  <2>1. m \in Nat /\ posts' = posts + 1 /\ n = posts + 1
    BY PostIsNat DEF Posted
  <2> QED BY <1>1, <2>1
<1> QED BY <1>1, <1>2, <1>3, <1>4, <1>5 DEF Posted, IInv, Phased, Reached, Seen

\* No answer that another client was given is about the posts of this wish.
LEMMA OthersHonest ==
  ASSUME IInv, NEW n, NEW w, Posted(n, w), post'[n].wish = w, lapsed \subseteq lapsed',
         \A m \in Post \ {n} : post'[m] = post[m] /\ job'[m] = job[m],
         \A m \in Post : Silent(m) => Silent(m)',
         NEW k \in Post, k # n, post[k].state = "answered", Definite(post[k].answer),
         Want[post[k].wish].kind # "closeScope", NEW m \in Ours(k)'
  PROVE  Silent(m)'
<1>1. post[k].wish # w
  BY DEF Posted, MayPost
<1>2. m # n /\ m \in Ours(k)
  BY <1>1 DEF Ours, Keyed
<1> QED BY <1>2 DEF IInv, PostsHonest, Ours

\* A post that starts no job is rejected, or waits for an earlier one.
LEMMA UnstartedPostKeeps ==
  ASSUME IInv, NEW n, NEW w, Posted(n, w), NEW x \in Posts, post' = [post EXCEPT ![n] = x],
         x.wish = w, x.state \in {"waiting", "answered"}, UNCHANGED <<job, tail>>, Forgets(NoJob),
         x.state = "waiting" =>
           /\ x.job \in Post \ {n} /\ job[x.job].state = "open"
           /\ LET asked == PlanOf(Want[w], Target)
              IN  /\ Keyed(asked) /\ SameRequest(job[x.job].plan, asked)
                  /\ job[x.job].plan.signature = asked.signature,
         x.state = "answered" /\ Definite(x.answer) /\ Want[w].kind # "closeScope" =>
           \A m \in Post \ {n} : post[m].wish = w /\ Keyed(job[m].plan) /\ job[m].plan.key \notin lapsed' => Silent(m)
  PROVE  IInv'
<1> USE DEF IInv
<1>1. /\ ~Started(n) /\ entry[n] = "none" /\ n \in Post /\ n \in Nat /\ posts \in Nat /\ posts' = posts + 1 /\ n = posts + 1
      /\ job[n] = Idle /\ w \in Wish /\ UNCHANGED <<phase, wire, done, refused, split>>
  BY PostIsFresh DEF Posted
<1>2. /\ lapsed \subseteq lapsed' /\ entry' \in [Post -> {"none", "running", "done", "expired"}]
      /\ \A m \in Post : entry'[m] = entry[m] \/ (entry'[m] = "none" /\ job[m].plan.key \in lapsed')
  BY PostIsNat DEF Forgets
<1>3. \A m \in Post : post'[m] = IF m = n THEN x ELSE post[m]
  BY DEF Typed
<1>4. Typed'
  BY <1>1, <1>2, PostIsNat DEF Typed, Post
<1>5. Numbered'
  <2>1. \A m \in Post : m <= posts' => m <= posts \/ m = n
    BY PostIsFresh
  <2>2. \A m \in Post : m > posts' => m > posts /\ m # n
    BY <1>1, PostIsFresh, PostIsNat
  <2>3. \A m \in Post : m # n => entry'[m] = entry[m] \/ entry'[m] = "none"
    BY <1>2
  <2> QED BY <1>1, <1>2, <1>3, <2>1, <2>2 DEF Numbered, Started
<1>6. Entered' /\ OneJob'
  BY <1>2 DEF Entered, OneJob, Over, Keyed, SameRequest
<1>7. Called' /\ Phased' /\ FineIsDone' /\ SplitOver' /\ Queued'
  <2>1. Called'
    BY <1>1 DEF Called, Seen
  <2>2. Phased'
    BY <1>1 DEF Phased, Seen, Call
  <2>3. FineIsDone'
    BY <1>1 DEF FineIsDone, Over
  <2>4. SplitOver'
    BY <1>1 DEF SplitOver, Over
  <2>5. Queued'
    BY <1>1 DEF Queued, Queues, Began, Started, Over
  <2> QED BY <2>1, <2>2, <2>3, <2>4, <2>5
<1>8. Waits'
  BY <1>1, <1>3 DEF Waits, Started
<1>9. ASSUME NEW m \in Post, Silent(m) PROVE Silent(m)'
  <2>1. m <= posts' /\ job'[m].state # "open"
    <3>1. m <= posts /\ job[m].state # "open"
      BY <1>9 DEF Silent
    <3>2. m \in Nat
      BY PostIsNat
    <3> QED BY <1>1, <3>1, <3>2
  <2>2. (\A t \in Target : phase[m][t] \notin Pending) /\ (Reached(m) => Misread(m))
    BY <1>9 DEF Silent
  <2>3. (\A t \in Target : phase'[m][t] \notin Pending) /\ (Reached(m) => Misread(m))'
    BY <1>1, <2>2 DEF Reached, Misread
  <2> QED BY <2>1, <2>3 DEF Silent
<1>10. JobsHonest'
  <2> SUFFICES ASSUME NEW m \in Post, Over(m)', entry'[m] # "none", Plainly(m)' PROVE Silent(m)'
    BY DEF JobsHonest
  <2>1. m # n /\ post'[m] = post[m] /\ job'[m] = job[m]
    BY <1>1, <1>3 DEF Over, Started
  <2>2. entry[m] # "none" /\ Over(m) /\ Plainly(m)
    BY <1>2, <2>1 DEF Over, Plainly
  <2> QED BY <1>9, <2>2 DEF JobsHonest
<1>11. PostsHonest'
  <2> SUFFICES ASSUME NEW p \in Post, post'[p].state = "answered", Definite(post'[p].answer),
                      Want[post'[p].wish].kind # "closeScope", NEW m \in Ours(p)'
               PROVE  Silent(m)'
    BY DEF PostsHonest
  <2>1. CASE p # n
    <3>1. post'[p] = post[p] /\ post'[n].wish = w /\ \A j \in Post \ {n} : post'[j] = post[j] /\ job'[j] = job[j]
      BY <1>1, <1>3, <2>1
    <3>2. post[p].state = "answered" /\ Definite(post[p].answer) /\ Want[post[p].wish].kind # "closeScope"
      BY <3>1
    <3> QED BY <1>2, <1>9, <2>1, <3>1, <3>2, OthersHonest
  <2>2. CASE p = n /\ m # n
    <3>1. m \in Post \ {n} /\ post[m].wish = w /\ Keyed(job[m].plan) /\ job[m].plan.key \notin lapsed'
      BY <1>3, <2>2 DEF Ours, Keyed
    <3> QED BY <1>3, <1>9, <2>2, <3>1
  <2>3. CASE m = n
    <3>1. ~Reached(n) /\ \A t \in Target : phase[n][t] = "idle"
      BY PostIsFresh
    <3> QED BY <1>1, <2>3, <3>1 DEF Silent, Misread, Reached, Pending, Started
  <2> QED BY <2>1, <2>2, <2>3
<1> QED BY <1>4, <1>5, <1>6, <1>7, <1>8, <1>10, <1>11

\* A post that starts a job joins the queue of its pane.
LEMMA StartedPostKeeps ==
  ASSUME IInv, NEW n, NEW w, Posted(n, w), NEW plan \in PlansOf(w), plan.valid, Enlist(n, plan), Await(n, w, n),
         Forgets(n), Keyed(plan) => entry'[n] = "running", ~Keyed(plan) => entry'[n] = "none",
         \A m \in Post : Keyed(job[m].plan) /\ SameRequest(job[m].plan, plan) => job[m].plan.key \in lapsed'
  PROVE  IInv'
<1> USE DEF IInv
<1> DEFINE pane == IF plan.queued /\ plan.steps # <<>> THEN plan.steps[1] ELSE {}
           prior == IF pane = {} THEN NoJob ELSE tail[The(pane)]
           x == [state |-> "open", plan |-> plan, step |-> 0, answer |-> Rejection, prior |-> prior]
<1>1. /\ ~Started(n) /\ entry[n] = "none" /\ n \in Post /\ n \in Nat /\ posts \in Nat /\ posts' = posts + 1 /\ n = posts + 1
      /\ job[n] = Idle /\ w \in Wish /\ UNCHANGED <<phase, wire, done, refused, split>>
      /\ post[n].state = "unsent" /\ ~Reached(n)
      /\ (\A c \in Seen : c[1] # n) /\ \A t \in Target : phase[n][t] = "idle"
  BY PostIsFresh DEF Posted
<1>2. /\ lapsed \subseteq lapsed' /\ entry' \in [Post -> {"none", "running", "done", "expired"}]
      /\ \A m \in Post \ {n} : entry'[m] = entry[m] \/ (entry'[m] = "none" /\ job[m].plan.key \in lapsed')
  BY DEF Forgets
<1>3. job' = [job EXCEPT ![n] = x] /\ tail' = [t \in Target |-> IF t \in pane THEN n ELSE tail[t]]
  BY DEF Enlist
<1>4. pane = {} \/ \E t \in Target : pane = {t} /\ The(pane) = t
  <2>1. CASE plan.queued /\ plan.steps # <<>>
    <3>1. Want[w].kind # "closeScope" /\ plan.steps \in Seq(SUBSET Target) /\ Repeats(plan.steps, SUBSET Target, Want[w].targets, 2)
      BY <1>1, <2>1, PlanShape
    <3>2. 1 \in 1 .. Len(plan.steps)
      BY <2>1, <3>1
    <3>3. pane = Want[w].targets
      BY <2>1, <3>1, <3>2 DEF Repeats
    <3>4. PICK t \in Target : Want[w].targets = {t}
      BY <1>1, <3>1, WantKind
    <3>5. The({t}) = t
      BY DEF The
    <3> QED BY <3>3, <3>4, <3>5
  <2> QED BY <2>1
<1>5. prior \in 0 .. MaxPosts
  BY <1>4, PostIsNat DEF Typed, NoJob
<1>6. x \in Jobs
  <2>1. plan \in Plans
    BY <1>1 DEF Plans
  <2>2. Rejection \in Answers
    BY AnswerTyped DEF Rejection
  <2> HIDE DEF prior
  <2> QED BY <1>5, <2>1, <2>2 DEF Jobs
<1>7. x.state = "open" /\ x.plan = plan /\ x.step = 0 /\ ~x.answer.ok /\ x.prior = prior
  BY AnswerTyped DEF Rejection
<1>8. \A m \in Post : job'[m] = IF m = n THEN x ELSE job[m]
  BY <1>3 DEF Typed
<1> DEFINE y == [state |-> "waiting", wish |-> w, job |-> n, answer |-> job[n].answer]
<1>9. post' = [post EXCEPT ![n] = y]
  BY <1>1, Zenon DEF Await
<1>10. y \in Posts /\ y.state = "waiting" /\ y.wish = w /\ y.job = n
  BY <1>1, JobFields, PostIsNat DEF Posts, Post
<1> HIDE DEF x, y
<1>11. \A m \in Post : post'[m] = IF m = n THEN y ELSE post[m]
  BY <1>9 DEF Typed
<1>12. Typed'
  <2>1. tail' \in [Target -> 0 .. MaxPosts]
    BY <1>1, <1>3, PostIsNat DEF Typed, Post
  <2>2. job' \in [Post -> Jobs] /\ post' \in [Post -> Posts]
    BY <1>3, <1>6, <1>9, <1>10 DEF Typed
  <2> QED BY <1>1, <1>2, <2>1, <2>2, PostIsNat DEF Typed, Post
<1>13. \A m \in Post : m # n => /\ Over(m)' <=> Over(m)
                                /\ Started(m)' <=> Started(m)
                                /\ Began(m)' <=> Began(m)
  BY <1>8 DEF Over, Started, Began
<1>14. Started(n)' /\ ~Over(n)' /\ ~Began(n)' /\ ~Over(n)
  BY <1>1, <1>7, <1>8 DEF Over, Started, Began
<1>15. Numbered'
  <2>1. \A m \in Post : m <= posts' => m <= posts \/ m = n
    BY PostIsFresh
  <2>2. \A m \in Post : m > posts' => m > posts /\ m # n
    BY <1>1, PostIsFresh, PostIsNat
  <2> QED BY <1>1, <1>2, <1>7, <1>8, <1>10, <1>11, <1>13, <1>14, <2>1, <2>2 DEF Numbered
<1>16. Entered'
  BY <1>2, <1>7, <1>8, <1>13, <1>14 DEF Entered, Keyed
<1>17. OneJob'
  <2> SUFFICES ASSUME NEW a \in Post, NEW b \in Post, a # b, Keyed(job'[a].plan), SameRequest(job'[a].plan, job'[b].plan)
               PROVE  job'[a].plan.key \in lapsed'
    BY DEF OneJob, Keyed, SameRequest
  <2>1. CASE a # n /\ b # n
    BY <1>2, <1>8, <2>1 DEF OneJob
  <2>2. CASE b = n
    BY <1>7, <1>8, <2>2
  <2>3. CASE a = n
    BY <1>7, <1>8, <2>3 DEF SameRequest, Keyed
  <2> QED BY <2>1, <2>2, <2>3
<1>18. Called'
  BY <1>1, <1>8 DEF Called, Seen
<1>19. Phased'
  <2>1. ASSUME NEW m \in Post, m # n
        PROVE  job'[m] = job[m] /\ \A t \in Target : Call(m, t)' = Call(m, t)
    BY <1>8, <2>1 DEF Call
  <2>2. Len(plan.steps) \in 0 .. 2
    BY <1>1, PlanShape
  <2>3. Seen' = Seen
    BY <1>1 DEF Seen
  <2>4. ASSUME NEW m \in Post
        PROVE  /\ job'[m].step <= Len(job'[m].plan.steps)
               /\ job'[m].step = 0 => \A t \in Target : phase'[m][t] = "idle"
               /\ job'[m].step > 0 =>
                    \A t \in Target : phase'[m][t] # "idle" <=> t \in job'[m].plan.steps[job'[m].step]
               /\ \A t \in Target : /\ phase'[m][t] \in Pending => Call(m, t)' \notin Seen'
                                    /\ phase'[m][t] = "ok" => Call(m, t)' \in done'
               /\ \A i \in 1 .. 2, t \in Target :
                    i < job'[m].step /\ t \in job'[m].plan.steps[i] => <<m, i, t>> \in done'
    <3>1. CASE m = n
      BY <1>1, <1>7, <1>8, <2>2, <3>1 DEF Pending
    <3>2. CASE m # n
      BY SMTT(30), <1>1, <2>1, <2>3, <3>2 DEF Phased
    <3> QED BY <3>1, <3>2
  <2> QED BY <2>4 DEF Phased
<1>20. FineIsDone' /\ SplitOver'
  BY <1>1, <1>7, <1>8, <1>13, <1>14 DEF FineIsDone, SplitOver, Typed
<1>21. Queued'
  <2>1. \A m \in Post, t \in Target : m # n => (Queues(m, t)' <=> Queues(m, t))
    BY <1>8, <1>13 DEF Queues
  <2>2. \A t \in Target : Queues(n, t)' <=> t \in pane
    BY <1>1, <1>7, <1>8, <1>14 DEF Queues
  <2>3. \A t \in Target : ~Queues(n, t)
    BY <1>1 DEF Queues
  <2>4. \A m \in Post, t \in Target : Queues(m, t) => m < n
    BY <1>1, JobPlan, PostIsNat DEF Queues
  <2> SUFFICES ASSUME NEW t \in Target
               PROVE  /\ tail'[t] # NoJob => Queues(tail[t], t)'
                      /\ \A a \in Post : Queues(a, t)' /\ ~Over(a)' => a <= tail'[t]
                      /\ \A a, b \in Post :
                           Queues(a, t)' /\ Queues(b, t)' /\ b < a =>
                             /\ Began(a)' => Over(b)'
                             /\ Over(b)' \/ (b <= job'[a].prior /\ Queues(job[a].prior, t)' /\ job'[a].prior < a)
    BY DEF Queued
  <2>5. tail'[t] = (IF t \in pane THEN n ELSE tail[t]) /\ tail[t] \in 0 .. MaxPosts /\ (tail[t] # NoJob => tail[t] \in Post)
    BY <1>3, PostIsNat DEF Typed, Post, NoJob
  <2>6. tail'[t] # NoJob => Queues(tail[t], t)'
    <3>1. CASE t \in pane
      BY <2>2, <2>5, <3>1 DEF Queues, Started
    <3>2. CASE t \notin pane /\ tail'[t] # NoJob
      <4>1. tail'[t] = tail[t] /\ Queues(tail[t], t) /\ tail[t] \in Post
        BY <2>5, <3>2 DEF Queued
      <4>2. tail[t] # n /\ job'[tail[t]] = job[tail[t]]
        BY <1>8, <2>3, <4>1
      <4> QED BY <4>1, <4>2 DEF Queues, Started
    <3> QED BY <3>1, <3>2
  <2>7. ASSUME NEW a \in Post, Queues(a, t)', ~Over(a)'
        PROVE  a <= tail'[t]
    <3>1. CASE a = n
      BY <1>1, <2>2, <2>5, <2>7, <3>1
    <3>2. CASE a # n
      <4>1. Queues(a, t) /\ ~Over(a) /\ a <= tail[t] /\ a < n
        BY <1>13, <2>1, <2>4, <2>7, <3>2 DEF Queued
      <4> QED BY <1>1, <2>5, <4>1, PostIsNat
    <3> QED BY <3>1, <3>2
  <2>8. ASSUME NEW a \in Post, NEW b \in Post, Queues(a, t)', Queues(b, t)', b < a
        PROVE  /\ Began(a)' => Over(b)'
               /\ Over(b)' \/ (b <= job'[a].prior /\ Queues(job[a].prior, t)' /\ job'[a].prior < a)
    <3>1. b # n /\ Queues(b, t)
      <4>1. b # n
        <5>1. CASE a = n
          BY <1>1, <2>8, <5>1
        <5>2. CASE a # n
          <6>1. a < n
            BY <2>1, <2>4, <2>8, <5>2
          <6> QED BY <1>1, <2>8, <6>1, PostIsNat
        <5> QED BY <5>1, <5>2
      <4> QED BY <2>1, <2>8, <4>1
    <3>2. CASE a = n
      <4>1. prior = tail[t] /\ job'[n].prior = tail[t]
        BY <1>4, <1>7, <1>8, <2>2, <2>8, <3>2
      <4>2. Over(b) \/ b <= tail[t]
        BY <3>1 DEF Queued
      <4>3. CASE ~Over(b)
        <5>1. b <= tail[t] /\ tail[t] \in Post /\ Queues(tail[t], t)
          BY <2>5, <3>1, <4>2, <4>3, PostIsNat DEF Queued, NoJob
        <5>2. tail[t] < n /\ job'[tail[t]] = job[tail[t]]
          <6>1. tail[t] # n
            BY <2>3, <5>1
          <6>2. job'[tail[t]] = job[tail[t]]
            BY <1>8, <5>1, <6>1
          <6> QED BY <2>4, <5>1, <6>2
        <5>3. Queues(job[n].prior, t)'
          BY <4>1, <5>1, <5>2 DEF Queues, Started
        <5> QED BY <1>14, <3>2, <4>1, <5>1, <5>2, <5>3
      <4> QED BY <1>13, <1>14, <3>1, <3>2, <4>3
    <3>3. CASE a # n
      <4>1. Queues(a, t) /\ job'[a] = job[a]
        BY <1>8, <2>1, <2>8, <3>3
      <4>2. Began(a)' => Over(b)'
        BY <1>13, <2>8, <3>1, <3>3, <4>1 DEF Queued
      <4>3. CASE ~Over(b)
        <5> DEFINE q == job[a].prior
        <5>1. b <= q /\ Queues(q, t) /\ q < a /\ q \in 0 .. MaxPosts
          BY <2>8, <3>1, <4>1, <4>3, JobFields DEF Queued
        <5>2. q \in Post
          BY <5>1, PostIsNat DEF Post
        <5>3. job'[q] = job[q]
          BY <1>8, <2>3, <5>1, <5>2
        <5>4. Queues(job[a].prior, t)'
          BY <4>1, <5>1, <5>3 DEF Queues, Started
        <5> QED BY <4>1, <4>2, <5>1, <5>4
      <4> QED BY <1>13, <3>1, <4>2, <4>3
    <3> QED BY <3>2, <3>3
  <2> QED BY <2>6, <2>7, <2>8
<1>22. Waits'
  <2> SUFFICES ASSUME NEW k \in Post, post'[k].state = "waiting"
               PROVE  LET m == post'[k].job
                          asked == PlanOf(Want[post'[k].wish], Target)
                      IN  /\ m \in Post /\ job'[m].state = "open"
                          /\ k # m => /\ job'[k].state = "none"
                                      /\ Keyed(asked) /\ SameRequest(job'[m].plan, asked)
                                      /\ job'[m].plan.signature = asked.signature
    BY DEF Waits, Started, Keyed, SameRequest
  <2>1. CASE k = n
    BY <1>1, <1>7, <1>8, <1>10, <1>11, <2>1
  <2>2. CASE k # n
    <3>1. post[k].job # n
      <4>1. post[k].state = "waiting"
        BY <1>11, <2>2
      <4>2. job[post[k].job].state = "open"
        BY <4>1 DEF Waits
      <4> QED BY <1>1, <4>2 DEF Started
    <3> QED BY <1>8, <1>11, <2>2, <3>1 DEF Waits, Started
  <2> QED BY <2>1, <2>2
<1>23. \A m \in Post : Silent(m) => Silent(m)'
  <2>1. \A m \in Post : Silent(m) => m # n
    BY <1>1 DEF Silent
  <2>2. \A m \in Post : (Reached(m)' <=> Reached(m)) /\ (Misread(m)' <=> Misread(m))
    BY <1>1 DEF Reached, Misread
  <2> QED BY <1>1, <1>8, <2>1, <2>2, PostIsNat DEF Silent
<1>24. JobsHonest'
  <2> SUFFICES ASSUME NEW m \in Post, Over(m)', entry'[m] # "none", Plainly(m)' PROVE Silent(m)'
    BY DEF JobsHonest
  <2>1. m # n /\ post'[m] = post[m] /\ job'[m] = job[m]
    BY <1>8, <1>11, <1>14
  <2>2. entry[m] # "none" /\ Over(m) /\ Plainly(m)
    BY <1>2, <2>1 DEF Over, Plainly
  <2> QED BY <1>23, <2>2 DEF JobsHonest
<1>25. PostsHonest'
  <2> SUFFICES ASSUME NEW p \in Post, post'[p].state = "answered", Definite(post'[p].answer),
                      Want[post'[p].wish].kind # "closeScope", NEW m \in Ours(p)'
               PROVE  Silent(m)'
    BY DEF PostsHonest
  <2>1. p # n
    BY <1>10, <1>11
  <2>2. post'[p] = post[p] /\ post'[n].wish = w /\ \A j \in Post \ {n} : post'[j] = post[j] /\ job'[j] = job[j]
    BY <1>1, <1>8, <1>10, <1>11, <2>1
  <2>3. post[p].state = "answered" /\ Definite(post[p].answer) /\ Want[post[p].wish].kind # "closeScope"
    BY <2>2
  <2> QED BY <1>2, <1>23, <2>1, <2>2, <2>3, OthersHonest
<1> QED BY <1>12, <1>15, <1>16, <1>17, <1>18, <1>19, <1>20, <1>21, <1>22, <1>24, <1>25

LEMMA PostWishKeeps ==
  ASSUME IInv, NEW w \in Wish, PostWish(w)
  PROVE  IInv'
<1> DEFINE n == posts + 1
           rejected == [state |-> "answered", wish |-> w, job |-> NoJob, answer |-> Rejection]
           asked == PlanOf(Want[w], Target)
<1>1. PICK present \in IF Want[w].kind = "closeScope" THEN SUBSET Want[w].targets ELSE {Target} :
        LET plan == PlanOf(Want[w], present)
        IN  \/ ~plan.valid /\ Reject(n, w) /\ UNCHANGED <<job, tail, entry, lapsed>>
            \/ plan.valid /\ Keyed(plan) /\ RunKeyed(n, w, plan)
            \/ plan.valid /\ ~Keyed(plan) /\ RunUnkeyed(n, w, plan)
  BY DEF PostWish
<1> DEFINE plan == PlanOf(Want[w], present)
           d == plan.dedup
           hits == {m \in Prune(d) : job[m].plan.key = plan.key}
           room == MakeRoom(Prune(d))
<1>2. plan \in PlansOf(w) /\ asked \in PlansOf(w)
  <2>1. present \in SUBSET Target
    BY WantKind
  <2> QED BY <2>1 DEF PlansOf
<1>3. plan.valid = asked.valid /\ plan.dedup = asked.dedup /\ plan.key = asked.key /\ plan.signature = asked.signature
  BY <1>2, PlansAgree
<1>4. n \in Post /\ Posted(n, w)
  <2>1. posts \in 0 .. MaxPosts /\ posts < MaxPosts
    BY DEF PostWish, IInv, Typed
  <2>2. n \in Post
    BY <2>1, PostIsNat DEF Post
  <2> QED BY <2>2 DEF Posted, PostWish, herdrVars
<1>5. rejected \in Posts
  <2>1. Rejection \in Answers
    BY AnswerTyped DEF Rejection
  <2> QED BY <2>1, PostIsNat DEF Posts, NoJob
<1>6. \A m \in Post : Keyed(job[m].plan) /\ post[m].wish = w =>
        job[m].plan \in PlansOf(w) /\ job[m].plan.valid
  <2>1. \A m \in Post : Keyed(job[m].plan) => Started(m)
    BY JobPlan DEF IInv
  <2> QED BY <2>1 DEF IInv, Numbered
<1>7. Forgets(NoJob) /\ IInv /\ Reject(n, w) /\ UNCHANGED <<job, tail>>
      /\ (\A m \in Post \ {n} : ~(post[m].wish = w /\ Keyed(job[m].plan) /\ job[m].plan.key \notin lapsed'))
      => IInv'
  <2>1. rejected.wish = w /\ rejected.state = "answered"
    OBVIOUS
  <2>2. Reject(n, w) => post' = [post EXCEPT ![n] = rejected]
    BY DEF Reject
  <2> HIDE DEF rejected
  <2> QED BY <1>4, <1>5, <2>1, <2>2, UnstartedPostKeeps
<1>8. CASE ~plan.valid /\ Reject(n, w) /\ UNCHANGED <<job, tail, entry, lapsed>>
  <2>1. Forgets(NoJob)
    BY <1>8 DEF Forgets, IInv, Typed
  <2>2. \A m \in Post : Keyed(job[m].plan) /\ post[m].wish = w => plan.valid
    BY <1>2, <1>6, PlansAgree
  <2> QED BY <1>7, <1>8, <2>1, <2>2
<1>9. CASE plan.valid /\ ~Keyed(plan) /\ RunUnkeyed(n, w, plan)
  <2>1. Enlist(n, plan) /\ Await(n, w, n) /\ UNCHANGED <<entry, lapsed>>
    BY <1>9 DEF RunUnkeyed
  <2>2. Forgets(n) /\ entry'[n] = "none"
    BY <1>4, <2>1, PostIsFresh DEF Forgets, IInv, Typed
  <2>3. \A m \in Post : Keyed(job[m].plan) /\ SameRequest(job[m].plan, plan) => job[m].plan.key \in lapsed'
    BY <1>9 DEF Keyed, SameRequest
  <2> HIDE DEF plan
  <2> QED BY <1>2, <1>4, <1>9, <2>1, <2>2, <2>3, StartedPostKeeps
<1>10. CASE plan.valid /\ Keyed(plan) /\ RunKeyed(n, w, plan)
  <2>1. CASE \E m \in hits : /\ job[m].plan.signature # plan.signature
                             /\ Reject(n, w) /\ Keep(d, Prune(d), NoJob) /\ UNCHANGED <<job, tail>>
    <3>1. PICK m \in hits : /\ job[m].plan.signature # plan.signature
                            /\ Reject(n, w) /\ Keep(d, Prune(d), NoJob) /\ UNCHANGED <<job, tail>>
      BY <2>1
    <3>2. Forgets(NoJob)
      BY <3>1, RoomForgets, KeepForgets
    <3>3. m \in Post /\ SameRequest(job[m].plan, asked)
      BY <1>3 DEF Prune, Held, SameRequest
    <3>4. ASSUME NEW k \in Post, post[k].wish = w, Keyed(job[k].plan), job[k].plan.key \notin lapsed'
          PROVE  FALSE
      <4>1. k = m
        BY <3>2, <3>3, <3>4, OneJobOfWish DEF Forgets
      <4> QED BY <1>2, <1>6, <3>1, <3>4, <4>1, PlansAgree
    <3> QED BY <1>7, <3>1, <3>2, <3>4
  <2>2. CASE \E m \in hits : /\ job[m].plan.signature = plan.signature
                             /\ Await(n, w, m) /\ Keep(d, Prune(d), NoJob) /\ UNCHANGED <<job, tail>>
    <3>1. PICK m \in hits : /\ job[m].plan.signature = plan.signature
                            /\ Await(n, w, m) /\ Keep(d, Prune(d), NoJob) /\ UNCHANGED <<job, tail>>
      BY <2>2
    <3>2. Forgets(NoJob)
      BY <3>1, RoomForgets, KeepForgets
    <3>3. m \in Post /\ SameRequest(job[m].plan, asked) /\ entry[m] \in {"running", "done"} /\ Keyed(asked)
          /\ job[m].plan.signature = asked.signature
      BY <1>3, <1>10, <3>1 DEF Prune, Held, SameRequest, IInv, Typed, Keyed
    <3>4. m # n
      BY <1>4, <3>3, PostIsFresh
    <3> DEFINE x == [state |-> IF entry[m] = "done" THEN "answered" ELSE "waiting",
                     wish |-> w, job |-> m, answer |-> job[m].answer]
    <3>5. post' = [post EXCEPT ![n] = x]
      <4>1. (entry[m] \in {"done", "expired"}) <=> entry[m] = "done"
        BY <3>3
      <4> QED BY <3>1, <4>1, Zenon DEF Await
    <3>6. x \in Posts /\ x.state \in {"waiting", "answered"} /\ x.wish = w /\ x.job = m /\ x.answer = job[m].answer
      BY <3>3, JobFields, PostIsNat DEF Posts, Post, IInv
    <3>7. x.state = "waiting" => job[m].state = "open"
      BY <3>3 DEF IInv, Entered
    <3>8. ASSUME x.state = "answered", Definite(x.answer), Want[w].kind # "closeScope"
          PROVE  Silent(m)
      <4>1. Over(m) /\ entry[m] # "none"
        BY <3>3, <3>8 DEF IInv, Entered
      <4>2. post[m].wish \in Wish /\ job[m].plan \in PlansOf(post[m].wish)
        BY <3>3, <4>1, JobPlan DEF IInv, Over, Started
      <4>3. Want[post[m].wish].kind # "closeScope"
        BY <1>2, <3>3, <3>8, <4>2, SameKind DEF SameRequest
      <4> QED BY <3>3, <3>6, <3>8, <4>1, <4>3 DEF IInv, JobsHonest, Plainly
    <3>9. \A k \in Post : post[k].wish = w /\ Keyed(job[k].plan) /\ job[k].plan.key \notin lapsed' => k = m
      BY <3>2, <3>3, OneJobOfWish DEF Forgets
    <3> HIDE DEF x, asked
    <3>10. asked = PlanOf(Want[w], Target)
      BY DEF asked
    <3>11. x.state = "waiting" =>
             /\ x.job \in Post \ {n} /\ job[x.job].state = "open"
             /\ Keyed(asked) /\ SameRequest(job[x.job].plan, asked) /\ job[x.job].plan.signature = asked.signature
      BY <3>3, <3>4, <3>6, <3>7
    <3>12. x.state = "answered" /\ Definite(x.answer) /\ Want[w].kind # "closeScope" =>
             \A k \in Post \ {n} : post[k].wish = w /\ Keyed(job[k].plan) /\ job[k].plan.key \notin lapsed' => Silent(k)
      BY <3>8, <3>9
    <3> HIDE DEF n
    <3> QED BY <1>4, <3>1, <3>2, <3>5, <3>6, <3>10, <3>11, <3>12, UnstartedPostKeeps
  <2>3. CASE hits = {} /\ Reject(n, w) /\ Keep(d, room, NoJob) /\ UNCHANGED <<job, tail>>
    <3>1. Forgets(NoJob)
      BY <2>3, RoomForgets, KeepForgets
    <3>2. ASSUME NEW k \in Post, post[k].wish = w, Keyed(job[k].plan)
          PROVE  job[k].plan.key \in lapsed'
      <4>1. SameRequest(job[k].plan, plan)
        BY <1>2, <1>6, <3>2, PlansAgree DEF SameRequest
      <4> QED BY <2>3, <3>2, <4>1, MissIsForgotten
    <3> QED BY <1>7, <2>3, <3>1, <3>2
  <2>4. CASE hits = {} /\ Enlist(n, plan) /\ Await(n, w, n) /\ Keep(d, room, n)
    <3>1. Forgets(n) /\ entry'[n] = "running"
      BY <1>4, <2>4, RoomForgets, KeepForgets
    <3>2. \A m \in Post : Keyed(job[m].plan) /\ SameRequest(job[m].plan, plan) => job[m].plan.key \in lapsed'
      BY <2>4, MissIsForgotten
    <3> HIDE DEF plan
    <3> QED BY <1>2, <1>4, <1>10, <2>4, <3>1, <3>2, StartedPostKeeps
  <2> QED BY <1>10, <2>1, <2>2, <2>3, <2>4 DEF RunKeyed
<1> QED BY <1>1, <1>8, <1>9, <1>10

-----------------------------------------------------------------------------
(***************************************************************************)
(* The theorems.                                                           *)
(***************************************************************************)
LEMMA StepKeeps == IInv /\ [Next]_vars => IInv'
<1> SUFFICES ASSUME IInv, [Next]_vars PROVE IInv'
  OBVIOUS
<1>1. ASSUME NEW w \in Wish, PostWish(w) PROVE IInv'
  BY <1>1, PostWishKeeps
<1>2. ASSUME NEW n \in Post, ClientGivesUp(n) \/ ServerStep(n) \/ TtlPasses(n) PROVE IInv'
  BY <1>2, ClientGivesUpKeeps, ServerStepKeeps, TtlPassesKeeps
<1>3. CASE Restart
  BY <1>3, RestartKeeps
<1>4. ASSUME NEW c \in wire, HerdrExecutes(c) PROVE IInv'
  BY <1>4, HerdrKeeps, HerdrSplitsOver
<1>5. ASSUME NEW c \in wire, HerdrRefuses(c) PROVE IInv'
  <2>1. SplitOver'
    BY <1>5 DEF HerdrRefuses, serverVars, IInv, SplitOver, Over
  <2> QED BY <1>5, <2>1, HerdrKeeps
<1>6. CASE UNCHANGED vars
  <2> USE <1>6 DEF vars, IInv
  <2>1. (Typed /\ Numbered /\ Entered)'
    BY DEF Typed, Numbered, Entered, Started, Over
  <2>2. (OneJob /\ Called /\ FineIsDone)'
    BY DEF OneJob, Called, FineIsDone, Seen, Over
  <2>3. Phased'
    BY DEF Phased, Seen, Call
  <2>4. (Queued /\ SplitOver)'
    BY DEF Queued, Queues, Began, Started, SplitOver, Over
  <2>5. Waits'
    BY DEF Waits, Started
  <2>6. (JobsHonest /\ PostsHonest)'
    BY DEF JobsHonest, PostsHonest, Plainly, Misread, Silent, Misread, Reached, Over, Ours, Keyed
  <2> QED BY <2>1, <2>2, <2>3, <2>4, <2>5, <2>6
<1> QED BY <1>1, <1>2, <1>3, <1>4, <1>5, <1>6 DEF Next

LEMMA AlwaysIInv == Spec => []IInv
<1> QED BY InitTyped, StepKeeps, PTL DEF Spec

\* Every job has the plan of its post's wish, and the state of its entry, of its
\* calls and of its place in the queue agree (server.ts: RequestDeduplicator and
\* PaneMutationQueue).
THEOREM MutationsTypeCorrect == Spec => [](Typed /\ Numbered /\ Entered /\ Called /\ Phased)
<1>1. IInv => Typed /\ Numbered /\ Entered /\ Called /\ Phased
  BY DEF IInv
<1> QED BY <1>1, AlwaysIInv, PTL

\* The mutations of a pane settle in the order in which they joined its queue,
\* and none begins before the one ahead of it settled (PaneMutationQueue.run).
THEOREM MutationsQueueInOrder == Spec => []Queued
<1>1. IInv => Queued
  BY DEF IInv
<1> QED BY <1>1, AlwaysIInv, PTL

\* Two jobs of one request id: the bridge had forgotten the first (RequestDeduplicator.run).
THEOREM MutationsRunOnce == Spec => []OnceUntilForgotten
<1>1. IInv => OnceUntilForgotten
  BY DEF IInv, OneJob, OnceUntilForgotten, SameRequest
<1> QED BY <1>1, AlwaysIInv, PTL

\* What is reported as plainly failed is neither in the terminal nor on its way
\* there, unless Herdr answered a create with a result of the wrong shape
\* (sendReplySteps, mutationFailureResponse and the conversions of the creates).
THEOREM MutationsFailHonestly == Spec => []FailureIsHonest
<1>1. IInv => FailureIsHonest
  BY DEF IInv, PostsHonest, FailureIsHonest, Silent
<1> QED BY <1>1, AlwaysIInv, PTL

\* Nothing that waited its turn lands inside a reply that was confirmed.
THEOREM MutationsKeepRepliesWhole == Spec => []ReplyIsWhole
<1>1. IInv => ReplyIsWhole
  BY DEF IInv, SplitOver, ReplyIsWhole
<1> QED BY <1>1, AlwaysIInv, PTL
=============================================================================
