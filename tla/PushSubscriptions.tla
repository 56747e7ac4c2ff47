-------------------------- MODULE PushSubscriptions --------------------------
(***************************************************************************)
(* Web Push subscriptions: the store of the bridge (bridge/push.ts), its   *)
(* HTTP routes (bridge/server.ts), and the browser that switches push on   *)
(* and off (web/src/lib/push.ts, web/src/hooks/usePush.ts).                *)
(*                                                                         *)
(* The bridge changes its subscriptions in a chain of transactions: copy   *)
(* the live map, change the copy, write it to a file, then make it live.   *)
(* A broadcast first drops the owners that lost their permission, sends,   *)
(* and drops the endpoints the push service no longer knows.  In the       *)
(* browser, flows that await the bridge and the push manager run beside    *)
(* each other: the set-up of a page that loads, and the settings dialog.   *)
(*                                                                         *)
(* Notification permission is granted and the context secure throughout.   *)
(***************************************************************************)
EXTENDS Naturals, Sequences, FiniteSets, Access

CONSTANTS
  Config,         \* configurations a process of the bridge may start with (Access, and key)
  NoKey,          \* key of a configuration without usable VAPID keys
  Me,             \* the browser's requests, as Access sees them
  InitialFile,    \* entries on disk at the start; owner None is the legacy format
  MaxEndpoints,   \* bound: subscriptions the browser ever makes
  MaxSubs,        \* MAX_PUSH_SUBSCRIPTIONS
  MaxFlows,       \* bound: flows the browser starts
  MaxFaults,      \* bound: failed writes, lost answers, failed local unsubscribes
  MaxCasts,       \* bound: broadcasts
  MaxRestarts     \* bound: restarts of the bridge

Endpoint == 1 .. MaxEndpoints
NoEndpoint == 0

VARIABLES
  cfg,       \* the configuration of the running bridge
  file,      \* push-subscriptions.json: a set of entries [ep, owner]
  subs,      \* the live map
  chain,     \* mutationChain: the mutations not yet settled
  cast,      \* the broadcast in progress
  wire,      \* requests of the browser the bridge has not handled yet
  mine,      \* the subscription the browser's push manager holds
  keyOf,     \* keyOf[e]: the server key endpoint e was made for
  alive,     \* endpoints the push service accepts
  optedOut,  \* localStorage: push-disabled
  flow,      \* flow[f]: "setup" (usePushSetup) and "control" (usePushControl)
  spent,     \* how often each bounded thing happened
  kept,      \* history: endpoints whose registration the bridge confirmed
  gone,      \* history: endpoints whose removal the bridge confirmed
  unswept,   \* history: endpoints load() refused and could not erase, in the file ever since
  off,       \* history: whether the user switched push off, and was told it is
  rude       \* history: a broadcast that began after that reached the browser

server  == <<cfg, file, subs, chain>>
browser == <<mine, keyOf, alive, optedOut>>
vars == <<server, cast, wire, browser, flow, spent, kept, gone, unswept, off, rude>>

Spend(what) == spent' = [spent EXCEPT ![what] = @ + 1]
Limit == [flows |-> MaxFlows, faults |-> MaxFaults, casts |-> MaxCasts, restarts |-> MaxRestarts]
May(what) == spent[what] < Limit[what]

Entry(e, owner) == [ep |-> e, owner |-> owner]
Of(s, e)        == {x \in s : x.ep = e}
Endpoints(s)    == {x.ep : x \in s}

(***************************************************************************)
(* Ownership.                                                              *)
(***************************************************************************)
OwnerIsActive(owner, c) ==
  c.deviceHeader => owner = "local" \/ (owner # "unrestricted" /\ owner \in c.allow)

\* The owner of a registration, and the actor of a removal.
OwnerOf(auth) ==
  IF ~auth.enforced THEN "unrestricted" ELSE IF auth.device # None THEN auth.device ELSE "local"
ActorOf(auth) ==
  IF auth.enforced /\ auth.device = None /\ ~auth.authorized THEN "nobody" ELSE OwnerOf(auth)

Permitted(actor, owner) ==
  \/ actor \in {"local", "unrestricted"}
  \/ actor = owner /\ owner \notin {"local", "unrestricted"}

(***************************************************************************)
(* load(): the file of an earlier process becomes the live map.            *)
(***************************************************************************)
Adopt(x, c) == IF x.owner = None THEN Entry(x.ep, IF c.deviceHeader THEN None ELSE "unrestricted") ELSE x

Loaded(f, c) ==
  LET usable == {x \in {Adopt(y, c) : y \in f} : x.owner # None /\ OwnerIsActive(x.owner, c)}
  IN  CHOOSE s \in SUBSET usable : Cardinality(s) = IF Cardinality(usable) < MaxSubs
                                                    THEN Cardinality(usable) ELSE MaxSubs

(***************************************************************************)
(* A mutation [op, eps, owner, from, stage, next] of the live map s.       *)
(***************************************************************************)
Apply(m, s) ==
  CASE m.op = "add" ->
         IF Of(s, m.ep) = {} /\ Cardinality(s) >= MaxSubs THEN [next |-> s, result |-> "full"]
         ELSE [next |-> (s \ Of(s, m.ep)) \union {Entry(m.ep, m.owner)}, result |-> "stored"]
    [] m.op = "remove" ->
         IF \A x \in Of(s, m.ep) : Permitted(m.owner, x.owner)
         THEN [next |-> s \ Of(s, m.ep), result |-> "removed"]   \* or not-found: the same answer
         ELSE [next |-> s, result |-> "forbidden"]
    [] m.op = "inactive" -> [next |-> {x \in s : OwnerIsActive(x.owner, cfg)}, result |-> "done"]
    [] m.op = "dead" -> [next |-> {x \in s : x.ep \notin m.eps}, result |-> "done"]

Mutation(op, ep, eps, owner, from) ==
  [op |-> op, ep |-> ep, eps |-> eps, owner |-> owner, from |-> from, stage |-> "queued", next |-> {}]

NoFlow == [pc |-> "idle", sub |-> NoEndpoint, key |-> NoKey, created |-> FALSE, off |-> FALSE,
           alone |-> FALSE, reply |-> "none"]
NoCast == [pc |-> "idle", to |-> {}, dead |-> {}, quiet |-> FALSE]
Flow   == {"setup", "control"}

Init ==
  /\ cfg \in Config
  /\ subs = Loaded(InitialFile, cfg) /\ file \in {InitialFile, subs}
  /\ chain = <<>> /\ cast = NoCast /\ wire = {}
  /\ mine = NoEndpoint /\ keyOf = [e \in Endpoint |-> NoKey] /\ alive = {}
  /\ optedOut = FALSE
  /\ flow = [f \in Flow |-> NoFlow]
  /\ spent = [what \in DOMAIN Limit |-> 0]
  /\ kept = {} /\ gone = {} /\ unswept = {} /\ off = "no" /\ rude = FALSE

(***************************************************************************)
(* The bridge.                                                             *)
(***************************************************************************)
Reply(f, answer) == flow' = IF f \in Flow THEN [flow EXCEPT ![f].reply = answer] ELSE flow

\* A request arrives: the guard answers it, or it joins the chain.
Serve(r) ==
  /\ r \in wire /\ wire' = wire \ {r}
  /\ LET auth    == DeviceAuth(Me, cfg)
         allowed == Guard(Me, cfg, IF r.op = "add" THEN "write" ELSE "read")
         actor   == IF r.op = "add" THEN OwnerOf(auth) ELSE ActorOf(auth)
     IN  IF allowed /\ (r.op = "add" => cfg.key # NoKey) /\ actor # "nobody"
         THEN /\ chain' = Append(chain, Mutation(r.op, r.ep, {}, actor, r.from))
              /\ UNCHANGED flow
         ELSE Reply(r.from, "error") /\ UNCHANGED chain
  /\ UNCHANGED <<cfg, file, subs, cast, browser, spent, kept, gone, unswept, off, rude>>

\* Mutant: every mutation starts at once.
AnyTurn(i) == TRUE

MyTurn(i) == i = 1

Without(i) == SubSeq(chain, 1, i - 1) \o SubSeq(chain, i + 1, Len(chain))

\* The promise of mutation m settles: its request is answered, or the broadcast goes on.
Settle(i, m, result, now) ==
  /\ chain' = Without(i)
  /\ IF m.from = "cast"
     THEN /\ cast' = IF result = "error" \/ m.op = "dead" THEN NoCast
                     ELSE [cast EXCEPT !.pc = "sending", !.to = Endpoints(now),
                                          !.quiet = off = "yes" /\ mine \notin unswept]
          /\ UNCHANGED <<flow, kept, gone>>
     ELSE /\ Reply(m.from, IF result \in {"stored", "removed"} THEN "ok" ELSE "error")
          /\ kept' = IF result = "stored" THEN kept \union {m.ep} ELSE kept
          /\ gone' = IF m.op = "remove" /\ result = "removed" THEN gone \union {m.ep} ELSE gone
          /\ UNCHANGED cast

ApplyMutation(i) ==
  /\ chain[i].stage = "queued" /\ MyTurn(i)
  /\ LET m == chain[i]
         mutated == Apply(m, subs)
     IN  IF mutated.next = subs /\ mutated.result # "stored"
         THEN Settle(i, m, mutated.result, subs)
         ELSE /\ chain' = [chain EXCEPT ![i].stage = "writing", ![i].next = mutated.next]
              /\ UNCHANGED <<cast, flow, kept, gone>>
  /\ UNCHANGED <<cfg, file, subs, wire, browser, spent, unswept, off, rude>>

\* The temporary file takes the place of the old one, or the write fails.
WriteState(i) ==
  /\ chain[i].stage = "writing"
  /\ \/ /\ file' = chain[i].next
        /\ chain' = [chain EXCEPT ![i].stage = "renamed"]
        /\ kept' = IF chain[i].op = "remove" THEN kept \ {chain[i].ep} ELSE kept
        /\ gone' = IF chain[i].op = "add" THEN gone \ {chain[i].ep} ELSE gone
        /\ unswept' = (unswept \intersect Endpoints(file')) \ (IF chain[i].op = "add" THEN {chain[i].ep} ELSE {})
        /\ UNCHANGED <<cast, flow, spent>>
     \/ /\ May("faults") /\ Spend("faults")
        /\ Settle(i, chain[i], "error", subs)
        /\ UNCHANGED <<file, unswept>>
  /\ UNCHANGED <<cfg, subs, wire, browser, off, rude>>

ReplaceSubscriptions(i) ==
  /\ chain[i].stage = "renamed"
  /\ subs' = chain[i].next
  /\ Settle(i, chain[i], IF chain[i].op = "add" THEN "stored" ELSE "removed", chain[i].next)
  /\ UNCHANGED <<cfg, file, wire, browser, spent, unswept, off, rude>>

(***************************************************************************)
(* A broadcast (broadcast()).  One at a time is a bound: each session has  *)
(* its own sink, and the update queue and the push test send beside them.  *)
(***************************************************************************)
Broadcast ==
  /\ cast.pc = "idle" /\ cfg.key # NoKey /\ May("casts") /\ Spend("casts")
  /\ cast' = [NoCast EXCEPT !.pc = "pruning"]
  /\ chain' = Append(chain, Mutation("inactive", NoEndpoint, {}, None, "cast"))
  /\ UNCHANGED <<cfg, file, subs, wire, browser, flow, kept, gone, unswept, off, rude>>

\* The push service takes the message for e, knows no such subscription (404, 410),
\* or refuses it for another reason.
Send(e) ==
  /\ cast.pc = "sending" /\ e \in cast.to
  /\ cast' = [cast EXCEPT !.to = @ \ {e}, !.dead = IF e \in alive THEN @ ELSE @ \union {e}]
  /\ rude' = (rude \/ (e = mine /\ e \in alive /\ keyOf[e] = cfg.key /\ off = "yes" /\ cast.quiet))
  /\ UNCHANGED <<server, wire, browser, flow, spent, kept, gone, unswept, off>>

Prune ==
  /\ cast.pc = "sending" /\ cast.to = {}
  /\ IF cast.dead = {} THEN cast' = NoCast /\ UNCHANGED chain
     ELSE /\ cast' = [cast EXCEPT !.pc = "pruningDead"]
          /\ chain' = Append(chain, Mutation("dead", NoEndpoint, cast.dead, None, "cast"))
  /\ UNCHANGED <<cfg, file, subs, wire, browser, flow, spent, kept, gone, unswept, off, rude>>

\* The process ends and another starts, perhaps configured differently; a failed
\* rewrite in load() is ignored.
Restart ==
  /\ May("restarts") /\ Spend("restarts")
  /\ cfg' \in Config
  /\ subs' = Loaded(file, cfg')
  /\ file' \in {file, subs'}
  /\ kept' = {e \in kept : \A x \in Of(file, e) : OwnerIsActive(x.owner, cfg')}
  /\ unswept' = (unswept \intersect Endpoints(file')) \union (Endpoints(file') \ Endpoints(subs'))
  /\ UNCHANGED gone
  /\ chain' = <<>> /\ cast' = NoCast
  /\ flow' = [f \in Flow |-> IF \E i \in DOMAIN chain : chain[i].from = f
                             THEN [flow[f] EXCEPT !.reply = "error"] ELSE flow[f]]
  /\ UNCHANGED <<wire, browser, off, rude>>

(***************************************************************************)
(* The browser.  go: the flow f moves on to pc with changes ch.            *)
(***************************************************************************)
Go(f, pc, ch) == flow' = [flow EXCEPT ![f] = [x \in DOMAIN @ |-> IF x = "pc" THEN pc
                                                           ELSE IF x = "reply" THEN "none"
                                                           ELSE IF x \in DOMAIN ch THEN ch[x] ELSE @[x]]]

\* A flow of the settings dialog is followed by a refresh, getPushState().
Done(f, disabled) ==
  IF f = "control" /\ flow[f].pc \notin {"look", "status", "register"}
  THEN Go(f, "look", [off |-> disabled])
  ELSE flow' = [flow EXCEPT ![f] = NoFlow]

Request(f, op, e) == wire' = wire \union {[op |-> op, ep |-> e, from |-> f]}

\* Whether a switch-off had the browser for itself.
Switched(f) == IF flow[f].alone THEN "yes" ELSE "raced"

Quiet == wire = {} /\ chain = <<>> /\ \A f \in Flow : flow[f].pc = "idle"

\* usePushSetup: a page loads; its opt-in flow is not started by the user.
StartSetup ==
  /\ flow["setup"].pc = "idle" /\ ~optedOut /\ May("flows") /\ Spend("flows")
  /\ flow' = [flow EXCEPT !["setup"] = [NoFlow EXCEPT !.pc = "config"], !["control"].alone = FALSE]
  /\ UNCHANGED <<server, cast, wire, browser, kept, gone, unswept, off, rude>>

\* The settings dialog: it is opened, or its switch is turned on or off.
StartControl(pc) ==
  /\ flow["control"].pc = "idle" /\ (pc = "disable" => mine # NoEndpoint) /\ May("flows") /\ Spend("flows")
  /\ flow' = [flow EXCEPT !["control"] = [NoFlow EXCEPT !.pc = pc, !.off = optedOut, !.alone = Quiet]]
  /\ off' = IF pc = "config" THEN "no" ELSE off
  /\ UNCHANGED rude
  /\ UNCHANGED <<server, cast, wire, browser, kept, gone, unswept>>

\* receiver.config(): the server key, or an error.
FetchConfig(f) ==
  /\ flow[f].pc = "config"
  /\ \/ cfg.key # NoKey /\ Go(f, "lookup", [key |-> cfg.key]) /\ UNCHANGED spent
     \/ cfg.key = NoKey /\ Done(f, optedOut) /\ UNCHANGED spent
     \/ May("faults") /\ Spend("faults") /\ Done(f, optedOut)
  /\ UNCHANGED <<server, cast, wire, browser, kept, gone, unswept, off, rude>>

\* getSubscription(): keep it, replace one made for another key, or make one.
Lookup(f) ==
  /\ flow[f].pc = "lookup"
  /\ IF mine = NoEndpoint THEN Go(f, "subscribe", <<>>) /\ UNCHANGED wire
     ELSE IF keyOf[mine] # flow[f].key THEN Go(f, "renew", [sub |-> mine]) /\ UNCHANGED wire
     ELSE Go(f, "post", [sub |-> mine]) /\ Request(f, "add", mine)
  /\ UNCHANGED <<server, cast, browser, spent, kept, gone, unswept, off, rude>>

Unsubscribed(e) ==
  /\ alive' = alive \ {e}
  /\ mine' = IF mine = e THEN NoEndpoint ELSE mine
  /\ UNCHANGED <<keyOf, optedOut>>

Renew(f) ==
  /\ flow[f].pc = "renew" /\ Unsubscribed(flow[f].sub) /\ Go(f, "subscribe", [sub |-> NoEndpoint])
  /\ UNCHANGED <<server, cast, wire, spent, kept, gone, unswept, off, rude>>

\* subscribe(): a new endpoint, the one that exists for this key, or an error.
Subscribe(f) ==
  /\ flow[f].pc = "subscribe"
  /\ \/ /\ mine = NoEndpoint
        /\ \E e \in Endpoint :
             /\ keyOf[e] = NoKey /\ \A d \in 1 .. e - 1 : keyOf[d] # NoKey
             /\ mine' = e /\ alive' = alive \union {e} /\ keyOf' = [keyOf EXCEPT ![e] = flow[f].key]
             /\ Go(f, "post", [sub |-> e, created |-> TRUE]) /\ Request(f, "add", e)
        /\ UNCHANGED optedOut
     \/ /\ mine # NoEndpoint /\ keyOf[mine] = flow[f].key
        /\ Go(f, "post", [sub |-> mine, created |-> TRUE]) /\ Request(f, "add", mine)
        /\ UNCHANGED browser
     \/ /\ mine # NoEndpoint /\ keyOf[mine] # flow[f].key
        /\ Done(f, optedOut) /\ UNCHANGED <<wire, browser>>
  /\ UNCHANGED <<server, cast, spent, kept, gone, unswept, off, rude>>

\* The bridge accepted the registration, or a subscription made for it is rolled back.
Registered(f) ==
  /\ flow[f].pc = "post" /\ flow[f].reply # "none"
  /\ IF flow[f].reply = "ok" THEN optedOut' = FALSE /\ Done(f, FALSE) /\ UNCHANGED <<mine, keyOf, alive>>
     ELSE IF flow[f].created THEN Unsubscribed(flow[f].sub) /\ Done(f, optedOut)
     ELSE Done(f, optedOut) /\ UNCHANGED browser
  /\ UNCHANGED <<server, cast, wire, spent, kept, gone, unswept, off, rude>>

\* unsubscribe() or subscribe() of the push manager fails, in a roll-back too: the flow
\* ends there and leaves the subscription as it is.
ManagerFails(f) ==
  /\ \/ flow[f].pc \in {"renew", "subscribe"}
     \/ flow[f].pc = "post" /\ flow[f].reply \notin {"none", "ok"} /\ flow[f].created
  /\ May("faults") /\ Spend("faults") /\ Done(f, optedOut)
  /\ UNCHANGED <<server, cast, wire, browser, kept, gone, unswept, off, rude>>

\* Mutant: push is off at once, and the removal is not awaited.
DisableAtOnce(f) ==
  /\ flow[f].pc = "disable"
  /\ IF mine = NoEndpoint THEN UNCHANGED wire ELSE Request(f, "remove", mine)
  /\ optedOut' = TRUE /\ Done(f, TRUE) /\ off' = Switched(f)
  /\ UNCHANGED <<server, cast, mine, keyOf, alive, spent, kept, gone, unswept, rude>>

\* disablePush: without a subscription there is nothing to remove.
DisableLookup(f) ==
  /\ flow[f].pc = "disable"
  /\ IF mine = NoEndpoint
     THEN /\ optedOut' = TRUE /\ Done(f, TRUE) /\ off' = Switched(f)
          /\ UNCHANGED wire
     ELSE Go(f, "delete", [sub |-> mine]) /\ Request(f, "remove", mine) /\ UNCHANGED <<optedOut, off>>
  /\ UNCHANGED <<server, cast, mine, keyOf, alive, spent, kept, gone, unswept, rude>>

\* The bridge answered the DELETE; then the local unsubscribe succeeds or not.
Disabled(f) ==
  /\ flow[f].pc = "delete" /\ flow[f].reply # "none"
  /\ \/ /\ flow[f].sub \in alive
        /\ alive' = alive \ {flow[f].sub} /\ mine' = IF mine = flow[f].sub THEN NoEndpoint ELSE mine
        /\ optedOut' = TRUE /\ Done(f, TRUE) /\ off' = Switched(f)
        /\ UNCHANGED <<keyOf, spent>>
     \/ /\ IF flow[f].sub \in alive THEN May("faults") /\ Spend("faults") ELSE UNCHANGED spent
        /\ IF flow[f].reply = "ok" THEN optedOut' = TRUE /\ Done(f, TRUE) /\ off' = Switched(f)
           ELSE Done(f, optedOut) /\ UNCHANGED <<optedOut, off>>
        /\ UNCHANGED <<mine, keyOf, alive>>
  /\ UNCHANGED <<server, cast, wire, kept, gone, unswept, rude>>

\* getPushState repairs a registration only while the user has not opted out.
Repairs(f) == mine # NoEndpoint /\ ~flow[f].off

Look(f) ==
  /\ flow[f].pc = "look"
  /\ IF Repairs(f) THEN Go(f, "status", [sub |-> mine]) ELSE Done(f, optedOut)
  /\ UNCHANGED <<server, cast, wire, browser, spent, kept, gone, unswept, off, rude>>

FetchStatus(f) ==
  /\ flow[f].pc = "status"
  /\ IF cfg.key # NoKey /\ keyOf[flow[f].sub] = cfg.key
     THEN Go(f, "register", <<>>) /\ Request(f, "add", flow[f].sub)
     ELSE Done(f, optedOut) /\ UNCHANGED wire
  /\ UNCHANGED <<server, cast, browser, spent, kept, gone, unswept, off, rude>>

Checked(f) ==
  /\ flow[f].pc = "register" /\ flow[f].reply # "none" /\ Done(f, optedOut)
  /\ UNCHANGED <<server, cast, wire, browser, spent, kept, gone, unswept, off, rude>>

\* The fetch fails; its request may be lost, may still arrive, may have been executed.
LoseAnswer(f) ==
  /\ flow[f].pc \in {"post", "delete", "register"} /\ flow[f].reply = "none"
  /\ May("faults") /\ Spend("faults")
  /\ flow' = [flow EXCEPT ![f].reply = "error"]
  /\ \E late \in {{}, {r \in wire : r.from = f}} :
       wire' = {r \in wire : r.from # f} \union {[r EXCEPT !.from = "nobody"] : r \in late}
  /\ chain' = [i \in DOMAIN chain |-> IF chain[i].from = f THEN [chain[i] EXCEPT !.from = "nobody"] ELSE chain[i]]
  /\ UNCHANGED <<cfg, file, subs, cast, browser, kept, gone, unswept, off, rude>>

BridgeStep(i) == ApplyMutation(i) \/ WriteState(i) \/ ReplaceSubscriptions(i)

FlowStep(f) ==
  \/ FetchConfig(f) \/ Lookup(f) \/ Renew(f) \/ Subscribe(f) \/ Registered(f) \/ ManagerFails(f)
  \/ DisableLookup(f) \/ Disabled(f) \/ Look(f) \/ FetchStatus(f) \/ Checked(f)

Next ==
  \/ \E r \in wire : Serve(r)
  \/ \E i \in DOMAIN chain : BridgeStep(i)
  \/ Broadcast \/ (\E e \in cast.to : Send(e)) \/ Prune
  \/ Restart
  \/ StartSetup \/ \E pc \in {"config", "disable", "look"} : StartControl(pc)
  \/ \E f \in Flow : FlowStep(f) \/ LoseAnswer(f)

Spec == Init /\ [][Next]_vars

(***************************************************************************)
(* Properties.                                                             *)
(***************************************************************************)
TypeOK ==
  /\ cfg \in Config
  /\ mine \in Endpoint \union {NoEndpoint} /\ alive \subseteq Endpoint /\ kept \subseteq Endpoint
  /\ keyOf \in [Endpoint -> {c.key : c \in Config} \union {NoKey}]
  /\ \A s \in {file, subs} : \A x, y \in s : x.ep = y.ep => x = y
  /\ Cardinality(subs) <= MaxSubs
  /\ optedOut \in BOOLEAN /\ off \in {"no", "raced", "yes"} /\ rude \in BOOLEAN

\* What the bridge confirmed holds on disk: a registration until its owner's
\* removal, the end of the subscription or the loss of its owner's permission,
\* and a removal until the next registration.  Neither another change in flight,
\* nor a broadcast that prunes, nor a failed write or a restart undoes it.  (The
\* exception: an entry that load() dropped while its rewrite of the file failed.)
ConfirmedIsDurable ==
  /\ kept \intersect alive \subseteq Endpoints(file)
  /\ gone \intersect Endpoints(file) \subseteq unswept

\* Once the user has switched push off, with nothing else of this browser in
\* flight at the time, no later broadcast reaches the browser.  (The same exception: such
\* an entry is not there for the removal, and a later process may adopt it again.)
OffIsSilent == ~rude

\* The user's choice: off stays off until the user switches push on.
OptOutHolds == off # "no" => optedOut

=============================================================================
