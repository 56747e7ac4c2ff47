------------------------- MODULE NotificationsProofs -------------------------
(***************************************************************************)
(* One session's notifications for every set of panes, however late the    *)
(* snooze timer is.  The first part proves one buzz per block and a silent *)
(* snooze; the second that the slot is accurate, alerts match the herd and *)
(* no block is forgotten, up to what one late end of a snooze leaves.      *)
(***************************************************************************)
EXTENDS Notifications, TLAPS

\* What the callbacks made so far have told the coordinator of the pane.
Known(p) == IF turn = "commit" /\ p \notin left THEN fresh[p] ELSE agents[p]

\* Before its first snapshot the session holds nothing.
Unborn ==
  ~hydrated => /\ bridge = "disconnected" /\ ~initiallyReconciled /\ left = {}
               /\ agents = NoAlerts /\ pending = NoAlerts /\ outstanding = NoAlerts
               /\ rings = [p \in Panes |-> 0]

\* A live snapshot has been reconciled, and no resume waits for one.
Live == bridge = "connected" => initiallyReconciled /\ ~resumePending

\* The ledger runs ahead of the snapshot a reconciliation inside a commit reads.
LedgerAhead ==
  turn = "commit" => \A p \in Panes \ left :
    agents[p] = "done" /\ fresh[p] # "done" => p \notin completions

\* A block that has buzzed is not debouncing again.
BuzzedOnce ==
  \A p \in Panes : Known(p) = "blocked" => rings[p] = 0 \/ (rings[p] = 1 /\ pending[p] = None)

IInv == TypeOK /\ Unborn /\ Live /\ LedgerAhead /\ BuzzedOnce

KnownView == [p \in Panes |-> Known(p)]

----------------------------------------------------------------------------
(* What the coordinator's methods do to its record.                        *)

Coord == [pend : Alerts, out : Alerts, mute : {"off", "on", "lapsed"}, slot : Alerts,
          init : BOOLEAN, wait : BOOLEAN, view : View, up : BOOLEAN,
          kinds : SUBSET Kinds, done : SUBSET Panes,
          told : View, over : BOOLEAN, astray : SUBSET Panes]

\* d holds what is read, not written, as c does.
SameReads(c, d) ==
  d.view = c.view /\ d.up = c.up /\ d.kinds = c.kinds /\ d.done = c.done /\ d.told = c.told

\* d has c's flags, slot and snooze.
SameFlags(c, d) ==
  d.mute = c.mute /\ d.slot = c.slot /\ d.init = c.init /\ d.wait = c.wait

\* From c to d no alert starts debouncing but that of a completion, nothing is
\* rebuilt without a live snapshot, and a muted slot stays as it is.
Evolves(c, d) ==
  /\ d \in Coord /\ SameReads(c, d)
  /\ \A p \in Panes :
       \/ d.pend[p] \in {None, c.pend[p]}
       \/ c.up /\ d.pend[p] = "done" /\ c.view[p] = "done" /\ p \in c.done
  /\ ~c.up => d.init = c.init /\ \A p \in Panes : d.out[p] \in {None, c.out[p]}
  /\ c.init => d.init
  /\ d.wait => c.wait \/ ~c.up
  /\ d.mute = "on" <=> c.mute = "on"
  /\ c.mute = "on" => d.slot = c.slot

\* Every alert is of a kind wanted, and its pane's status unless the pane is astray.
Matched(d) ==
  \A p \in Panes : \A a \in {d.pend[p], d.out[p]} \ {None} :
    a \in d.kinds /\ (a = d.told[p] \/ p \in d.astray)

\* Every block that is wanted has an alert, but on panes astray or excepted.
Held(d, but) ==
  "blocked" \in d.kinds =>
    \A p \in Panes \ (d.astray \cup but) :
      d.told[p] = "blocked" => "blocked" \in {d.pend[p], d.out[p]}

\* d is heard, and has been rebuilt.
Settled(d) == d.mute = "off" /\ d.init /\ ~d.wait

\* d's alerts are what they should be; and the slot shows them.
Fit(d, but)   == Matched(d) /\ (Settled(d) => Held(d, but))
Ready(d, but) == Fit(d, but) /\ (Settled(d) => d.over \/ d.slot = d.out)

LEMMA EvolvesOn ==
  ASSUME NEW c \in Coord, NEW d, NEW e, Evolves(c, d), Evolves(d, e)
  PROVE  Evolves(c, e)
<1>1. e \in Coord /\ SameReads(c, e)
  BY DEF Evolves, SameReads
<1>2. ASSUME NEW p \in Panes
      PROVE  \/ e.pend[p] \in {None, c.pend[p]}
             \/ c.up /\ e.pend[p] = "done" /\ c.view[p] = "done" /\ p \in c.done
  BY DEF Evolves, SameReads
<1>3. ~c.up => e.init = c.init /\ \A p \in Panes : e.out[p] \in {None, c.out[p]}
  BY DEF Evolves, SameReads
<1>4. /\ c.init => e.init
      /\ e.wait => c.wait \/ ~c.up
      /\ e.mute = "on" <=> c.mute = "on"
      /\ c.mute = "on" => e.slot = c.slot
  BY DEF Evolves, SameReads
<1> QED
  BY <1>1, <1>2, <1>3, <1>4 DEF Evolves

\* Forgetting alerts, and no more.
LEMMA Forgetting ==
  ASSUME NEW c \in Coord, NEW d \in Coord, SameReads(c, d), SameFlags(c, d),
         \A p \in Panes : d.pend[p] \in {None, c.pend[p]} /\ d.out[p] \in {None, c.out[p]}
  PROVE  Evolves(c, d)
  BY DEF Evolves, SameFlags

LEMMA StayingPut == ASSUME NEW c \in Coord PROVE Evolves(c, c)
  BY DEF Evolves, SameReads

\* Readiness, like the rest, is of the fields it names.
LEMMA SameAlerts ==
  ASSUME NEW c, NEW d, NEW but, SameReads(c, d), d.pend = c.pend, d.out = c.out,
         d.astray = c.astray
  PROVE  Matched(d) = Matched(c) /\ Held(d, but) = Held(c, but)
  BY Zenon DEF Matched, Held, SameReads

\* Matching keeps only alerts that are still the pane's wanted status.
LEMMA MatchingMatches ==
  ASSUME NEW c \in Coord, NEW a \in Alerts
  PROVE  /\ Matching(a, c) \in Alerts
         /\ \A p \in Panes : /\ Matching(a, c)[p] \in {None, a[p]}
                             /\ Matching(a, c)[p] # None =>
                                  Matching(a, c)[p] = c.view[p] /\ Matching(a, c)[p] \in c.kinds
<1>1. \A p \in Panes : a[p] \in Kinds \cup {None}
  BY DEF Alerts
<1> QED
  BY <1>1 DEF Matching, Alerts, Coord

\* A rebuild leaves only matching alerts, brings every wanted block back, starts
\* a debounce for completions alone, and puts astray what the snapshot is behind on.
IsRebuild(c, r) ==
  /\ r \in Coord /\ SameReads(c, r) /\ SameFlags(c, r)
  /\ \A p \in Panes : \/ r.pend[p] \in {None, c.pend[p]}
                      \/ r.pend[p] = "done" /\ c.view[p] = "done" /\ p \in c.done
  /\ Matched(r) /\ Held(r, {})

LEMMA Rebuilding ==
  ASSUME NEW c \in Coord
  PROVE  IsRebuild(c, Rebuilt(c))
<1> DEFINE pend == Matching(c.pend, c)
           out == Matching(c.out, c)
           free(p) == pend[p] = None /\ out[p] = None /\ c.view[p] \in c.kinds
           P == [p \in Panes |-> IF free(p) /\ c.view[p] = "done" /\ p \in c.done
                                   THEN "done" ELSE pend[p]]
           O == [p \in Panes |-> IF free(p) /\ c.view[p] = "blocked" THEN "blocked" ELSE out[p]]
           A == {p \in Panes : c.told[p] # c.view[p]}
           r == [c EXCEPT !.pend = P, !.out = O, !.astray = A]
<1>1. c.pend \in Alerts /\ c.out \in Alerts /\ c.kinds \subseteq Kinds
  BY DEF Coord
<1>2. /\ pend \in Alerts /\ out \in Alerts
      /\ \A p \in Panes : pend[p] \in {None, c.pend[p]} /\ (pend[p] # None => pend[p] = c.view[p] /\ pend[p] \in c.kinds)
      /\ \A p \in Panes : out[p] \in {None, c.out[p]} /\ (out[p] # None => out[p] = c.view[p] /\ out[p] \in c.kinds)
  BY <1>1, MatchingMatches
<1> HIDE DEF pend, out
<1>3. P \in Alerts /\ O \in Alerts
  BY <1>2 DEF Alerts, Kinds
<1>4. ASSUME NEW p \in Panes
      PROVE  /\ P[p] \in {None, c.pend[p]} \/ (P[p] = "done" /\ c.view[p] = "done" /\ p \in c.done)
             /\ P[p] # None => P[p] = c.view[p] /\ P[p] \in c.kinds
             /\ O[p] # None => O[p] = c.view[p] /\ O[p] \in c.kinds
  BY <1>2
<1>5. ASSUME NEW p \in Panes, c.view[p] = "blocked", "blocked" \in c.kinds
      PROVE  "blocked" \in {P[p], O[p]}
  <2>1. CASE pend[p] # None
    BY <1>5, <1>2, <2>1
  <2>2. CASE out[p] # None
    BY <1>5, <1>2, <2>2
  <2>3. CASE pend[p] = None /\ out[p] = None
    BY <1>5, <2>3
  <2> QED
    BY <2>1, <2>2, <2>3
<1>6. \A p \in Panes : p \in A \/ c.told[p] = c.view[p]
  OBVIOUS
<1>7. A \in SUBSET Panes
  OBVIOUS
<1>8. Rebuilt(c) = r
  BY DEF Rebuilt, pend, out
<1> HIDE DEF P, O, A, free
<1>9. r \in Coord /\ r.pend = P /\ r.out = O /\ r.astray = A
  BY <1>3, <1>7 DEF Coord
<1>10. SameReads(c, r) /\ SameFlags(c, r)
  BY DEF Coord, SameReads, SameFlags
<1> HIDE DEF r
<1>11. r.kinds = c.kinds /\ r.told = c.told
  BY <1>10 DEF SameReads
<1>12. Matched(r)
  <2>1. SUFFICES ASSUME NEW p \in Panes, NEW a \in {P[p], O[p]} \ {None}
                 PROVE  a \in c.kinds /\ (a = c.told[p] \/ p \in A)
    BY <1>9, <1>11, Zenon DEF Matched
  <2>2. a = c.view[p] /\ a \in c.kinds
    BY <1>4, <2>1
  <2> QED
    BY <1>6, <2>2
<1>13. Held(r, {})
  BY <1>5, <1>6, <1>9, <1>11, Zenon DEF Held
<1> QED
  BY <1>4, <1>8, <1>9, <1>10, <1>12, <1>13, Zenon DEF IsRebuild

\* A resume rebuilds if there is a live snapshot, and then shows what it rebuilt
\* unless muted; else it waits for one.
IsResume(c, d) == Evolves(c, d) /\ (Matched(c) => Ready(d, {}))

LEMMA Resuming ==
  ASSUME NEW c \in Coord
  PROVE  IsResume(c, Resumed(c))
<1>1. CASE ~c.up
  <2> DEFINE d == [c EXCEPT !.wait = TRUE]
  <2>1. /\ d \in Coord /\ SameReads(c, d) /\ d.mute = c.mute /\ d.slot = c.slot
        /\ d.init = c.init /\ d.wait = TRUE /\ d.pend = c.pend /\ d.out = c.out
        /\ d.astray = c.astray
    BY DEF Coord, SameReads
  <2>2. Resumed(c) = d
    BY <1>1 DEF Resumed
  <2> HIDE DEF d
  <2>3. Evolves(c, d)
    BY <1>1, <2>1 DEF Evolves
  <2>4. Matched(c) => Matched(d)
    BY <2>1, SameAlerts
  <2> QED
    BY <2>1, <2>2, <2>3, <2>4 DEF IsResume, Ready, Fit, Settled
<1>2. CASE c.up
  <2> DEFINE b == [c EXCEPT !.init = TRUE, !.wait = FALSE]
             r == Rebuilt(b)
             d == IF r.mute = "on" THEN r ELSE [r EXCEPT !.slot = r.out, !.mute = "off", !.over = FALSE]
  <2>1. /\ b \in Coord /\ SameReads(c, b) /\ b.mute = c.mute /\ b.slot = c.slot
        /\ b.init = TRUE /\ b.wait = FALSE /\ b.pend = c.pend /\ b.out = c.out
    BY DEF Coord, SameReads
  <2>2. Resumed(c) = d
    BY <1>2 DEF Resumed, Reconciled
  <2> HIDE DEF b
  <2>3. IsRebuild(b, r)
    BY <2>1, Rebuilding
  <2> HIDE DEF r
  <2>4. /\ r \in Coord /\ SameReads(c, r) /\ r.mute = c.mute /\ r.slot = c.slot
        /\ r.init = TRUE /\ r.wait = FALSE
        /\ \A p \in Panes : \/ r.pend[p] \in {None, c.pend[p]}
                            \/ r.pend[p] = "done" /\ c.view[p] = "done" /\ p \in c.done
        /\ Matched(r) /\ Held(r, {})
    BY <2>1, <2>3 DEF IsRebuild, SameReads, SameFlags
  <2>5. /\ d \in Coord /\ SameReads(r, d) /\ d.init = TRUE /\ d.wait = FALSE
        /\ d.pend = r.pend /\ d.out = r.out /\ d.astray = r.astray
        /\ c.mute = "on" => d.mute = "on" /\ d.slot = c.slot
        /\ c.mute # "on" => d.mute = "off" /\ d.slot = d.out
    BY <2>4 DEF Coord, SameReads
  <2> HIDE DEF d
  <2>6. Evolves(c, d)
    BY <1>2, <2>4, <2>5 DEF Evolves, SameReads
  <2>7. Matched(d) /\ Held(d, {})
    BY <2>4, <2>5, SameAlerts
  <2> QED
    BY <2>2, <2>5, <2>6, <2>7 DEF IsResume, Ready, Fit, Settled
<1> QED
  <2>1. c.up \in BOOLEAN
    BY DEF Coord
  <2> QED
    BY <1>1, <1>2, <2>1

\* The snooze ends in the record.
LEMMA Unmuting ==
  ASSUME NEW c \in Coord
  PROVE  LET b == [c EXCEPT !.mute = "off"] IN
         /\ b \in Coord /\ b.mute = "off" /\ Matched(b) = Matched(c)
         /\ c.mute # "on" => Evolves(c, b)
<1> DEFINE b == [c EXCEPT !.mute = "off"]
<1>1. /\ b \in Coord /\ SameReads(c, b) /\ b.mute = "off" /\ b.slot = c.slot
      /\ b.init = c.init /\ b.wait = c.wait /\ b.pend = c.pend /\ b.out = c.out
      /\ b.astray = c.astray
  BY DEF Coord, SameReads
<1> HIDE DEF b
<1>2. Matched(b) = Matched(c)
  BY <1>1, SameAlerts
<1>3. c.mute # "on" => Evolves(c, b)
  BY <1>1 DEF Evolves
<1> QED
  BY <1>1, <1>2, <1>3 DEF b

\* Every look at the snooze, and then every emit, leaves alerts that were fit
\* fit: what an overdue end of the snooze rebuilds is fit by itself.
LEMMA Noticing ==
  ASSUME NEW c \in Coord, NEW but
  PROVE  /\ Evolves(c, Noticed(c))
         /\ c.mute = "lapsed" /\ Matched(c) => Ready(Noticed(c), {})
         /\ c.mute # "lapsed" => Noticed(c) = c
<1> DEFINE b == [c EXCEPT !.mute = "off"]
<1>1. CASE c.mute = "lapsed"
  <2>1. b \in Coord /\ Matched(b) = Matched(c) /\ Evolves(c, b)
    BY <1>1, Unmuting
  <2>2. Noticed(c) = Resumed(b)
    BY <1>1 DEF Noticed
  <2> HIDE DEF b
  <2>3. IsResume(b, Resumed(b))
    BY <2>1, Resuming
  <2> QED
    BY <1>1, <2>1, <2>2, <2>3, EvolvesOn DEF IsResume
<1>2. CASE c.mute # "lapsed"
  BY <1>2, StayingPut DEF Noticed
<1> QED
  BY <1>1, <1>2

LEMMA HeldButMore ==
  ASSUME NEW d, NEW but, Held(d, {}) PROVE Held(d, but)
  BY DEF Held

LEMMA Emitting ==
  ASSUME NEW c \in Coord, NEW but
  PROVE  /\ Evolves(c, Emitted(c))
         /\ Fit(c, but) => Ready(Emitted(c), but)
<1> DEFINE n == Noticed(c)
           d == [n EXCEPT !.slot = c.out, !.over = c.out # n.out]
<1>1. /\ Evolves(c, n)
      /\ c.mute = "lapsed" /\ Matched(c) => Ready(n, {})
      /\ c.mute # "lapsed" => n = c
  BY Noticing
<1>2. Emitted(c) = IF n.mute = "on" THEN n ELSE d
  BY DEF Emitted
<1> HIDE DEF n
<1>3. n \in Coord
  BY <1>1 DEF Evolves
<1>4. Fit(c, but) => Fit(n, but)
  BY <1>1, HeldButMore DEF Fit, Ready
<1>5. CASE n.mute = "on"
  BY <1>1, <1>2, <1>4, <1>5 DEF Ready, Settled
<1>6. CASE n.mute # "on"
  <2>1. c.out \in Alerts /\ (c.out # n.out) \in BOOLEAN
    BY DEF Coord
  <2>2. /\ d \in Coord /\ SameReads(n, d) /\ d.mute = n.mute
        /\ d.init = n.init /\ d.wait = n.wait /\ d.pend = n.pend /\ d.out = n.out
        /\ d.astray = n.astray
    BY <1>3, <2>1 DEF Coord, SameReads
  <2>3. d.slot = c.out /\ d.over = (c.out # n.out)
    BY <1>3 DEF Coord
  <2> HIDE DEF d
  <2>4. Evolves(n, d)
    BY <1>6, <2>2 DEF Evolves
  <2>5. Fit(n, but) => Fit(d, but)
    BY <2>2, SameAlerts DEF Fit, Settled
  <2>6. d.over \/ d.slot = d.out
    BY <2>2, <2>3
  <2> QED
    BY <1>1, <1>2, <1>4, <1>6, <2>4, <2>5, <2>6, EvolvesOn DEF Ready
<1> QED
  BY <1>5, <1>6

\* Ready, whatever alerts p has.
ReadyBut(c, p) ==
  /\ \A q \in Panes \ {p} : \A a \in {c.pend[q], c.out[q]} \ {None} :
       a \in c.kinds /\ (a = c.told[q] \/ q \in c.astray)
  /\ Settled(c) => Held(c, {p}) /\ (c.over \/ c.slot = c.out)

LEMMA Resolving ==
  ASSUME NEW c \in Coord, NEW p \in Panes
  PROVE  /\ Evolves(c, Resolved(c, p))
         /\ ReadyBut(c, p) => Ready(Resolved(c, p), {p})
<1> DEFINE pend == [c.pend EXCEPT ![p] = None]
           out == [c.out EXCEPT ![p] = None]
           d == [c EXCEPT !.pend[p] = None, !.out[p] = None, !.astray = @ \ {p}]
<1>1. c.pend \in Alerts /\ c.out \in Alerts
  BY DEF Coord
<1>2. /\ pend \in Alerts /\ out \in Alerts /\ pend[p] = None /\ out[p] = None
      /\ \A q \in Panes : pend[q] \in {None, c.pend[q]} /\ out[q] \in {None, c.out[q]}
      /\ \A q \in Panes \ {p} : pend[q] = c.pend[q] /\ out[q] = c.out[q]
      /\ c.out[p] = None => out = c.out
  BY <1>1 DEF Alerts
<1>3. /\ d.pend = pend /\ d.out = out /\ d.astray = c.astray \ {p} /\ d.over = c.over
      /\ SameReads(c, d) /\ SameFlags(c, d)
  BY DEF Coord, SameReads, SameFlags
<1>4. d \in Coord
  <2>1. d = [c EXCEPT !.pend = pend, !.out = out, !.astray = @ \ {p}]
    BY DEF Coord
  <2> HIDE DEF pend, out, d
  <2>2. c.astray \ {p} \in SUBSET Panes
    BY DEF Coord
  <2> QED
    BY <1>2, <2>1, <2>2 DEF Coord
<1> HIDE DEF pend, out
<1>5. Resolved(c, p) = IF c.out[p] = None THEN d ELSE Emitted(d)
  BY DEF Resolved
<1> HIDE DEF d
<1>6. Evolves(c, d)
  BY <1>2, <1>3, <1>4, Forgetting
<1>7. ASSUME ReadyBut(c, p)
      PROVE  Fit(d, {p}) /\ (Settled(d) => d.over \/ d.slot = c.out)
  <2>1. d.kinds = c.kinds /\ d.told = c.told /\ (Settled(d) <=> Settled(c)) /\ d.slot = c.slot
    BY <1>3 DEF SameReads, SameFlags, Settled
  <2>2. Matched(d)
    <3>1. SUFFICES ASSUME NEW q \in Panes, NEW a \in {pend[q], out[q]} \ {None}
                   PROVE  a \in c.kinds /\ (a = c.told[q] \/ q \in d.astray)
      BY <1>3, <2>1, Zenon DEF Matched
    <3>2. q # p /\ a \in {c.pend[q], c.out[q]}
      BY <1>2, <3>1
    <3> QED
      BY <1>3, <1>7, <3>1, <3>2 DEF ReadyBut
  <2>3. Held(c, {p}) => Held(d, {p})
    <3> SUFFICES ASSUME Held(c, {p}), "blocked" \in c.kinds,
                        NEW q \in Panes \ (d.astray \cup {p}), c.told[q] = "blocked"
                 PROVE  "blocked" \in {pend[q], out[q]}
      BY <1>3, <2>1, Zenon DEF Held
    <3>1. q \in Panes \ (c.astray \cup {p})
      BY <1>3
    <3>2. "blocked" \in {c.pend[q], c.out[q]}
      BY <3>1 DEF Held
    <3> QED
      BY <1>2, <3>2
  <2> QED
    BY <1>3, <1>7, <2>1, <2>2, <2>3 DEF Fit, ReadyBut
<1>8. Evolves(d, Emitted(d)) /\ (Fit(d, {p}) => Ready(Emitted(d), {p}))
  BY <1>4, Emitting
<1>9. CASE c.out[p] = None
  <2>1. d.out = c.out
    BY <1>2, <1>3, <1>9
  <2> QED
    BY <1>5, <1>6, <1>7, <1>9, <2>1 DEF Ready
<1>10. CASE c.out[p] # None
  BY <1>5, <1>6, <1>7, <1>8, <1>10, EvolvesOn
<1> QED
  BY <1>9, <1>10

\* The alert that then debounces for p, if any, is its status, and holds its block.
LEMMA Rearming ==
  ASSUME NEW r \in Coord, NEW p \in Panes, Ready(r, {p})
  PROVE  Ready(IF r.told[p] \in r.kinds THEN [r EXCEPT !.pend[p] = r.told[p]] ELSE r, {})
<1> DEFINE to == r.told[p]
           pend == [r.pend EXCEPT ![p] = to]
           e == [r EXCEPT !.pend[p] = to]
<1>1. CASE to \in r.kinds
  <2>1. /\ SameReads(r, e) /\ e.mute = r.mute /\ e.init = r.init /\ e.wait = r.wait
        /\ e.slot = r.slot /\ e.out = r.out /\ e.over = r.over /\ e.astray = r.astray
        /\ e.pend = pend
    BY DEF Coord, SameReads
  <2>2. pend[p] = to /\ \A q \in Panes \ {p} : pend[q] = r.pend[q]
    BY DEF Coord, Alerts
  <2> HIDE DEF e, pend, to
  <2>3. e.kinds = r.kinds /\ e.told = r.told /\ (Settled(e) <=> Settled(r))
    BY <2>1 DEF SameReads, Settled
  <2>4. Matched(e)
    <3>1. SUFFICES ASSUME NEW q \in Panes, NEW a \in {pend[q], r.out[q]} \ {None}
                   PROVE  a \in r.kinds /\ (a = r.told[q] \/ q \in r.astray)
      BY <2>1, <2>3, Zenon DEF Matched
    <3>2. CASE q = p /\ a = pend[q]
      BY <1>1, <2>2, <3>2 DEF to
    <3>3. CASE ~(q = p /\ a = pend[q])
      <4>1. a \in {r.pend[q], r.out[q]} \ {None}
        BY <2>2, <3>1, <3>3
      <4> QED
        BY <4>1 DEF Ready, Fit, Matched
    <3> QED
      BY <3>2, <3>3
  <2>5. Held(r, {p}) => Held(e, {})
    <3> SUFFICES ASSUME Held(r, {p}), "blocked" \in r.kinds,
                        NEW q \in Panes \ r.astray, r.told[q] = "blocked"
                 PROVE  "blocked" \in {pend[q], r.out[q]}
      BY <2>1, <2>3 DEF Held
    <3>1. CASE q = p
      BY <2>2, <3>1 DEF to
    <3>2. CASE q # p
      BY <2>2, <3>2 DEF Held
    <3> QED
      BY <3>1, <3>2
  <2> QED
    BY <1>1, <2>1, <2>3, <2>4, <2>5 DEF Ready, Fit, e, to
<1>2. CASE to \notin r.kinds
  <2>1. Held(r, {p}) => Held(r, {})
    BY <1>2 DEF Held
  <2> QED
    BY <1>2, <2>1 DEF Ready, Fit
<1> QED
  BY <1>1, <1>2

\* Alerts of kinds no longer wanted go.
Wanted(a, kinds) == [p \in Panes |-> IF a[p] \in kinds THEN a[p] ELSE None]

LEMMA WantedFacts ==
  ASSUME NEW a \in Alerts, NEW kinds \in SUBSET Kinds
  PROVE  /\ Wanted(a, kinds) \in Alerts
         /\ \A p \in Panes : /\ Wanted(a, kinds)[p] \in {None, a[p]}
                             /\ a[p] \in kinds => Wanted(a, kinds)[p] = a[p]
                             /\ Wanted(a, kinds)[p] # None => Wanted(a, kinds)[p] \in kinds
  BY DEF Wanted, Alerts

\* Ready, whatever kinds its alerts are of.
ReadyButKinds(c) ==
  /\ \A p \in Panes : \A a \in {c.pend[p], c.out[p]} \ {None} : a = c.told[p] \/ p \in c.astray
  /\ Settled(c) => Held(c, {}) /\ (c.over \/ c.slot = c.out)

LEMMA Applying ==
  ASSUME NEW c \in Coord
  PROVE  /\ Evolves(c, Applied(c))
         /\ (\A p \in Panes : \A a \in {c.pend[p], c.out[p]} \ {None} :
               a = c.told[p] \/ p \in c.astray) => Matched(Applied(c))
         /\ ReadyButKinds(c) => Ready(Applied(c), {})
<1> DEFINE pend == Wanted(c.pend, c.kinds)
           out == Wanted(c.out, c.kinds)
           b == [c EXCEPT !.pend = pend, !.out = out]
<1>1. c.pend \in Alerts /\ c.out \in Alerts /\ c.kinds \in SUBSET Kinds
  BY DEF Coord
<1>2. pend \in Alerts /\ out \in Alerts
  BY <1>1, WantedFacts
<1>3. \A p \in Panes : /\ pend[p] \in {None, c.pend[p]} /\ out[p] \in {None, c.out[p]}
                       /\ c.pend[p] \in c.kinds => pend[p] = c.pend[p]
                       /\ c.out[p] \in c.kinds => out[p] = c.out[p]
                       /\ pend[p] # None => pend[p] \in c.kinds
                       /\ out[p] # None => out[p] \in c.kinds
  BY <1>1, WantedFacts
<1>4. Applied(c) = IF b.out = c.out THEN b ELSE Emitted(b)
  BY DEF Applied, Wanted
<1> HIDE DEF pend, out
<1>5. /\ b \in Coord /\ SameReads(c, b) /\ SameFlags(c, b)
      /\ b.pend = pend /\ b.out = out /\ b.over = c.over /\ b.astray = c.astray
  BY <1>2 DEF Coord, SameReads, SameFlags
<1> HIDE DEF b
<1>6. Evolves(c, b)
  BY <1>3, <1>5, Forgetting
<1>7. b.kinds = c.kinds /\ b.told = c.told /\ b.slot = c.slot /\ (Settled(b) <=> Settled(c))
  BY <1>5 DEF SameReads, SameFlags, Settled
<1>8. ASSUME \A p \in Panes : \A a \in {c.pend[p], c.out[p]} \ {None} : a = c.told[p] \/ p \in c.astray
      PROVE  Matched(b)
  <2>1. SUFFICES ASSUME NEW p \in Panes, NEW a \in {pend[p], out[p]} \ {None}
                 PROVE  a \in c.kinds /\ (a = c.told[p] \/ p \in c.astray)
    BY <1>5, <1>7, Zenon DEF Matched
  <2>2. a \in c.kinds /\ a \in {c.pend[p], c.out[p]}
    BY <1>3, <2>1
  <2> QED
    BY <1>8, <2>1, <2>2
<1>9. Held(c, {}) => Held(b, {})
  <2> SUFFICES ASSUME Held(c, {}), "blocked" \in c.kinds,
                      NEW p \in Panes \ c.astray, c.told[p] = "blocked"
               PROVE  "blocked" \in {pend[p], out[p]}
    BY <1>5, <1>7 DEF Held
  <2>1. "blocked" \in {c.pend[p], c.out[p]}
    BY DEF Held
  <2> QED
    BY <1>3, <2>1
<1>10. /\ Evolves(b, Emitted(b))
       /\ Fit(b, {}) => Ready(Emitted(b), {})
       /\ Fit(b, Panes) => Ready(Emitted(b), Panes)
  BY <1>5, Emitting
<1>11. Held(b, Panes)
  BY DEF Held
<1>12. Evolves(c, Applied(c))
  BY <1>4, <1>6, <1>10, EvolvesOn
<1>13. Matched(b) => Matched(Applied(c))
  BY <1>4, <1>10, <1>11 DEF Fit, Ready
<1>14. ASSUME ReadyButKinds(c) PROVE Ready(Applied(c), {})
  <2>1. Fit(b, {})
    BY <1>7, <1>8, <1>9, <1>14 DEF Fit, ReadyButKinds
  <2>2. b.out = c.out => Ready(b, {})
    BY <1>5, <1>7, <1>14, <2>1 DEF Ready, ReadyButKinds
  <2> QED
    BY <1>4, <1>10, <2>1, <2>2
<1> QED
  BY <1>8, <1>12, <1>13, <1>14

\* What the reconciler makes of a published snapshot, the session being up.
IsUpdate(c, d) ==
  /\ d \in Coord /\ SameReads(c, d) /\ d.init /\ ~d.wait
  /\ \A p \in Panes : d.pend[p] \in {None, c.pend[p]} \/ (d.pend[p] = "done" /\ c.view[p] = "done")
  /\ d.mute = "on" <=> c.mute = "on"
  /\ c.mute = "on" => d.slot = c.slot
  /\ Ready(c, {}) => Ready(d, {})

LEMMA Updating ==
  ASSUME NEW c \in Coord, c.up
  PROVE  IsUpdate(c, Updated(c))
<1>1. CASE c.init /\ ~c.wait
  BY <1>1 DEF IsUpdate, Updated, SameReads
<1>2. CASE ~c.init \/ c.wait
  <2> DEFINE b == [c EXCEPT !.init = TRUE, !.wait = FALSE]
             r == Rebuilt(b)
             d == Emitted(r)
  <2>1. /\ b \in Coord /\ SameReads(c, b) /\ b.mute = c.mute /\ b.slot = c.slot
        /\ b.init = TRUE /\ b.wait = FALSE /\ b.pend = c.pend /\ b.out = c.out
    BY DEF Coord, SameReads
  <2>2. Updated(c) = d
    BY <1>2 DEF Updated
  <2> HIDE DEF b
  <2>3. IsRebuild(b, r)
    BY <2>1, Rebuilding
  <2> HIDE DEF r
  <2>4. /\ r \in Coord /\ SameReads(c, r) /\ r.mute = c.mute /\ r.slot = c.slot
        /\ r.init = TRUE /\ r.wait = FALSE
        /\ \A p \in Panes : \/ r.pend[p] \in {None, c.pend[p]}
                            \/ r.pend[p] = "done" /\ c.view[p] = "done" /\ p \in c.done
        /\ Fit(r, {})
    BY <2>1, <2>3 DEF IsRebuild, SameReads, SameFlags, Fit
  <2>5. Evolves(r, d) /\ Ready(d, {})
    BY <2>4, Emitting
  <2> HIDE DEF d
  <2>6. /\ d \in Coord /\ SameReads(c, d) /\ d.init /\ ~d.wait
        /\ d.mute = "on" <=> c.mute = "on"
        /\ c.mute = "on" => d.slot = c.slot
    BY <1>2, <2>4, <2>5 DEF Evolves, SameReads
  <2>7. ASSUME NEW p \in Panes
        PROVE  d.pend[p] \in {None, c.pend[p]} \/ (d.pend[p] = "done" /\ c.view[p] = "done")
    BY <2>4, <2>5 DEF Evolves, SameReads
  <2> QED
    BY <2>2, <2>5, <2>6, <2>7 DEF IsUpdate
<1> QED
  BY <1>1, <1>2

----------------------------------------------------------------------------
(* One buzz per block, and a silent snooze.                                *)

LEMMA KnownTyped ==
  ASSUME TypeOK PROVE KnownView \in View
<1>1. agents \in [Panes -> Kinds \cup Quiet \cup {None}] /\ fresh \in [Panes -> Kinds \cup Quiet \cup {None}]
  BY DEF TypeOK, View
<1>2. \A p \in Panes : Known(p) \in Kinds \cup Quiet \cup {None}
  BY <1>1 DEF Known
<1> QED
  BY <1>2 DEF KnownView, View

LEMMA CurrentFacts ==
  ASSUME TypeOK
  PROVE  /\ Current \in Coord
         /\ Current.pend = pending /\ Current.out = outstanding /\ Current.slot = slot
         /\ Current.mute = mute /\ Current.init = initiallyReconciled
         /\ Current.wait = resumePending /\ Current.view = agents
         /\ Current.up = (bridge = "connected")
         /\ Current.kinds = enabled /\ Current.done = completions
         /\ Current.told = KnownView /\ Current.over = overtaken /\ Current.astray = astray
<1> DEFINE c == [pend |-> pending, out |-> outstanding, mute |-> mute, slot |-> slot,
                 init |-> initiallyReconciled, wait |-> resumePending,
                 view |-> agents, up |-> bridge = "connected",
                 kinds |-> enabled, done |-> completions,
                 told |-> KnownView, over |-> overtaken, astray |-> astray]
<1>1. Current = c
  BY DEF Current, KnownView, Known
<1>2. c \in Coord
  BY KnownTyped DEF Coord, TypeOK
<1> QED
  BY <1>1, <1>2

\* The state a record becomes.
LEMMA Becoming ==
  ASSUME NEW d, Becomes(d)
  PROVE  /\ pending' = d.pend /\ outstanding' = d.out /\ slot' = d.slot /\ mute' = d.mute
         /\ initiallyReconciled' = d.init /\ resumePending' = d.wait
         /\ overtaken' = d.over /\ astray' = d.astray
  BY DEF Becomes

\* c is what a callback or a request hands to the coordinator's methods.
Reads(c) ==
  /\ c \in Coord /\ c.view = agents /\ c.up = (bridge = "connected")
  /\ c.init = initiallyReconciled /\ c.wait = resumePending
  /\ ~hydrated => c.pend = NoAlerts /\ c.out = NoAlerts

LEMMA Outcome ==
  ASSUME IInv, NEW c, Reads(c), NEW d, Evolves(c, d), Becomes(d)
  PROVE  /\ pending' \in Alerts /\ outstanding' \in Alerts /\ slot' \in Alerts
         /\ mute' \in {"off", "on", "lapsed"}
         /\ initiallyReconciled' \in BOOLEAN /\ resumePending' \in BOOLEAN
         /\ overtaken' \in BOOLEAN /\ astray' \in SUBSET Panes
         /\ ~hydrated => ~initiallyReconciled' /\ pending' = NoAlerts /\ outstanding' = NoAlerts
         /\ bridge = "connected" => initiallyReconciled' /\ ~resumePending'
         /\ \A q \in Panes : \/ pending'[q] \in {None, c.pend[q]}
                             \/ (agents[q] = "done" /\ q \in c.done)
<1>1. /\ pending' = d.pend /\ outstanding' = d.out /\ slot' = d.slot /\ mute' = d.mute
      /\ initiallyReconciled' = d.init /\ resumePending' = d.wait
      /\ overtaken' = d.over /\ astray' = d.astray
  BY Becoming
<1>2. /\ d.pend \in Alerts /\ d.out \in Alerts /\ d.slot \in Alerts
      /\ d.mute \in {"off", "on", "lapsed"} /\ d.init \in BOOLEAN /\ d.wait \in BOOLEAN
      /\ d.over \in BOOLEAN /\ d.astray \in SUBSET Panes
  BY DEF Evolves, Coord
<1>3. ASSUME ~hydrated PROVE ~d.init /\ d.pend = NoAlerts /\ d.out = NoAlerts
  <2>1. ~c.up /\ ~c.init /\ c.pend = NoAlerts /\ c.out = NoAlerts
    BY <1>3 DEF IInv, Unborn, Reads
  <2>2. ~d.init /\ \A p \in Panes : d.pend[p] = None /\ d.out[p] = None
    BY <2>1 DEF Evolves, NoAlerts
  <2>3. d.pend = NoAlerts /\ d.out = NoAlerts
    BY <1>2, <2>2 DEF NoAlerts, Alerts
  <2> QED
    BY <2>2, <2>3
<1>4. bridge = "connected" => d.init /\ ~d.wait
  BY DEF IInv, Live, Reads, Evolves
<1>5. \A q \in Panes : d.pend[q] \in {None, c.pend[q]} \/ (agents[q] = "done" /\ q \in c.done)
  BY DEF Reads, Evolves
<1> QED
  BY <1>1, <1>2, <1>3, <1>4, <1>5

\* A request, or a timer, between two polls.
LEMMA IdleStep ==
  ASSUME IInv, Idle, NEW c, Reads(c), NEW d, Evolves(c, d), Becomes(d),
         UNCHANGED <<engine, commit>>, completions' \in SUBSET Panes, enabled' \in SUBSET Kinds,
         rings' \in [Panes -> 0..2], ~hydrated => rings' = rings,
         \A q \in Panes : agents[q] = "blocked" =>
           rings'[q] = 0 \/ (rings'[q] = 1 /\ c.pend[q] = None)
  PROVE  IInv'
<1> USE DEF engine, commit
<1>1. TypeOK'
  BY Outcome DEF IInv, TypeOK
<1>2. Unborn'
  BY Outcome DEF IInv, Unborn
<1>3. Live'
  BY Outcome DEF Live
<1>4. LedgerAhead'
  BY DEF LedgerAhead, Idle
<1>5. BuzzedOnce'
  <2>1. SUFFICES ASSUME NEW q \in Panes, Known(q)' = "blocked"
                 PROVE  rings'[q] = 0 \/ (rings'[q] = 1 /\ pending'[q] = None)
    BY DEF BuzzedOnce
  <2>2. agents[q] = "blocked"
    BY <2>1 DEF Known, Idle
  <2>3. pending'[q] \in {None, c.pend[q]}
    BY <2>2, Outcome
  <2> QED
    BY <2>2, <2>3
<1> QED
  BY <1>1, <1>2, <1>3, <1>4, <1>5 DEF IInv

\* The usual case: no buzz, and nothing debounces that did not.
LEMMA QuietIdleStep ==
  ASSUME IInv, Idle, NEW c, Reads(c), NEW d, Evolves(c, d), Becomes(d),
         UNCHANGED <<engine, commit, rings>>, completions' \in SUBSET Panes,
         enabled' \in SUBSET Kinds, \A q \in Panes : c.pend[q] \in {None, pending[q]}
  PROVE  IInv'
<1>1. rings' \in [Panes -> 0..2] /\ (~hydrated => rings' = rings)
  BY DEF IInv, TypeOK
<1>2. ASSUME NEW q \in Panes, agents[q] = "blocked"
      PROVE  rings'[q] = 0 \/ (rings'[q] = 1 /\ c.pend[q] = None)
  BY <1>2 DEF IInv, BuzzedOnce, Known, Idle
<1> QED
  BY <1>1, <1>2, IdleStep

\* A callback of a commit, about pane p.
LEMMA CommitStep ==
  ASSUME IInv, turn = "commit", NEW p \in left,
         NEW c, Reads(c), c.pend = pending, c.done = completions', NEW d, Evolves(c, d),
         NEW e, e \in Coord, Becomes(e), e.init = d.init, e.wait = d.wait,
         \A q \in Panes \ {p} : e.pend[q] = d.pend[q],
         completions' = IF fresh[p] = "done" THEN completions \cup {p} ELSE completions \ {p},
         rings' = [rings EXCEPT ![p] = 0], left' = left \ {p},
         UNCHANGED <<engine, turn, fresh, enabled>>
  PROVE  IInv'
<1> USE DEF engine
<1>1. hydrated /\ p \in Panes
  BY DEF IInv, Unborn, TypeOK
<1>2. /\ pending' = e.pend /\ outstanding' = e.out /\ slot' = e.slot /\ mute' = e.mute
      /\ initiallyReconciled' = e.init /\ resumePending' = e.wait
      /\ overtaken' = e.over /\ astray' = e.astray
  BY Becoming
<1>3. TypeOK'
  <2>1. /\ pending' \in Alerts /\ outstanding' \in Alerts /\ slot' \in Alerts
        /\ mute' \in {"off", "on", "lapsed"}
        /\ initiallyReconciled' \in BOOLEAN /\ resumePending' \in BOOLEAN
        /\ overtaken' \in BOOLEAN /\ astray' \in SUBSET Panes
    BY <1>2 DEF Coord
  <2>2. rings' \in [Panes -> 0..2] /\ completions' \in SUBSET Panes /\ left' \in SUBSET Panes
    BY <1>1 DEF IInv, TypeOK
  <2> QED
    BY <2>1, <2>2 DEF IInv, TypeOK
<1>4. Unborn'
  BY <1>1 DEF Unborn
<1>5. Live'
  <2>1. bridge = "connected" => d.init /\ ~d.wait
    BY DEF IInv, Live, Reads, Evolves
  <2> QED
    BY <1>2, <2>1 DEF Live
<1>6. LedgerAhead'
  BY DEF IInv, LedgerAhead
<1>7. BuzzedOnce'
  <2>1. SUFFICES ASSUME NEW q \in Panes, Known(q)' = "blocked"
                 PROVE  rings'[q] = 0 \/ (rings'[q] = 1 /\ pending'[q] = None)
    BY DEF BuzzedOnce
  <2>2. CASE q = p
    BY <1>1, <2>2 DEF IInv, TypeOK
  <2>3. CASE q # p
    <3>1. Known(q) = "blocked" /\ rings'[q] = rings[q]
      BY <1>1, <2>1, <2>3 DEF Known, IInv, TypeOK
    <3>2. e.pend[q] = d.pend[q]
      BY <2>3
    <3>3. d.pend[q] \in {None, pending[q]} \/ (agents[q] = "done" /\ q \in completions')
      BY DEF Reads, Evolves
    <3>4. ~(agents[q] = "done" /\ q \in completions')
      BY <2>3, <3>1 DEF IInv, LedgerAhead, Known
    <3> QED
      BY <1>2, <3>1, <3>2, <3>3, <3>4 DEF IInv, BuzzedOnce
  <2> QED
    BY <2>2, <2>3
<1> QED
  BY <1>3, <1>4, <1>5, <1>6, <1>7 DEF IInv

\* A request's view of the current record is one the lemmas above read.
LEMMA CurrentReads ==
  ASSUME IInv
  PROVE  Current \in Coord /\ Reads(Current)
  BY CurrentFacts DEF IInv, Reads, Unborn

LEMMA PollReturnsKeeps == ASSUME IInv, PollReturns PROVE IInv'
<1> USE DEF PollReturns, engine, coord, seen
<1>1. PICK view \in View :
        /\ fresh' = view
        /\ left' = IF ~hydrated THEN {}
                   ELSE {p \in Panes : /\ view[p] # agents[p]
                                       /\ agents[p] # None \/ view[p] \in Kinds}
  OBVIOUS
<1>2. TypeOK'
  BY <1>1 DEF IInv, TypeOK
<1>3. Unborn' /\ Live'
  BY <1>1 DEF IInv, Unborn, Live
<1>4. ASSUME NEW p \in Panes \ left', agents[p] = "done" \/ fresh'[p] = "blocked"
      PROVE  ~hydrated \/ fresh'[p] = agents[p]
  BY <1>1, <1>4, NotifyAssumption DEF Kinds
<1>5. LedgerAhead'
  <2>1. ~hydrated => \A p \in Panes : agents[p] # "done"
    BY NotifyAssumption DEF IInv, Unborn, NoAlerts, Kinds
  <2> QED
    BY <1>4, <2>1 DEF LedgerAhead
<1>6. BuzzedOnce'
  <2>1. SUFFICES ASSUME NEW q \in Panes, Known(q)' = "blocked"
                 PROVE  rings[q] = 0 \/ (rings[q] = 1 /\ pending[q] = None)
    BY DEF BuzzedOnce
  <2>2. CASE ~hydrated
    BY <2>2 DEF IInv, Unborn
  <2>3. CASE hydrated
    BY <1>4, <2>1, <2>3 DEF Known, IInv, BuzzedOnce, Idle
  <2> QED
    BY <2>2, <2>3
<1> QED
  BY <1>2, <1>3, <1>5, <1>6 DEF IInv

LEMMA PollFailsKeeps == ASSUME IInv, PollFails PROVE IInv'
  BY DEF IInv, PollFails, TypeOK, Unborn, Live, LedgerAhead, BuzzedOnce, Known, commit, coord, seen

\* The record a callback about p starts from.
Called(p) == [Current EXCEPT !.done = completions', !.told[p] = fresh[p]]

LEMMA CalledFacts ==
  ASSUME TypeOK, NEW p \in Panes, completions' \in SUBSET Panes
  PROVE  LET c == Called(p) IN
         /\ c \in Coord /\ c.view = agents /\ c.up = (bridge = "connected")
         /\ c.pend = pending /\ c.out = outstanding /\ c.slot = slot /\ c.mute = mute
         /\ c.init = initiallyReconciled /\ c.wait = resumePending
         /\ c.kinds = enabled /\ c.done = completions'
         /\ c.told = [KnownView EXCEPT ![p] = fresh[p]]
         /\ c.over = overtaken /\ c.astray = astray
<1>1. [KnownView EXCEPT ![p] = fresh[p]] \in View
  BY KnownTyped DEF TypeOK, View
<1>2. Called(p) = [Current EXCEPT !.done = completions', !.told = [KnownView EXCEPT ![p] = fresh[p]]]
  BY CurrentFacts DEF Called, Coord
<1> HIDE DEF Called
<1> QED
  BY <1>1, <1>2, CurrentFacts DEF Coord

LEMMA CallTransitionKeeps == ASSUME IInv, NEW p \in Panes, CallTransition(p) PROVE IInv'
<1> DEFINE c == Called(p)
           r == Resolved(c, p)
           e == IF fresh[p] \in c.kinds THEN [r EXCEPT !.pend[p] = fresh[p]] ELSE r
<1>1. completions' \in SUBSET Panes /\ fresh[p] \in Kinds \cup Quiet \cup {None}
  BY DEF CallTransition, IInv, TypeOK, View
<1>2. Reads(c) /\ c.pend = pending /\ c.done = completions' /\ c.kinds = enabled
  BY <1>1, CalledFacts DEF Reads, IInv, Unborn
<1>3. Becomes(e)
  BY DEF CallTransition, Transitioned, Called
<1> HIDE DEF c
<1>4. Evolves(c, r)
  BY <1>2, Resolving DEF Reads
<1>5. /\ e \in Coord /\ e.init = r.init /\ e.wait = r.wait
      /\ \A q \in Panes \ {p} : e.pend[q] = r.pend[q]
  <2>1. r \in Coord
    BY <1>4 DEF Evolves
  <2>2. c.kinds \subseteq Kinds
    BY <1>2 DEF IInv, TypeOK
  <2> HIDE DEF r
  <2> QED
    BY <2>1, <2>2 DEF Coord, Alerts
<1> HIDE DEF r, e
<1>6. /\ turn = "commit" /\ p \in left
      /\ completions' = IF fresh[p] = "done" THEN completions \cup {p} ELSE completions \ {p}
      /\ rings' = [rings EXCEPT ![p] = 0] /\ left' = left \ {p}
      /\ UNCHANGED <<engine, turn, fresh, enabled>>
  BY DEF CallTransition
<1> QED
  BY ZenonT(60), <1>2, <1>3, <1>4, <1>5, <1>6, CommitStep

LEMMA CallRemoveKeeps == ASSUME IInv, NEW p \in Panes, CallRemove(p) PROVE IInv'
<1> DEFINE c == Called(p)
           r == Resolved(c, p)
<1>1. completions' \in SUBSET Panes /\ fresh[p] = None /\ fresh[p] # "done"
  BY NotifyAssumption DEF CallRemove, IInv, TypeOK, Kinds
<1>2. Reads(c) /\ c.pend = pending /\ c.done = completions'
  BY <1>1, CalledFacts DEF Reads, IInv, Unborn
<1>3. Becomes(r)
  BY <1>1 DEF CallRemove, Called
<1> HIDE DEF c
<1>4. Evolves(c, r) /\ r \in Coord
  BY <1>2, Resolving DEF Reads, Evolves
<1> HIDE DEF r
<1> QED
  BY <1>1, <1>2, <1>3, <1>4, CommitStep DEF CallRemove

\* The record the reconciler reads once the snapshot is assigned.
Published == [Current EXCEPT !.view = fresh, !.up = TRUE]

LEMMA PublishedFacts ==
  ASSUME TypeOK
  PROVE  /\ Published \in Coord /\ Published.up /\ Published.view = fresh
         /\ Published.pend = pending /\ Published.out = outstanding /\ Published.slot = slot
         /\ Published.mute = mute /\ Published.init = initiallyReconciled
         /\ Published.wait = resumePending /\ Published.kinds = enabled
         /\ Published.told = KnownView /\ Published.over = overtaken /\ Published.astray = astray
  BY CurrentFacts DEF Published, Coord, TypeOK

LEMMA PublishKeeps == ASSUME IInv, Publish PROVE IInv'
<1> USE DEF Publish
<1> DEFINE d == Updated(Published)
<1>1. IsUpdate(Published, d) /\ Becomes(d)
  BY PublishedFacts, Updating DEF IInv, Published
<1> HIDE DEF d
<1>2. /\ pending' = d.pend /\ outstanding' = d.out /\ slot' = d.slot /\ mute' = d.mute
      /\ initiallyReconciled' = d.init /\ resumePending' = d.wait
      /\ overtaken' = d.over /\ astray' = d.astray
  BY <1>1, Becoming
<1>3. TypeOK'
  <2>1. d \in Coord
    BY <1>1 DEF IsUpdate
  <2>2. NoAlerts \in View
    BY DEF NoAlerts, View
  <2> QED
    BY <1>2, <2>1, <2>2 DEF IInv, TypeOK, Coord
<1>4. Unborn' /\ Live' /\ LedgerAhead'
  BY <1>1, <1>2 DEF Unborn, Live, LedgerAhead, IsUpdate
<1>5. BuzzedOnce'
  <2>1. SUFFICES ASSUME NEW q \in Panes, fresh[q] = "blocked"
                 PROVE  rings[q] = 0 \/ (rings[q] = 1 /\ pending'[q] = None)
    BY DEF BuzzedOnce, Known
  <2>2. Known(q) = "blocked"
    BY <2>1 DEF Known
  <2>3. pending'[q] \in {None, pending[q]}
    BY <1>1, <1>2, <2>1, PublishedFacts DEF IsUpdate, IInv
  <2> QED
    BY <2>2, <2>3 DEF IInv, BuzzedOnce
<1> QED
  BY <1>3, <1>4, <1>5 DEF IInv

\* The record a debounce timer delivers from.
Fired(p) == [Current EXCEPT !.pend[p] = None, !.out[p] = pending[p]]

LEMMA FiredFacts ==
  ASSUME TypeOK, NEW p \in Panes
  PROVE  /\ Fired(p) \in Coord /\ Fired(p).view = agents
         /\ Fired(p).up = (bridge = "connected")
         /\ Fired(p).pend = [pending EXCEPT ![p] = None]
         /\ Fired(p).out = [outstanding EXCEPT ![p] = pending[p]]
         /\ Fired(p).slot = slot /\ Fired(p).mute = mute /\ Fired(p).init = initiallyReconciled
         /\ Fired(p).wait = resumePending /\ Fired(p).kinds = enabled
         /\ Fired(p).told = KnownView /\ Fired(p).over = overtaken /\ Fired(p).astray = astray
<1>1. /\ [pending EXCEPT ![p] = None] \in Alerts
      /\ [outstanding EXCEPT ![p] = pending[p]] \in Alerts
  BY DEF TypeOK, Alerts
<1>2. Fired(p) = [Current EXCEPT !.pend = [pending EXCEPT ![p] = None],
                                 !.out = [outstanding EXCEPT ![p] = pending[p]]]
  BY CurrentFacts DEF Fired, Coord
<1> HIDE DEF Fired
<1> QED
  BY <1>1, <1>2, CurrentFacts DEF Coord

LEMMA TimerFiresKeeps == ASSUME IInv, NEW p \in Panes, TimerFires(p) PROVE IInv'
<1> DEFINE c == Fired(p)
           d == Emitted(c)
<1>1. /\ Idle /\ pending[p] # None /\ Becomes(d)
      /\ rings' = IF d.mute = "off" /\ rings[p] < 2 THEN [rings EXCEPT ![p] = @ + 1] ELSE rings
      /\ UNCHANGED <<engine, commit, completions, enabled>>
  BY DEF TimerFires, Fired
<1>2. hydrated
  BY <1>1 DEF IInv, Unborn, NoAlerts
<1>3. Reads(c)
  BY <1>2, FiredFacts DEF Reads, IInv
<1>4. Evolves(c, d)
  BY <1>3, Emitting DEF Reads
<1>5. completions' \in SUBSET Panes /\ enabled' \in SUBSET Kinds /\ rings' \in [Panes -> 0..2]
  BY <1>1 DEF IInv, TypeOK
<1>6. ASSUME NEW q \in Panes, agents[q] = "blocked"
      PROVE  rings'[q] = 0 \/ (rings'[q] = 1 /\ c.pend[q] = None)
  <2>1. rings[q] = 0 \/ (rings[q] = 1 /\ pending[q] = None)
    BY <1>1, <1>6 DEF IInv, BuzzedOnce, Known, Idle
  <2>2. CASE q = p
    <3>1. c.pend[q] = None
      BY <2>2, FiredFacts DEF IInv, TypeOK, Alerts
    <3>2. rings[q] = 0
      BY <1>1, <2>1, <2>2
    <3>3. rings'[q] = 0 \/ rings'[q] = 1
      BY <1>1, <2>2, <3>2 DEF IInv, TypeOK
    <3> QED
      BY <3>1, <3>3
  <2>3. CASE q # p
    BY <1>1, <2>1, <2>3, FiredFacts DEF IInv, TypeOK, Alerts
  <2> QED
    BY <2>2, <2>3
<1> HIDE DEF c, d
<1> QED
  BY <1>1, <1>2, <1>3, <1>4, <1>5, <1>6, IdleStep

\* onSeen() without its emit.
Forgotten(p) ==
  LET c == [Current EXCEPT !.done = completions']
  IN  IF pending[p] = "done" THEN [c EXCEPT !.pend[p] = None] ELSE c
Unseen(p) ==
  IF outstanding[p] = "done" THEN [Forgotten(p) EXCEPT !.out[p] = None] ELSE Forgotten(p)

\* What onSeen() makes of the record: a completion alert goes, and the slot shows it.
AfterSeen(p) == IF outstanding[p] = "done" THEN Emitted(Unseen(p)) ELSE Unseen(p)

LEMMA UnseenFacts ==
  ASSUME TypeOK, NEW p \in Panes, completions' \in SUBSET Panes
  PROVE  /\ Unseen(p) \in Coord /\ Unseen(p).view = agents
         /\ Unseen(p).up = (bridge = "connected")
         /\ Unseen(p).pend = [pending EXCEPT ![p] = IF pending[p] = "done" THEN None ELSE @]
         /\ Unseen(p).out = [outstanding EXCEPT ![p] = IF outstanding[p] = "done" THEN None ELSE @]
         /\ Unseen(p).slot = slot /\ Unseen(p).mute = mute /\ Unseen(p).init = initiallyReconciled
         /\ Unseen(p).wait = resumePending /\ Unseen(p).kinds = enabled
         /\ Unseen(p).told = KnownView /\ Unseen(p).over = overtaken /\ Unseen(p).astray = astray
<1> DEFINE P == [pending EXCEPT ![p] = IF pending[p] = "done" THEN None ELSE @]
           O == [outstanding EXCEPT ![p] = IF outstanding[p] = "done" THEN None ELSE @]
           c == [Current EXCEPT !.done = completions']
           d == Forgotten(p)
<1>1. P \in Alerts /\ O \in Alerts
  BY DEF TypeOK, Alerts
<1>2. /\ pending[p] = "done" => P = [pending EXCEPT ![p] = None]
      /\ pending[p] # "done" => P = pending
      /\ outstanding[p] = "done" => O = [outstanding EXCEPT ![p] = None]
      /\ outstanding[p] # "done" => O = outstanding
  BY DEF TypeOK, Alerts
<1> HIDE DEF P, O
<1>3. /\ c \in Coord /\ c.view = agents /\ c.up = (bridge = "connected")
      /\ c.pend = pending /\ c.out = outstanding
      /\ c.slot = slot /\ c.mute = mute /\ c.init = initiallyReconciled
      /\ c.wait = resumePending /\ c.kinds = enabled
      /\ c.told = KnownView /\ c.over = overtaken /\ c.astray = astray
  BY CurrentFacts DEF Coord
<1>4. d = IF pending[p] = "done" THEN [c EXCEPT !.pend[p] = None] ELSE c
  BY DEF Forgotten
<1> HIDE DEF c, d
<1>5. /\ d \in Coord /\ d.view = agents /\ d.up = (bridge = "connected")
      /\ d.pend = P /\ d.out = outstanding
      /\ d.slot = slot /\ d.mute = mute /\ d.init = initiallyReconciled
      /\ d.wait = resumePending /\ d.kinds = enabled
      /\ d.told = KnownView /\ d.over = overtaken /\ d.astray = astray
  BY <1>1, <1>2, <1>3, <1>4 DEF Coord
<1>6. Unseen(p) = IF outstanding[p] = "done" THEN [d EXCEPT !.out[p] = None] ELSE d
  BY DEF Unseen, d
<1>7. /\ Unseen(p) \in Coord /\ Unseen(p).view = agents
      /\ Unseen(p).up = (bridge = "connected") /\ Unseen(p).pend = P /\ Unseen(p).out = O
      /\ Unseen(p).slot = slot /\ Unseen(p).mute = mute /\ Unseen(p).init = initiallyReconciled
      /\ Unseen(p).wait = resumePending /\ Unseen(p).kinds = enabled
      /\ Unseen(p).told = KnownView /\ Unseen(p).over = overtaken /\ Unseen(p).astray = astray
  BY <1>1, <1>2, <1>5, <1>6 DEF Coord
<1> QED
  BY <1>7 DEF P, O

LEMMA SeenKeeps == ASSUME IInv, NEW p \in Panes, Seen(p) PROVE IInv'
<1> DEFINE c == Unseen(p)
           d == AfterSeen(p)
<1>1. /\ Idle /\ Becomes(d) /\ completions' = completions \ {p}
      /\ UNCHANGED <<engine, commit, enabled, rings>>
  BY DEF Seen, AfterSeen, Unseen, Forgotten
<1>2. completions' \in SUBSET Panes /\ enabled' \in SUBSET Kinds
  BY <1>1 DEF IInv, TypeOK
<1>3. /\ c \in Coord /\ c.view = agents /\ c.up = (bridge = "connected")
      /\ c.init = initiallyReconciled /\ c.wait = resumePending
      /\ \A q \in Panes : c.pend[q] \in {None, pending[q]} /\ c.out[q] \in {None, outstanding[q]}
  <2>1. /\ c \in Coord /\ c.view = agents /\ c.up = (bridge = "connected")
        /\ c.init = initiallyReconciled /\ c.wait = resumePending
        /\ c.pend = [pending EXCEPT ![p] = IF pending[p] = "done" THEN None ELSE @]
        /\ c.out = [outstanding EXCEPT ![p] = IF outstanding[p] = "done" THEN None ELSE @]
    BY <1>2, UnseenFacts DEF IInv
  <2>2. pending \in Alerts /\ outstanding \in Alerts
    BY DEF IInv, TypeOK
  <2> HIDE DEF c
  <2> QED
    BY <2>1, <2>2 DEF Alerts
<1>4. Reads(c)
  <2>1. ~hydrated => c.pend = NoAlerts /\ c.out = NoAlerts
    BY <1>3 DEF IInv, Unborn, NoAlerts, Coord, Alerts
  <2> QED
    BY <1>3, <2>1 DEF Reads
<1>5. Evolves(c, d)
  <2>1. Evolves(c, c) /\ Evolves(c, Emitted(c))
    BY <1>3, Emitting, StayingPut
  <2>2. d = IF outstanding[p] = "done" THEN Emitted(c) ELSE c
    BY DEF AfterSeen
  <2> QED
    BY <2>1, <2>2
<1> HIDE DEF c, d
<1> QED
  BY <1>1, <1>2, <1>3, <1>4, <1>5, QuietIdleStep

\* Snoozed, and everything forgotten.
Silenced == Cleared([Current EXCEPT !.mute = "on"])

LEMMA SilencedFacts ==
  ASSUME TypeOK
  PROVE  /\ Silenced \in Coord /\ Silenced.view = agents
         /\ Silenced.up = (bridge = "connected")
         /\ Silenced.pend = NoAlerts /\ Silenced.out = NoAlerts /\ Silenced.slot = NoAlerts
         /\ Silenced.mute = "on" /\ Silenced.init = initiallyReconciled
         /\ Silenced.wait = resumePending /\ Silenced.kinds = enabled
<1> DEFINE c == [Current EXCEPT !.mute = "on"]
<1>1. /\ c \in Coord /\ c.view = agents /\ c.up = (bridge = "connected") /\ c.mute = "on"
      /\ c.init = initiallyReconciled /\ c.wait = resumePending /\ c.kinds = enabled
  BY CurrentFacts DEF Coord
<1>2. Silenced = [c EXCEPT !.pend = NoAlerts, !.out = NoAlerts, !.slot = NoAlerts,
                           !.over = FALSE, !.astray = {}]
  BY DEF Silenced, Cleared
<1>3. NoAlerts \in Alerts
  BY DEF NoAlerts, Alerts
<1> HIDE DEF c
<1> QED
  BY <1>1, <1>2, <1>3 DEF Coord

LEMMA SnoozeOnKeeps == ASSUME IInv, SnoozeOn PROVE IInv'
<1>1. Reads(Silenced) /\ \A q \in Panes : Silenced.pend[q] \in {None, pending[q]}
  BY SilencedFacts DEF Reads, IInv, NoAlerts
<1>2. Evolves(Silenced, Silenced)
  BY <1>1, StayingPut DEF Reads
<1>3. /\ Idle /\ Becomes(Silenced) /\ UNCHANGED <<engine, commit, rings>>
      /\ completions' \in SUBSET Panes /\ enabled' \in SUBSET Kinds
  BY DEF SnoozeOn, Silenced, IInv, TypeOK
<1> QED
  BY <1>1, <1>2, <1>3, QuietIdleStep

\* The snooze is over.
Unmuted == [Current EXCEPT !.mute = "off"]

LEMMA UnmutedFacts ==
  ASSUME TypeOK
  PROVE  /\ Unmuted \in Coord /\ Unmuted.view = agents
         /\ Unmuted.up = (bridge = "connected")
         /\ Unmuted.pend = pending /\ Unmuted.out = outstanding /\ Unmuted.slot = slot
         /\ Unmuted.mute = "off" /\ Unmuted.init = initiallyReconciled
         /\ Unmuted.wait = resumePending /\ Unmuted.kinds = enabled
         /\ Unmuted.told = KnownView /\ Unmuted.over = overtaken /\ Unmuted.astray = astray
  BY CurrentFacts DEF Unmuted, Coord

\* A snooze ends, by request or by its deadline.
SnoozeEnds == Idle /\ Becomes(Resumed(Unmuted)) /\ UNCHANGED <<engine, commit, completions, enabled, rings>>

LEMMA SnoozeEndings == SnoozeOff \/ SnoozeExpires => SnoozeEnds
  BY DEF SnoozeOff, SnoozeExpires, SnoozeEnds, Unmuted

LEMMA SnoozeEndsKeeps == ASSUME IInv, SnoozeEnds PROVE IInv'
<1> DEFINE d == Resumed(Unmuted)
<1>1. Reads(Unmuted) /\ \A q \in Panes : Unmuted.pend[q] \in {None, pending[q]}
  BY UnmutedFacts DEF Reads, IInv, Unborn
<1>2. Evolves(Unmuted, d)
  BY <1>1, Resuming DEF Reads, IsResume
<1>3. /\ Idle /\ Becomes(d) /\ UNCHANGED <<engine, commit, rings>>
      /\ completions' \in SUBSET Panes /\ enabled' \in SUBSET Kinds
  BY DEF SnoozeEnds, IInv, TypeOK
<1> HIDE DEF d
<1> QED
  BY <1>1, <1>2, <1>3, QuietIdleStep

LEMMA DeadlinePassesKeeps == ASSUME IInv, DeadlinePasses PROVE IInv'
<1> USE DEF DeadlinePasses, engine, commit, seen
<1>1. TypeOK'
  BY DEF IInv, TypeOK
<1>2. Unborn' /\ Live' /\ LedgerAhead' /\ BuzzedOnce'
  BY DEF IInv, Unborn, Live, LedgerAhead, BuzzedOnce, Known
<1> QED
  BY <1>1, <1>2 DEF IInv

\* The record saved preferences are applied to, and what is made of it.
Preferring(kinds) == [Current EXCEPT !.kinds = kinds]
AfterPrefs(kinds) ==
  LET a == Applied(Preferring(kinds)) IN IF kinds \subseteq enabled THEN a ELSE Resumed(a)

LEMMA PreferringFacts ==
  ASSUME TypeOK, NEW kinds \in SUBSET Kinds
  PROVE  LET c == Preferring(kinds) IN
         /\ c \in Coord /\ c.view = agents /\ c.up = (bridge = "connected")
         /\ c.pend = pending /\ c.out = outstanding /\ c.slot = slot
         /\ c.mute = mute /\ c.init = initiallyReconciled
         /\ c.wait = resumePending /\ c.kinds = kinds
         /\ c.told = KnownView /\ c.over = overtaken /\ c.astray = astray
  BY CurrentFacts DEF Preferring, Coord

LEMMA SetPrefsKeeps == ASSUME IInv, NEW kinds \in SUBSET Kinds, SetPrefs(kinds) PROVE IInv'
<1> DEFINE c == Preferring(kinds)
           a == Applied(c)
           d == AfterPrefs(kinds)
<1>1. Reads(c) /\ \A q \in Panes : c.pend[q] \in {None, pending[q]}
  BY PreferringFacts DEF Reads, IInv, Unborn
<1>2. Evolves(c, a) /\ a \in Coord
  BY <1>1, Applying DEF Reads, Evolves
<1>3. Evolves(a, Resumed(a))
  BY <1>2, Resuming DEF IsResume
<1>4. d = IF kinds \subseteq enabled THEN a ELSE Resumed(a)
  BY DEF AfterPrefs
<1>5. /\ Idle /\ Becomes(d) /\ UNCHANGED <<engine, commit, rings>>
      /\ completions' \in SUBSET Panes /\ enabled' \in SUBSET Kinds
  BY DEF SetPrefs, AfterPrefs, Preferring, IInv, TypeOK
<1> HIDE DEF a, c, d
<1>6. Evolves(c, d)
  BY <1>1, <1>2, <1>3, <1>4, EvolvesOn DEF Reads
<1> QED
  BY <1>1, <1>5, <1>6, QuietIdleStep

LEMMA RestartKeeps == ASSUME IInv, Restart PROVE IInv'
<1> USE DEF Restart
<1>1. NoAlerts \in Alerts /\ NoAlerts \in View
  BY DEF NoAlerts, Alerts, View
<1>2. TypeOK'
  <2>1. slot' \in Alerts /\ mute' \in {"off", "on", "lapsed"}
    BY <1>1 DEF IInv, TypeOK
  <2>2. rings' \in [Panes -> 0..2]
    OBVIOUS
  <2> QED
    BY <1>1, <2>1, <2>2 DEF IInv, TypeOK
<1>3. Unborn' /\ Live' /\ LedgerAhead' /\ BuzzedOnce'
  BY DEF Unborn, Live, LedgerAhead, BuzzedOnce
<1> QED
  BY <1>2, <1>3 DEF IInv

LEMMA InitHolds == Init => IInv
<1> SUFFICES ASSUME Init PROVE IInv
  OBVIOUS
<1> USE DEF Init
<1>1. NoAlerts \in Alerts /\ NoAlerts \in View
  BY DEF NoAlerts, Alerts, View
<1>2. TypeOK
  <2>1. rings \in [Panes -> 0..2]
    OBVIOUS
  <2>2. completions \in SUBSET Panes /\ enabled \in SUBSET Kinds /\ left \in SUBSET Panes
    OBVIOUS
  <2> QED
    BY <1>1, <2>1, <2>2 DEF TypeOK
<1>3. Unborn /\ Live /\ LedgerAhead /\ BuzzedOnce
  BY DEF Unborn, Live, LedgerAhead, BuzzedOnce
<1> QED
  BY <1>2, <1>3 DEF IInv

LEMMA StutterKeeps == ASSUME IInv, UNCHANGED vars PROVE IInv'
<1> USE DEF vars, engine, commit, coord, seen
<1>1. TypeOK' /\ Unborn' /\ Live'
  BY DEF IInv, TypeOK, Unborn, Live
<1>2. LedgerAhead' /\ BuzzedOnce'
  BY DEF IInv, LedgerAhead, BuzzedOnce, Known
<1> QED
  BY <1>1, <1>2 DEF IInv

LEMMA NextKeeps == IInv /\ [Next]_vars => IInv'
<1> SUFFICES ASSUME IInv, [Next]_vars PROVE IInv'
  OBVIOUS
<1>1. CASE SnoozeExpires
  BY <1>1, SnoozeEndings, SnoozeEndsKeeps
<1>2. CASE PollReturns
  BY <1>2, PollReturnsKeeps
<1>3. CASE PollFails
  BY <1>3, PollFailsKeeps
<1>4. CASE Publish
  BY <1>4, PublishKeeps
<1>5. ASSUME NEW p \in Panes, CallTransition(p) PROVE IInv'
  BY <1>5, CallTransitionKeeps
<1>6. ASSUME NEW p \in Panes, CallRemove(p) PROVE IInv'
  BY <1>6, CallRemoveKeeps
<1>7. ASSUME NEW p \in Panes, TimerFires(p) PROVE IInv'
  BY <1>7, TimerFiresKeeps
<1>8. ASSUME NEW p \in Panes, Seen(p) PROVE IInv'
  BY <1>8, SeenKeeps
<1>9. CASE SnoozeOn
  BY <1>9, SnoozeOnKeeps
<1>10. CASE SnoozeOff
  BY <1>10, SnoozeEndings, SnoozeEndsKeeps
<1>11. CASE DeadlinePasses
  BY <1>11, DeadlinePassesKeeps
<1>12. ASSUME NEW kinds \in SUBSET Kinds, SetPrefs(kinds) PROVE IInv'
  BY <1>12, SetPrefsKeeps
<1>13. CASE Restart
  BY <1>13, RestartKeeps
<1>14. CASE UNCHANGED vars
  BY <1>14, StutterKeeps
<1> QED
  BY <1>1, <1>2, <1>3, <1>4, <1>5, <1>6, <1>7, <1>8, <1>9, <1>10, <1>11, <1>12, <1>13, <1>14
     DEF Next

\* A session that has no snapshot yet holds nothing, one whose snapshot is live
\* has been reconciled, and a pane that has buzzed for a block is not debouncing.
THEOREM NotifyInvariant == Spec => []IInv
<1> QED
  BY InitHolds, NextKeeps, PTL DEF Spec

\* The coordinator's maps, the reconciler's flags and the durable ledger hold
\* values of their types throughout.
THEOREM NotifyTypeCorrect == Spec => []TypeOK
<1>1. IInv => TypeOK
  BY DEF IInv
<1> QED
  BY <1>1, NotifyInvariant, PTL

\* A block buzzes the phone at most once, however often snoozes, outages,
\* preference changes and late timers make the reconciler rebuild the slot.
THEOREM NotifyBuzzesOnce == Spec => []OneBuzzPerBlock
<1>1. IInv => OneBuzzPerBlock
  BY DEF IInv, BuzzedOnce, OneBuzzPerBlock, Known, Idle
<1> QED
  BY <1>1, NotifyInvariant, PTL

\* An action the coordinator takes while snoozed leaves the slot as it is.
LEMMA MutedStep ==
  ASSUME NEW c, NEW d, Evolves(c, d), Becomes(d), c.slot = slot
  PROVE  mute' = "on" => slot' = slot
  BY Becoming DEF Evolves

Silent == mute = "on" /\ mute' = "on" => slot' \in {slot, NoAlerts}

LEMMA NextIsSilent == ASSUME IInv, [Next]_vars PROVE Silent
<1> USE DEF Silent
<1>1. Current \in Coord /\ Current.slot = slot /\ TypeOK
  BY CurrentFacts DEF IInv
<1>2. CASE SnoozeEnds
  <2>1. Evolves(Unmuted, Resumed(Unmuted)) /\ Unmuted.slot = slot
    BY UnmutedFacts, Resuming DEF IInv, IsResume
  <2> QED
    BY <1>2, <2>1, MutedStep DEF SnoozeEnds
<1>3. CASE UNCHANGED vars \/ PollReturns \/ PollFails \/ DeadlinePasses
  BY <1>3 DEF vars, coord, PollReturns, PollFails, DeadlinePasses
<1>4. CASE Publish
  <2>1. IsUpdate(Published, Updated(Published)) /\ Published.slot = slot /\ Published.mute = mute
    BY PublishedFacts, Updating DEF IInv
  <2>2. Becomes(Updated(Published))
    BY <1>4 DEF Publish, Published
  <2> QED
    BY <2>1, <2>2, Becoming DEF IsUpdate
<1>5. ASSUME NEW p \in Panes, CallTransition(p) \/ CallRemove(p) PROVE Silent
  <2> DEFINE c == Called(p)
             r == Resolved(c, p)
  <2>1. completions' \in SUBSET Panes
    BY <1>5 DEF CallTransition, CallRemove, IInv, TypeOK
  <2>2. c \in Coord /\ c.slot = slot
    BY <1>1, <2>1, CalledFacts
  <2>3. Becomes(r) \/ Becomes([r EXCEPT !.pend[p] = fresh[p]])
    BY <1>5 DEF CallTransition, CallRemove, Transitioned, Called
  <2> HIDE DEF c
  <2>4. Evolves(c, r)
    BY <2>2, Resolving
  <2>5. r \in Coord
    BY <2>4 DEF Evolves
  <2> HIDE DEF r
  <2>6. slot' = r.slot /\ mute' = r.mute
    <3> DEFINE e == [r EXCEPT !.pend[p] = fresh[p]]
    <3>1. e.slot = r.slot /\ e.mute = r.mute
      BY <2>5 DEF Coord
    <3> HIDE DEF e
    <3> QED
      BY <2>3, <3>1, Becoming DEF e
  <2> QED
    BY <2>2, <2>4, <2>6 DEF Evolves
<1>6. ASSUME NEW p \in Panes, TimerFires(p) PROVE Silent
  <2>1. Becomes(Emitted(Fired(p)))
    BY <1>6 DEF TimerFires, Fired
  <2>2. Evolves(Fired(p), Emitted(Fired(p))) /\ Fired(p).slot = slot
    BY <1>1, FiredFacts, Emitting
  <2> QED
    BY <2>1, <2>2, MutedStep
<1>7. ASSUME NEW p \in Panes, Seen(p) PROVE Silent
  <2>1. Becomes(AfterSeen(p)) /\ completions' \in SUBSET Panes
    BY <1>1, <1>7 DEF Seen, AfterSeen, Unseen, Forgotten, TypeOK
  <2>2. Unseen(p) \in Coord /\ Unseen(p).slot = slot
    BY <1>1, <2>1, UnseenFacts
  <2>3. Evolves(Unseen(p), AfterSeen(p))
    BY <2>2, Emitting, StayingPut DEF AfterSeen
  <2> QED
    BY <2>1, <2>2, <2>3, MutedStep
<1>8. CASE SnoozeOn
  BY <1>1, <1>8, SilencedFacts, Becoming DEF SnoozeOn, Silenced
<1>9. ASSUME NEW kinds \in SUBSET Kinds, SetPrefs(kinds) PROVE Silent
  <2> DEFINE c == Preferring(kinds)
             a == Applied(c)
             d == AfterPrefs(kinds)
  <2>1. c \in Coord /\ c.slot = slot
    BY <1>1, PreferringFacts
  <2>2. Evolves(c, a) /\ a \in Coord
    BY <2>1, Applying DEF Evolves
  <2>3. Evolves(a, Resumed(a))
    BY <2>2, Resuming DEF IsResume
  <2>4. Becomes(d) /\ d = IF kinds \subseteq enabled THEN a ELSE Resumed(a)
    BY <1>9 DEF SetPrefs, AfterPrefs, Preferring
  <2> HIDE DEF a, c, d
  <2>5. Evolves(c, d)
    BY <2>1, <2>2, <2>3, <2>4, EvolvesOn
  <2> QED
    BY <2>1, <2>4, <2>5, MutedStep
<1>10. CASE Restart
  BY <1>10 DEF Restart
<1> QED
  BY <1>2, <1>3, <1>4, <1>5, <1>6, <1>7, <1>8, <1>9, <1>10, SnoozeEndings DEF Next

\* While snoozed, nothing but a clear reaches the device's queue: not from a
\* callback, a preference that comes back, a resume or a restart.
THEOREM NotifyStaysSilent == Spec => SnoozeIsSilent
<1>1. IInv /\ [Next]_vars => [mute = "on" /\ mute' = "on" => slot' \in {slot, NoAlerts}]_vars
  BY NextIsSilent DEF Silent
<1> QED
  BY <1>1, NotifyInvariant, PTL DEF Spec, SnoozeIsSilent

----------------------------------------------------------------------------
(* Accuracy.                                                               *)

\* Every alert is of a kind wanted and what the coordinator was last told of its
\* pane, and, once rebuilt and heard, the slot shows them and no block is without
\* one: but for what one late end of a snooze leaves, a slot overtaken until the
\* next message and panes astray until their next callback or rebuild.
Prompt ==
  /\ \A p \in Panes : \A a \in {pending[p], outstanding[p]} \ {None} :
       a \in enabled /\ (a = KnownView[p] \/ p \in astray)
  /\ mute = "off" /\ initiallyReconciled /\ ~resumePending =>
       /\ overtaken \/ slot = outstanding
       /\ "blocked" \in enabled =>
            \A p \in Panes \ astray :
              KnownView[p] = "blocked" => "blocked" \in {pending[p], outstanding[p]}

\* The record has the state's alerts and flags.
Mirrors(c) ==
  /\ c.pend = pending /\ c.out = outstanding /\ c.slot = slot /\ c.mute = mute
  /\ c.init = initiallyReconciled /\ c.wait = resumePending /\ c.kinds = enabled
  /\ c.told = KnownView /\ c.over = overtaken /\ c.astray = astray

LEMMA PromptRecord ==
  ASSUME Prompt, NEW c, Mirrors(c)
  PROVE  Ready(c, {})
<1>1. Matched(c)
  BY Zenon DEF Prompt, Matched, Mirrors
<1>2. Settled(c) => mute = "off" /\ initiallyReconciled /\ ~resumePending
  BY DEF Settled, Mirrors
<1>3. ASSUME Settled(c) PROVE (c.over \/ c.slot = c.out) /\ Held(c, {})
  BY <1>2, <1>3, ZenonT(30) DEF Prompt, Held, Mirrors
<1> QED
  BY <1>1, <1>3 DEF Ready, Fit

LEMMA RecordIsPrompt ==
  ASSUME NEW d, Becomes(d), Ready(d, {}), d.told = KnownView', d.kinds = enabled'
  PROVE  Prompt'
<1>1. /\ pending' = d.pend /\ outstanding' = d.out /\ slot' = d.slot /\ mute' = d.mute
      /\ initiallyReconciled' = d.init /\ resumePending' = d.wait
      /\ overtaken' = d.over /\ astray' = d.astray
  BY Becoming
<1>2. \A p \in Panes : \A a \in {pending'[p], outstanding'[p]} \ {None} :
        a \in enabled' /\ (a = KnownView'[p] \/ p \in astray')
  BY <1>1, Zenon DEF Ready, Fit, Matched
<1>3. ASSUME mute' = "off", initiallyReconciled', ~resumePending'
      PROVE  /\ overtaken' \/ slot' = outstanding'
             /\ "blocked" \in enabled' =>
                  \A p \in Panes \ astray' :
                    KnownView'[p] = "blocked" => "blocked" \in {pending'[p], outstanding'[p]}
  <2>1. Held(d, {}) /\ (d.over \/ d.slot = d.out)
    BY <1>1, <1>3 DEF Ready, Fit, Settled
  <2> QED
    BY <1>1, <2>1 DEF Held
<1> QED
  BY <1>2, <1>3 DEF Prompt

LEMMA KnownWhenIdle ==
  ASSUME IInv
  PROVE  /\ Idle => KnownView = agents
         /\ UNCHANGED <<engine, commit>> => KnownView' = KnownView
         /\ turn = "commit" /\ left = {} => KnownView = fresh
         /\ Idle' /\ agents' = fresh => KnownView' = fresh
<1>1. agents \in [Panes -> Kinds \cup Quiet \cup {None}] /\ fresh \in [Panes -> Kinds \cup Quiet \cup {None}]
  BY DEF IInv, TypeOK, View
<1>2. agents = [p \in Panes |-> agents[p]] /\ fresh = [p \in Panes |-> fresh[p]]
  BY <1>1
<1>3. Idle => KnownView = agents
  BY <1>2 DEF KnownView, Known, Idle
<1>4. UNCHANGED <<engine, commit>> => KnownView' = KnownView
  BY DEF KnownView, Known, engine, commit
<1>5. turn = "commit" /\ left = {} => KnownView = fresh
  BY <1>2 DEF KnownView, Known
<1>6. Idle' /\ agents' = fresh => KnownView' = fresh
  BY <1>2 DEF KnownView, Known, Idle
<1> QED
  BY <1>3, <1>4, <1>5, <1>6

LEMMA PollReturnsPrompt == ASSUME IInv, Prompt, PollReturns PROVE Prompt'
<1> USE DEF PollReturns, engine, coord, seen
<1>1. PICK view \in View :
        /\ fresh' = view
        /\ left' = IF ~hydrated THEN {}
                   ELSE {p \in Panes : /\ view[p] # agents[p]
                                       /\ agents[p] # None \/ view[p] \in Kinds}
  OBVIOUS
<1>2. CASE ~hydrated
  <2>1. ~initiallyReconciled' /\ \A p \in Panes : pending'[p] = None /\ outstanding'[p] = None
    BY <1>2 DEF IInv, Unborn, NoAlerts
  <2> QED
    BY <2>1 DEF Prompt
<1>3. CASE hydrated
  <2>1. ASSUME NEW p \in Panes
        PROVE  KnownView'[p] = KnownView[p] \/ (KnownView[p] = None /\ KnownView'[p] \notin Kinds)
    <3>1. KnownView'[p] = Known(p)' /\ KnownView[p] = agents[p]
      BY KnownWhenIdle DEF KnownView
    <3>2. Known(p)' = IF p \in left' THEN agents[p] ELSE view[p]
      BY <1>1 DEF Known
    <3> QED
      BY <1>1, <1>3, <3>1, <3>2
  <2>2. ASSUME NEW p \in Panes, NEW a \in {pending[p], outstanding[p]} \ {None}
        PROVE  a \in enabled /\ (a = KnownView'[p] \/ p \in astray)
    <3>1. a \in enabled /\ (a = KnownView[p] \/ p \in astray)
      BY <2>2 DEF Prompt
    <3> QED
      BY <2>1, <2>2, <3>1
  <2>3. ASSUME NEW p \in Panes, KnownView'[p] = "blocked"
        PROVE  KnownView[p] = "blocked"
    BY <2>1, <2>3 DEF Kinds
  <2> QED
    BY <2>2, <2>3 DEF Prompt
<1> QED
  BY <1>2, <1>3

\* What a callback about p leaves: no alert for p but a fresh one of its status,
\* or what the end of an overdue snooze made of it.
LEMMA CallPrompt ==
  ASSUME IInv, Prompt, NEW p \in Panes, turn = "commit", p \in left,
         CallTransition(p) \/ CallRemove(p)
  PROVE  Prompt'
<1> DEFINE c == Called(p)
           r == Resolved(c, p)
           e == IF r.told[p] \in r.kinds THEN [r EXCEPT !.pend[p] = r.told[p]] ELSE r
<1>1. completions' \in SUBSET Panes
  BY DEF CallTransition, CallRemove, IInv, TypeOK
<1>2. /\ c \in Coord
      /\ c.pend = pending /\ c.out = outstanding /\ c.slot = slot /\ c.mute = mute
      /\ c.init = initiallyReconciled /\ c.wait = resumePending /\ c.kinds = enabled
      /\ c.told = [KnownView EXCEPT ![p] = fresh[p]]
      /\ c.over = overtaken /\ c.astray = astray
  BY <1>1, CalledFacts DEF IInv
<1>3. UNCHANGED <<engine, turn, fresh, enabled>> /\ left' = left \ {p}
  BY DEF CallTransition, CallRemove
<1>4. KnownView' = [KnownView EXCEPT ![p] = fresh[p]]
  BY <1>3 DEF KnownView, Known, engine
<1>5. c.told[p] = fresh[p] /\ \A q \in Panes \ {p} : c.told[q] = KnownView[q]
  BY <1>2 DEF KnownView
<1> HIDE DEF c
<1>6. Evolves(c, r) /\ (ReadyBut(c, p) => Ready(r, {p}))
  BY <1>2, Resolving
<1>7. r \in Coord /\ r.kinds = enabled /\ r.told = c.told
  BY <1>2, <1>6 DEF Evolves, SameReads
<1>8. Becomes(e)
  <2>1. enabled \subseteq Kinds /\ None \notin Kinds
    BY NotifyAssumption DEF IInv, TypeOK
  <2>2. CASE CallTransition(p)
    <3>1. Becomes(IF fresh[p] \in c.kinds THEN [r EXCEPT !.pend[p] = fresh[p]] ELSE r)
      BY <2>2 DEF CallTransition, Transitioned, Called, c
    <3> QED
      BY <1>2, <1>5, <1>7, <3>1
  <2>3. CASE CallRemove(p)
    <3>1. fresh[p] = None /\ Becomes(r)
      BY <2>3 DEF CallRemove, Called, c
    <3> QED
      BY <1>5, <1>7, <2>1, <3>1
  <2> QED
    BY <2>2, <2>3
<1> HIDE DEF r
<1>9. ReadyBut(c, p)
  <2>1. ASSUME NEW q \in Panes \ {p}, NEW a \in {c.pend[q], c.out[q]} \ {None}
        PROVE  a \in c.kinds /\ (a = c.told[q] \/ q \in c.astray)
    BY <1>2, <1>5, <2>1 DEF Prompt
  <2>2. ASSUME Settled(c) PROVE Held(c, {p}) /\ (c.over \/ c.slot = c.out)
    <3>1. mute = "off" /\ initiallyReconciled /\ ~resumePending
      BY <1>2, <2>2 DEF Settled
    <3>2. ASSUME "blocked" \in enabled, NEW q \in Panes \ (astray \cup {p}), c.told[q] = "blocked"
          PROVE  "blocked" \in {pending[q], outstanding[q]}
      BY <1>5, <3>1, <3>2 DEF Prompt
    <3>3. Held(c, {p})
      BY <1>2, <3>2 DEF Held
    <3> QED
      BY <1>2, <3>1, <3>3 DEF Prompt
  <2> QED
    BY <2>1, <2>2, Zenon DEF ReadyBut
<1>10. Ready(e, {})
  BY <1>6, <1>7, <1>9, Rearming
<1>11. e.told = r.told /\ e.kinds = r.kinds
  BY <1>7 DEF Coord
<1> HIDE DEF e
<1> QED
  BY <1>2, <1>3, <1>4, <1>7, <1>8, <1>10, <1>11, RecordIsPrompt

LEMMA PublishPrompt == ASSUME IInv, Prompt, Publish PROVE Prompt'
<1> DEFINE d == Updated(Published)
<1>1. IsUpdate(Published, d)
  BY PublishedFacts, Updating DEF IInv
<1>2. Becomes(d) /\ turn = "commit" /\ left = {} /\ Idle' /\ agents' = fresh /\ enabled' = enabled
  BY DEF Publish, Published, Idle
<1>3. KnownView = fresh /\ KnownView' = fresh
  BY <1>2, KnownWhenIdle
<1>4. Mirrors(Published)
  BY PublishedFacts DEF IInv, Mirrors
<1> HIDE DEF d
<1>5. Ready(d, {})
  BY <1>1, <1>4, PromptRecord DEF IsUpdate
<1>6. d.told = KnownView /\ d.kinds = enabled
  BY <1>1, <1>4 DEF IsUpdate, SameReads, Mirrors
<1> QED
  BY <1>2, <1>3, <1>5, <1>6, RecordIsPrompt

LEMMA TimerFiresPrompt ==
  ASSUME IInv, Prompt, NEW p \in Panes, TimerFires(p)
  PROVE  Prompt'
<1> DEFINE c == Fired(p)
           d == Emitted(c)
<1>1. /\ Idle /\ pending[p] # None /\ Becomes(d)
      /\ UNCHANGED <<engine, commit, completions, enabled>>
  BY DEF TimerFires, Fired
<1>2. KnownView' = KnownView
  BY <1>1, KnownWhenIdle
<1>3. /\ c \in Coord
      /\ c.pend = [pending EXCEPT ![p] = None] /\ c.out = [outstanding EXCEPT ![p] = pending[p]]
      /\ c.mute = mute /\ c.init = initiallyReconciled /\ c.wait = resumePending
      /\ c.kinds = enabled /\ c.told = KnownView /\ c.astray = astray
  BY FiredFacts DEF IInv
<1>4. Evolves(c, d) /\ (Fit(c, {}) => Ready(d, {}))
  BY <1>3, Emitting
<1> HIDE DEF c, d
<1>5. /\ c.pend[p] = None /\ c.out[p] = pending[p]
      /\ \A q \in Panes \ {p} : c.pend[q] = pending[q] /\ c.out[q] = outstanding[q]
  BY <1>3 DEF IInv, TypeOK, Alerts
<1>6. Matched(c)
  <2>1. SUFFICES ASSUME NEW q \in Panes, NEW a \in {c.pend[q], c.out[q]} \ {None}
                 PROVE  a \in enabled /\ (a = KnownView[q] \/ q \in astray)
    BY <1>3, Zenon DEF Matched
  <2>2. a \in {pending[q], outstanding[q]}
    BY <1>5, <2>1
  <2> QED
    BY <2>1, <2>2 DEF Prompt
<1>7. ASSUME Settled(c) PROVE Held(c, {})
  <2>1. mute = "off" /\ initiallyReconciled /\ ~resumePending
    BY <1>3, <1>7 DEF Settled
  <2>2. ASSUME "blocked" \in enabled, NEW q \in Panes \ astray, KnownView[q] = "blocked"
        PROVE  "blocked" \in {c.pend[q], c.out[q]}
    <3>1. CASE q = p
      <4>1. pending[p] = KnownView[p]
        BY <1>1, <2>2, <3>1 DEF Prompt
      <4> QED
        BY <1>5, <2>2, <3>1, <4>1
    <3>2. CASE q # p
      BY <1>5, <2>1, <2>2, <3>2 DEF Prompt
    <3> QED
      BY <3>1, <3>2
  <2> QED
    BY <1>3, <2>2 DEF Held
<1>8. d.told = KnownView /\ d.kinds = enabled
  BY <1>3, <1>4 DEF Evolves, SameReads
<1> QED
  BY <1>1, <1>2, <1>4, <1>6, <1>7, <1>8, RecordIsPrompt DEF Fit

LEMMA SeenPrompt ==
  ASSUME IInv, Prompt, NEW p \in Panes, Seen(p)
  PROVE  Prompt'
<1> DEFINE c == Unseen(p)
           d == AfterSeen(p)
<1>1. /\ Idle /\ Becomes(d) /\ completions' = completions \ {p}
      /\ UNCHANGED <<engine, commit, enabled, rings>>
  BY DEF Seen, AfterSeen, Unseen, Forgotten
<1>2. KnownView' = KnownView
  BY <1>1, KnownWhenIdle
<1>3. /\ c \in Coord
      /\ c.pend = [pending EXCEPT ![p] = IF pending[p] = "done" THEN None ELSE @]
      /\ c.out = [outstanding EXCEPT ![p] = IF outstanding[p] = "done" THEN None ELSE @]
      /\ c.slot = slot /\ c.mute = mute /\ c.init = initiallyReconciled /\ c.wait = resumePending
      /\ c.kinds = enabled /\ c.told = KnownView /\ c.over = overtaken /\ c.astray = astray
  <2>1. completions' \in SUBSET Panes
    BY <1>1 DEF IInv, TypeOK
  <2> QED
    BY <2>1, UnseenFacts DEF IInv
<1>4. d = IF outstanding[p] = "done" THEN Emitted(c) ELSE c
  BY DEF AfterSeen
<1>5. Evolves(c, Emitted(c)) /\ (Fit(c, {}) => Ready(Emitted(c), {}))
  BY <1>3, Emitting
<1> HIDE DEF c, d
<1>6. ASSUME NEW q \in Panes
      PROVE  /\ c.pend[q] = pending[q] \/ (c.pend[q] = None /\ pending[q] = "done")
             /\ c.out[q] = outstanding[q] \/ (c.out[q] = None /\ outstanding[q] = "done")
  BY <1>3 DEF IInv, TypeOK, Alerts
<1>7. Matched(c)
  <2>1. SUFFICES ASSUME NEW q \in Panes, NEW a \in {c.pend[q], c.out[q]} \ {None}
                 PROVE  a \in enabled /\ (a = KnownView[q] \/ q \in astray)
    BY <1>3, Zenon DEF Matched
  <2>2. a \in {pending[q], outstanding[q]}
    BY <1>6, <2>1
  <2> QED
    BY <2>1, <2>2 DEF Prompt
<1>8. ASSUME Settled(c) PROVE Held(c, {}) /\ (overtaken \/ slot = outstanding)
  <2>1. mute = "off" /\ initiallyReconciled /\ ~resumePending
    BY <1>3, <1>8 DEF Settled
  <2>2. ASSUME "blocked" \in enabled, NEW q \in Panes \ astray, KnownView[q] = "blocked"
        PROVE  "blocked" \in {c.pend[q], c.out[q]}
    <3>1. "blocked" \in {pending[q], outstanding[q]}
      BY <2>1, <2>2 DEF Prompt
    <3> QED
      BY <1>6, <3>1
  <2>3. Held(c, {})
    BY <1>3, <2>2 DEF Held
  <2> QED
    BY <2>1, <2>3 DEF Prompt
<1>9. Ready(d, {})
  <2>1. Fit(c, {})
    BY <1>7, <1>8 DEF Fit
  <2>2. outstanding[p] # "done" => c.out = outstanding
    BY <1>3 DEF IInv, TypeOK, Alerts
  <2>3. outstanding[p] # "done" => Ready(c, {})
    BY <1>3, <1>8, <2>1, <2>2 DEF Ready
  <2> QED
    BY <1>4, <1>5, <2>1, <2>3
<1>10. d.told = KnownView /\ d.kinds = enabled
  BY <1>3, <1>4, <1>5 DEF Evolves, SameReads
<1> QED
  BY <1>1, <1>2, <1>9, <1>10, RecordIsPrompt

LEMMA SnoozeOnPrompt == ASSUME IInv, SnoozeOn PROVE Prompt'
<1>1. /\ Becomes(Silenced) /\ Silenced.mute = "on"
      /\ Silenced.pend = NoAlerts /\ Silenced.out = NoAlerts
  BY SilencedFacts DEF SnoozeOn, Silenced, IInv
<1>2. mute' = "on" /\ \A p \in Panes : pending'[p] = None /\ outstanding'[p] = None
  BY <1>1, Becoming DEF NoAlerts
<1> QED
  BY <1>2 DEF Prompt

LEMMA SnoozeEndsPrompt == ASSUME IInv, Prompt, SnoozeEnds PROVE Prompt'
<1> DEFINE d == Resumed(Unmuted)
<1>1. Becomes(d) /\ KnownView' = KnownView /\ enabled' = enabled
  BY KnownWhenIdle DEF SnoozeEnds
<1>2. /\ Unmuted \in Coord /\ Unmuted.pend = pending /\ Unmuted.out = outstanding
      /\ Unmuted.told = KnownView /\ Unmuted.kinds = enabled /\ Unmuted.astray = astray
  BY UnmutedFacts DEF IInv
<1>3. Matched(Unmuted)
  BY <1>2, Zenon DEF Prompt, Matched
<1>4. IsResume(Unmuted, d)
  BY <1>2, Resuming
<1> HIDE DEF d
<1>5. d.told = KnownView /\ d.kinds = enabled /\ Ready(d, {})
  BY <1>2, <1>3, <1>4 DEF IsResume, Evolves, SameReads
<1> QED
  BY <1>1, <1>5, RecordIsPrompt

LEMMA SetPrefsPrompt ==
  ASSUME IInv, Prompt, NEW kinds \in SUBSET Kinds, SetPrefs(kinds)
  PROVE  Prompt'
<1> DEFINE c == Preferring(kinds)
           a == Applied(c)
           d == AfterPrefs(kinds)
<1>1. Becomes(d) /\ KnownView' = KnownView /\ enabled' = kinds
  BY KnownWhenIdle DEF SetPrefs, AfterPrefs, Preferring
<1>2. /\ c \in Coord /\ c.pend = pending /\ c.out = outstanding
      /\ c.slot = slot /\ c.mute = mute /\ c.init = initiallyReconciled
      /\ c.wait = resumePending /\ c.kinds = kinds
      /\ c.told = KnownView /\ c.over = overtaken /\ c.astray = astray
  BY PreferringFacts DEF IInv
<1>3. d = IF kinds \subseteq enabled THEN a ELSE Resumed(a)
  BY DEF AfterPrefs
<1> HIDE DEF c
<1>4. \A p \in Panes : \A b \in {c.pend[p], c.out[p]} \ {None} : b = c.told[p] \/ p \in c.astray
  BY <1>2, Zenon DEF Prompt
<1>5. Evolves(c, a) /\ Matched(a) /\ (ReadyButKinds(c) => Ready(a, {}))
  BY <1>2, <1>4, Applying
<1> HIDE DEF a, d
<1>6. a \in Coord /\ a.told = KnownView /\ a.kinds = kinds
  BY <1>2, <1>5 DEF Evolves, SameReads
<1>7. CASE kinds \subseteq enabled
  <2>1. ASSUME Settled(c) PROVE Held(c, {}) /\ (c.over \/ c.slot = c.out)
    <3>1. mute = "off" /\ initiallyReconciled /\ ~resumePending
      BY <1>2, <2>1 DEF Settled
    <3>2. "blocked" \in kinds =>
            \A p \in Panes \ astray :
              KnownView[p] = "blocked" => "blocked" \in {pending[p], outstanding[p]}
      BY <1>7, <3>1 DEF Prompt
    <3>3. Held(c, {})
      BY <1>2, <3>2 DEF Held
    <3> QED
      BY <1>2, <3>1, <3>3 DEF Prompt
  <2>2. Ready(a, {})
    BY <1>4, <1>5, <2>1 DEF ReadyButKinds
  <2> QED
    BY <1>1, <1>3, <1>6, <1>7, <2>2, RecordIsPrompt
<1>8. CASE ~(kinds \subseteq enabled)
  <2>1. IsResume(a, d)
    BY <1>3, <1>6, <1>8, Resuming
  <2>2. d.told = KnownView /\ d.kinds = kinds /\ Ready(d, {})
    BY <1>5, <1>6, <2>1 DEF IsResume, Evolves, SameReads
  <2> QED
    BY <1>1, <2>2, RecordIsPrompt
<1> QED
  BY <1>7, <1>8

\* Steps that leave the alerts alone, or drop them with everything else.
LEMMA OtherStepsPrompt ==
  ASSUME IInv, Prompt, DeadlinePasses \/ PollFails \/ Restart \/ UNCHANGED vars
  PROVE  Prompt'
<1> USE DEF engine, commit, coord, seen, vars
<1>1. CASE PollFails \/ UNCHANGED vars
  BY <1>1 DEF PollFails, Prompt, KnownView, Known
<1>2. CASE DeadlinePasses
  BY <1>2 DEF DeadlinePasses, Prompt, KnownView, Known
<1>3. CASE Restart
  <2>1. ~initiallyReconciled' /\ \A p \in Panes : pending'[p] = None /\ outstanding'[p] = None
    BY <1>3 DEF Restart, NoAlerts
  <2> QED
    BY <2>1 DEF Prompt
<1> QED
  BY <1>1, <1>2, <1>3

LEMMA InitPrompt == Init => Prompt
  BY DEF Init, Prompt, NoAlerts

LEMMA NextPrompt == IInv /\ Prompt /\ [Next]_vars => Prompt'
<1> SUFFICES ASSUME IInv, Prompt, [Next]_vars PROVE Prompt'
  OBVIOUS
<1>1. CASE SnoozeExpires \/ SnoozeOff
  BY <1>1, SnoozeEndings, SnoozeEndsPrompt
<1>2. CASE PollReturns
  BY <1>2, PollReturnsPrompt
<1>3. CASE PollFails \/ DeadlinePasses \/ Restart \/ UNCHANGED vars
  BY <1>3, OtherStepsPrompt
<1>4. CASE Publish
  BY <1>4, PublishPrompt
<1>5. ASSUME NEW p \in Panes, CallTransition(p) \/ CallRemove(p) PROVE Prompt'
  <2>1. turn = "commit" /\ p \in left
    BY <1>5 DEF CallTransition, CallRemove
  <2> QED
    BY <1>5, <2>1, CallPrompt
<1>6. ASSUME NEW p \in Panes, TimerFires(p) PROVE Prompt'
  BY <1>6, TimerFiresPrompt
<1>7. ASSUME NEW p \in Panes, Seen(p) PROVE Prompt'
  BY <1>7, SeenPrompt
<1>8. CASE SnoozeOn
  BY <1>8, SnoozeOnPrompt
<1>9. ASSUME NEW kinds \in SUBSET Kinds, SetPrefs(kinds) PROVE Prompt'
  BY <1>9, SetPrefsPrompt
<1> QED
  BY <1>1, <1>2, <1>3, <1>4, <1>5, <1>6, <1>7, <1>8, <1>9 DEF Next

\* Between and during polls, every alert is what its pane was last said to be,
\* and, heard and rebuilt, the slot shows them all, up to what one late end of a
\* snooze leaves.
THEOREM NotifyIsPrompt == Spec => []Prompt
<1> QED
  BY InitPrompt, NextPrompt, NotifyInvariant, PTL DEF Spec

\* The last message queued is the summary of the alerts the coordinator holds as
\* delivered, however late the snooze timer is, unless that message's own emit
\* ended the snooze.
THEOREM NotifySlotAccurate == Spec => []SlotShowsOutstanding
<1>1. Prompt => SlotShowsOutstanding
  BY DEF Prompt, SlotShowsOutstanding
<1> QED
  BY <1>1, NotifyIsPrompt, PTL

\* No alert outlives the status, or the preference, it was raised for, except on a
\* pane that a late end of the snooze rebuilt from an outdated snapshot.
THEOREM NotifyMatchesHerd == Spec => []AlertsMatchHerd
<1>1. IInv /\ Prompt => AlertsMatchHerd
  BY KnownWhenIdle DEF Prompt, AlertsMatchHerd
<1> QED
  BY <1>1, NotifyInvariant, NotifyIsPrompt, PTL

\* A blocked agent is debouncing or on the phone whenever the session is live and
\* heard, whatever came before, with the same exception.
THEOREM NotifyForgetsNoBlock == Spec => []BlockedNotForgotten
<1>1. IInv /\ Prompt => BlockedNotForgotten
  <2> SUFFICES ASSUME IInv, Prompt, Idle, bridge = "connected", mute = "off", "blocked" \in enabled
               PROVE  \A p \in Panes \ astray :
                        agents[p] = "blocked" => "blocked" \in {pending[p], outstanding[p]}
    BY DEF BlockedNotForgotten
  <2>1. KnownView = agents /\ initiallyReconciled /\ ~resumePending
    BY KnownWhenIdle DEF IInv, Live
  <2> QED
    BY <2>1 DEF Prompt
<1> QED
  BY <1>1, NotifyInvariant, NotifyIsPrompt, PTL
=============================================================================
