------------------------- MODULE UpdateMonitorProofs -------------------------
(***************************************************************************)
(* Proofs about UpdateMonitor, for any releases and any bounds: types, one *)
(* announcement per version, an empty slot after opting out, and what a    *)
(* clean stop leaves in the slot.                                          *)
(***************************************************************************)
EXTENDS UpdateMonitor, TLAPS

\* Whatever was announced is covered by the marker, and by the marker a check in
\* flight would put back; what such a check is about to announce is newer.
MarkerCovers ==
  /\ \A v \in Versions : said[v] > 0 => v <= marker
  /\ check.phase \in {"marking", "restoring"} =>
       \A v \in Versions : said[v] > 0 => v <= check.prev
  /\ check.phase = "marking" => latest \in Versions /\ latest > check.prev

\* No process, or none that checks: no check.
CheckNeedsProcess == ~Up \/ ~enabled => check.phase = "idle"

\* What may be queued behind the shutdown's retraction: a clear, or an offer of a late check.
Behind(m) == m = Closed \/ (late /\ m \in Versions /\ said[m] > 0)

\* The check that prepareShutdown() found has ended: only a late one can be under way.
OnlyLateChecks == life \in {"resetting", "flushing"} => check.phase = "idle" \/ late

\* The retraction is the last message flush() waits for.
ShutdownDrains ==
  life = "flushing" =>
    /\ flushLeft <= Len(queue)
    /\ flushLeft > 0 => queue[flushLeft] = Closed
    /\ \A i \in 1..Len(queue) : i > flushLeft => Behind(queue[i])
    /\ flushLeft = 0 => dropped \/ Behind(sent)

\* What is left of it after the exit.
StopLeaves == life = "stopped" => dropped \/ Behind(sent)

IInv ==
  /\ TypeOK /\ AnnouncedOnce /\ OptOutCloses
  /\ MarkerCovers /\ CheckNeedsProcess /\ OnlyLateChecks /\ ShutdownDrains /\ StopLeaves

----------------------------------------------------------------------------
\* What is enqueued last is the newest message (PushDeliveryQueue.enqueue()).
LEMMA EnqueueIsFinal ==
  ASSUME TypeOK, NEW m \in Releases, Enqueue(m)
  PROVE  /\ Final' = m /\ queue' \in Seq(Releases) /\ sent' \in Releases
         /\ dropped' \in BOOLEAN /\ queue' # <<>>
         /\ UNCHANGED <<sent, dropped>>
         /\ Len(queue') = Len(queue) + 1 /\ queue'[Len(queue')] = m
         /\ \A i \in 1..Len(queue) : queue'[i] = queue[i]
  BY DEF TypeOK, Enqueue, Final

\* A delivery, whether it fails or not, takes the head of the queue only: what will be
\* shown at last is as closed as before (PushDeliveryQueue's chain).
LEMMA DeliveryKeepsClosed ==
  ASSUME TypeOK, Delivers
  PROVE  /\ queue' \in Seq(Releases) /\ sent' \in Releases /\ dropped' \in BOOLEAN
         /\ Len(queue) > 0 /\ Len(queue') = Len(queue) - 1
         /\ \A i \in 1..Len(queue') : queue'[i] = queue[i + 1]
         /\ dropped' \/ sent' = queue[1]
         /\ ClosedAtLast => ClosedAtLast'
<1>1. /\ queue \in Seq(Releases) /\ Len(queue) \in Nat \ {0}
      /\ queue' \in Seq(Releases) /\ Len(queue') = Len(queue) - 1
      /\ \A i \in 1..Len(queue') : queue'[i] = queue[i + 1]
      /\ queue[1] \in Releases /\ Head(queue) = queue[1]
  BY DEF TypeOK, Delivers
<1>2. sent' \in Releases /\ dropped' \in BOOLEAN /\ (dropped' \/ sent' = queue[1])
  <2>1. CASE sent' = Head(queue) /\ dropped' = FALSE
    <3>1. sent' = queue[1]  BY <1>1, <2>1
    <3>2. sent' \in Releases  BY <1>1, <3>1
    <3> QED  BY <2>1, <3>1, <3>2
  <2>2. CASE UNCHANGED sent /\ dropped' = TRUE  BY <2>2 DEF TypeOK
  <2> QED  BY <2>1, <2>2 DEF Delivers
<1>3. ASSUME ClosedAtLast PROVE ClosedAtLast'
  <2>1. queue[Len(queue)] = Closed  BY <1>1, <1>3 DEF ClosedAtLast, Final, Delivers
  <2>2. CASE Len(queue) = 1
    <3>1. queue' = <<>>  BY <1>1, <2>2
    <3> QED  BY <1>2, <2>1, <2>2, <3>1 DEF ClosedAtLast, Final
  <2>3. CASE Len(queue) # 1
    <3>1. Len(queue') \in Nat /\ Len(queue') > 0  BY <1>1, <2>3
    <3>2. queue' # <<>>
      <4>1. Len(<<>>) = 0  OBVIOUS
      <4>2. Len(queue') # 0  BY <3>1
      <4> QED  BY <4>1, <4>2, Zenon
    <3>3. queue'[Len(queue')] = queue[Len(queue') + 1]  BY <1>1, <3>1
    <3>4. queue'[Len(queue')] = Closed  BY <1>1, <2>1, <3>3
    <3> QED  BY <3>2, <3>4 DEF ClosedAtLast, Final
  <2> QED  BY <2>2, <2>3
<1> QED  BY <1>1, <1>2, <1>3

\* A slot nobody touches keeps its newest message.
LEMMA SlotKept ==
  ASSUME TypeOK, UNCHANGED slot
  PROVE  /\ Final' = Final /\ ClosedAtLast' = ClosedAtLast
         /\ queue' \in Seq(Releases) /\ sent' \in Releases /\ dropped' \in BOOLEAN
         /\ UNCHANGED <<queue, sent, dropped>>
  BY DEF TypeOK, slot, Final, ClosedAtLast

----------------------------------------------------------------------------
LEMMA InitIInv == Init => IInv
<1> SUFFICES ASSUME Init PROVE IInv  OBVIOUS
<1>1. TypeOK
  <2>1. queue \in Seq(Releases)  BY DEF Init
  <2>2. said \in [Versions -> 0..2] /\ check \in [phase : {"idle", "fetching", "marking",
                    "restoring"}, prev : Releases, overtaken : BOOLEAN]
    BY DEF Init, Unsaid, Idle, Releases
  <2> QED  BY <2>1, <2>2 DEF Init, TypeOK, Releases, None, Closed
<1>2. AnnouncedOnce /\ MarkerCovers
  BY UpdateAssumption DEF Init, AnnouncedOnce, MarkerCovers, Unsaid, Idle, None
<1>3. OptOutCloses /\ CheckNeedsProcess /\ OnlyLateChecks /\ ShutdownDrains /\ StopLeaves
  BY DEF Init, OptOutCloses, CheckNeedsProcess, OnlyLateChecks, ShutdownDrains, StopLeaves,
         Behind, Up, Idle
<1> QED  BY <1>1, <1>2, <1>3 DEF IInv

----------------------------------------------------------------------------
\* The check and the marker: what may be said, and when (runCheck()).
LEMMA MarkerStep ==
  ASSUME TypeOK, MarkerCovers, AnnouncedOnce, CheckNeedsProcess, Next
  PROVE  (MarkerCovers /\ AnnouncedOnce)'
<1> USE UpdateAssumption DEF Releases, None, Closed
<1>0. /\ Versions \subseteq Nat \ {0}
      /\ marker \in Nat /\ upstream \in Nat /\ current \in Nat \ {0} /\ latest \in Nat
      /\ check.prev \in Nat /\ check.phase \in {"idle", "fetching", "marking", "restoring"}
      /\ said \in [Versions -> 0..2]
      /\ check \in [phase : {"idle", "fetching", "marking", "restoring"},
                    prev : Releases, overtaken : BOOLEAN]
  <2>1. Releases \subseteq Nat  OBVIOUS
  <2>2. /\ check \in [phase : {"idle", "fetching", "marking", "restoring"},
                      prev : Releases, overtaken : BOOLEAN]
        /\ said \in [Versions -> 0..2]
        /\ marker \in Releases /\ upstream \in Releases /\ latest \in Releases
        /\ current \in Versions
    BY Zenon DEF TypeOK
  <2>3. check.prev \in Releases
        /\ check.phase \in {"idle", "fetching", "marking", "restoring"}
    BY <2>2
  <2>4. /\ marker \in Nat /\ upstream \in Nat /\ current \in Nat \ {0} /\ latest \in Nat
        /\ check.prev \in Nat /\ Versions \subseteq Nat \ {0}
    BY <2>1, <2>2, <2>3
  <2> QED  BY <2>2, <2>3, <2>4
<1>1. CASE UNCHANGED <<marker, said, latest>>
           /\ (check' = check \/ Overtake)
  BY <1>0, <1>1 DEF MarkerCovers, AnnouncedOnce, Overtake
<1>2. CASE UNCHANGED <<marker, said>> /\ check'.phase \in {"idle", "fetching"}
  BY <1>0, <1>2 DEF MarkerCovers, AnnouncedOnce
<1>3. CASE CheckStarts
  <2>1. check'.phase \in {"idle", "fetching"} /\ UNCHANGED <<marker, said>>
    BY <1>3 DEF CheckStarts, Idle
  <2> QED  BY <1>2, <2>1
<1>4. CASE FetchFails  BY <1>2, <1>4 DEF FetchFails, Idle
<1>5. CASE FetchReturns
  <2>1. CASE check' = Idle  BY <1>2, <1>5, <2>1 DEF FetchReturns, Idle
  <2>2. CASE check' = [phase |-> "marking", prev |-> marker, overtaken |-> FALSE]
             /\ ShouldNotify
    <3>1. UNCHANGED <<marker, said>> /\ latest' = upstream  BY <1>5 DEF FetchReturns
    <3>2. latest' > marker /\ latest' \in Versions
      BY <1>0, <2>2, <3>1 DEF ShouldNotify, TypeOK
    <3> QED  BY <1>0, <2>2, <3>1, <3>2 DEF MarkerCovers, AnnouncedOnce
  <2> QED  BY <1>5, <2>1, <2>2 DEF FetchReturns, ShouldNotify
<1>6. CASE MarkerSaved
  <2>1. /\ marker' = latest /\ latest' = latest
        /\ latest \in Versions /\ latest > check.prev
        /\ \A v \in Versions : said[v] > 0 => v <= check.prev
    BY <1>6 DEF MarkerSaved, MarkerCovers
  <2>2. CASE check.overtaken \/ ~updates
    <3>1. check' = [check EXCEPT !.phase = "restoring"] /\ said' = said
      BY <1>6, <2>2 DEF MarkerSaved
    <3>2. check'.phase = "restoring" /\ check'.prev = check.prev  BY <1>0, <3>1
    <3> QED  BY <1>0, <2>1, <3>1, <3>2 DEF MarkerCovers, AnnouncedOnce
  <2>3. CASE ~(check.overtaken \/ ~updates)
    <3>1. check'.phase = "idle"  BY <1>6, <2>3 DEF MarkerSaved, Idle
    <3>2. said' = [said EXCEPT ![latest] = IF @ < 2 THEN @ + 1 ELSE @]
      BY <1>6, <2>3 DEF MarkerSaved, Announce
    <3>3. said[latest] = 0  BY <1>0, <2>1
    <3>4. \A v \in Versions : said'[v] = IF v = latest THEN 1 ELSE said[v]
      BY <1>0, <3>2, <3>3
    <3>5. \A v \in Versions : said'[v] > 0 => v <= latest
      BY <1>0, <2>1, <3>4
    <3>6. \A v \in Versions : said'[v] <= 1  BY <1>0, <3>4 DEF AnnouncedOnce
    <3> QED  BY <2>1, <3>1, <3>5, <3>6 DEF MarkerCovers, AnnouncedOnce
  <2> QED  BY <2>2, <2>3
<1>7. CASE MarkerFails  BY <1>2, <1>7 DEF MarkerFails, Idle
<1>8. CASE MarkerRestored
  <2>1. /\ check'.phase = "idle" /\ said' = said
        /\ marker' \in {marker, check.prev} /\ check.phase = "restoring"
    BY <1>8 DEF MarkerRestored, Idle
  <2> QED  BY <1>0, <2>1 DEF MarkerCovers, AnnouncedOnce
<1>9. ASSUME NEW on \in BOOLEAN, SetUpdates(on) PROVE (MarkerCovers /\ AnnouncedOnce)'
  BY <1>1, <1>9 DEF SetUpdates
<1>10. CASE PrepareShutdown  BY <1>1, <1>10 DEF PrepareShutdown
<1>11. CASE CheckAwaited  BY <1>1, <1>11 DEF CheckAwaited
<1>12. CASE MarkerReset
  <2>1. CASE marker' = marker /\ said' = said  BY <1>1, <1>12, <2>1 DEF MarkerReset
  <2>2. CASE said' = Unsaid
    <3>1. \A v \in Versions : said'[v] = 0  BY <2>2 DEF Unsaid
    <3>2. UNCHANGED <<check, latest>>  BY <1>12 DEF MarkerReset
    <3> QED  BY <3>1, <3>2 DEF MarkerCovers, AnnouncedOnce
  <2> QED  BY <1>12, <2>1, <2>2 DEF MarkerReset
<1>13. CASE Delivers  BY <1>1, <1>13 DEF Delivers
<1>14. CASE Exit \/ Kill  BY <1>2, <1>14 DEF Exit, Kill, Ends, Idle
<1>15. CASE Start
  <2>1. check.phase = "idle" /\ UNCHANGED <<check, marker, said>>
    BY <1>15 DEF Start, CheckNeedsProcess
  <2> QED  BY <1>2, <2>1
<1>16. CASE Published  BY <1>1, <1>16 DEF Published, process
<1> QED
  BY <1>3, <1>4, <1>5, <1>6, <1>7, <1>8, <1>9, <1>10, <1>11, <1>12, <1>13, <1>14, <1>15,
     <1>16 DEF Next

----------------------------------------------------------------------------
LEMMA TypeStep ==
  ASSUME TypeOK, MarkerCovers, Next
  PROVE  TypeOK'
<1> DEFINE Checks == [phase : {"idle", "fetching", "marking", "restoring"},
                      prev : Releases, overtaken : BOOLEAN]
<1>0. /\ check \in Checks /\ Idle \in Checks /\ Closed \in Releases /\ None \in Releases
      /\ [check EXCEPT !.overtaken = check.phase # "idle"] \in Checks
      /\ [check EXCEPT !.phase = "restoring"] \in Checks
      /\ [Idle EXCEPT !.phase = "fetching"] \in Checks
      /\ [phase |-> "marking", prev |-> marker, overtaken |-> FALSE] \in Checks
      /\ check.prev \in Releases
      /\ Unsaid \in [Versions -> 0..2]
  <2>1. check \in Checks  BY Zenon DEF TypeOK
  <2>2. Closed \in Releases /\ None \in Releases  BY DEF Releases, Closed, None
  <2>3. Idle \in Checks  BY <2>2 DEF Idle
  <2>4. marker \in Releases /\ check.prev \in Releases  BY <2>1 DEF TypeOK
  <2>5. Unsaid \in [Versions -> 0..2]  BY DEF Unsaid
  <2>6. /\ [check EXCEPT !.overtaken = check.phase # "idle"] \in Checks
        /\ [check EXCEPT !.phase = "restoring"] \in Checks
        /\ [Idle EXCEPT !.phase = "fetching"] \in Checks
    BY <2>1, <2>3
  <2>7. [phase |-> "marking", prev |-> marker, overtaken |-> FALSE] \in Checks  BY <2>4
  <2> QED  BY <2>1, <2>2, <2>3, <2>4, <2>5, <2>6, <2>7
<1>1. CASE CheckStarts
  BY <1>0, <1>1, SlotKept DEF CheckStarts, TypeOK, slot
<1>2. CASE FetchFails \/ MarkerFails
  BY <1>0, <1>2, SlotKept DEF FetchFails, MarkerFails, TypeOK, slot
<1>3. CASE FetchReturns
  <2>1. queue' \in Seq(Releases) /\ sent' \in Releases /\ dropped' \in BOOLEAN
    BY <1>0, <1>3, SlotKept, EnqueueIsFinal DEF FetchReturns
  <2>2. check' \in Checks  BY <1>0, <1>3 DEF FetchReturns
  <2> QED  BY <1>3, <2>1, <2>2 DEF FetchReturns, TypeOK
<1>4. CASE MarkerSaved
  <2>1. queue' \in Seq(Releases) /\ sent' \in Releases /\ dropped' \in BOOLEAN
    BY <1>4, SlotKept, EnqueueIsFinal DEF MarkerSaved, Announce, TypeOK
  <2>2. check' \in Checks  BY <1>0, <1>4 DEF MarkerSaved
  <2>3. said' \in [Versions -> 0..2]
    <3>1. ASSUME NEW v \in Versions
          PROVE  [said EXCEPT ![v] = IF @ < 2 THEN @ + 1 ELSE @] \in [Versions -> 0..2]
      BY DEF TypeOK
    <3>2. latest \in Versions  BY <1>4 DEF MarkerSaved, MarkerCovers
    <3> QED  BY <1>4, <3>1, <3>2 DEF MarkerSaved, Announce, TypeOK
  <2> QED  BY <1>4, <2>1, <2>2, <2>3 DEF MarkerSaved, TypeOK
<1>5. CASE MarkerRestored
  <2>1. queue' \in Seq(Releases) /\ sent' \in Releases /\ dropped' \in BOOLEAN
    BY <1>0, <1>5, EnqueueIsFinal DEF MarkerRestored
  <2> QED  BY <1>0, <1>5, <2>1 DEF MarkerRestored, TypeOK
<1>6. ASSUME NEW on \in BOOLEAN, SetUpdates(on) PROVE TypeOK'
  <2>1. queue' \in Seq(Releases) /\ sent' \in Releases /\ dropped' \in BOOLEAN
    BY <1>0, <1>6, SlotKept, EnqueueIsFinal DEF SetUpdates
  <2>2. check' \in Checks  BY <1>0, <1>6 DEF SetUpdates, Overtake
  <2> QED  BY <1>6, <2>1, <2>2 DEF SetUpdates, TypeOK
<1>7. CASE PrepareShutdown \/ CheckAwaited
  <2>1. life' \in {"running", "preparing", "resetting", "flushing", "stopped", "killed"}
    BY <1>7 DEF PrepareShutdown, CheckAwaited
  <2> QED  BY <1>0, <1>7, <2>1, SlotKept DEF PrepareShutdown, CheckAwaited, TypeOK, slot,
                                            Overtake
<1>8. CASE MarkerReset
  <2>1. /\ queue' \in Seq(Releases) /\ sent' \in Releases /\ dropped' \in BOOLEAN
        /\ flushLeft' \in Nat
    BY <1>0, <1>8, EnqueueIsFinal DEF MarkerReset
  <2> QED  BY <1>0, <1>8, <2>1 DEF MarkerReset, TypeOK
<1>9. CASE Delivers
  <2>1. queue' \in Seq(Releases) /\ sent' \in Releases /\ dropped' \in BOOLEAN
    BY <1>9, DeliveryKeepsClosed
  <2>2. flushLeft' \in Nat  BY <1>9 DEF Delivers, TypeOK
  <2> QED  BY <1>9, <2>1, <2>2 DEF Delivers, TypeOK
<1>10. CASE Exit \/ Kill
  <2>1. life' \in {"stopped", "killed"} /\ queue' = <<>> /\ flushLeft' = 0 /\ check' = Idle
        /\ UNCHANGED <<upstream, updates, marker, current, enabled, latest, sent, dropped,
                       late, said>>
    BY <1>10 DEF Exit, Kill, Ends
  <2>2. queue' \in Seq(Releases)  BY <2>1
  <2> QED  BY <1>0, <2>1, <2>2 DEF TypeOK
<1>11. CASE Start
  <2>1. queue' \in Seq(Releases) /\ sent' \in Releases /\ dropped' \in BOOLEAN
    BY <1>0, <1>11, SlotKept, EnqueueIsFinal DEF Start
  <2> QED  BY <1>0, <1>11, <2>1 DEF Start, TypeOK
<1>12. CASE Published
  BY <1>0, <1>12, SlotKept DEF Published, process, slot, TypeOK
<1> QED
  BY <1>1, <1>2, <1>3, <1>4, <1>5, <1>6, <1>7, <1>8, <1>9, <1>10, <1>11, <1>12 DEF Next

----------------------------------------------------------------------------
\* Opting out, and which checks can be under way.
LEMMA SlotStep ==
  ASSUME IInv, Next
  PROVE  (OptOutCloses /\ CheckNeedsProcess /\ OnlyLateChecks)'
<1> USE DEF IInv
<1> DEFINE Good == OptOutCloses /\ CheckNeedsProcess /\ OnlyLateChecks
<1>0. Closed \in Releases  BY DEF Closed, None, Releases
<1>e. ASSUME NEW m \in Releases, m = Closed, Enqueue(m) PROVE ClosedAtLast'
  BY <1>e, EnqueueIsFinal DEF ClosedAtLast
<1>1. CASE /\ UNCHANGED <<slot, updates, enabled, life, late>>
           /\ check'.phase = "idle" \/ check'.phase = check.phase
  <2>1. ClosedAtLast' = ClosedAtLast  BY <1>1, SlotKept
  <2> QED  BY <1>1, <2>1 DEF OptOutCloses, CheckNeedsProcess, OnlyLateChecks, Up
<1>2. CASE CheckStarts
  <2>1. ClosedAtLast' = ClosedAtLast  BY <1>2, SlotKept DEF CheckStarts
  <2> QED
    BY <1>2, <2>1 DEF CheckStarts, OptOutCloses, CheckNeedsProcess, OnlyLateChecks, Up
<1>3. CASE FetchFails \/ MarkerFails
  BY <1>1, <1>3 DEF FetchFails, MarkerFails, Idle
<1>4. CASE FetchReturns
  <2>1. UNCHANGED <<updates, enabled, life, late>> /\ check.phase = "fetching"
    BY <1>4 DEF FetchReturns
  <2>2. Up /\ enabled  BY <2>1 DEF CheckNeedsProcess
  <2>3. ClosedAtLast => ClosedAtLast'
    <3>1. Enqueue(Closed) \/ UNCHANGED slot  BY <1>4 DEF FetchReturns
    <3> QED  BY <1>0, <1>e, <3>1, SlotKept
  <2> QED  BY <2>1, <2>2, <2>3 DEF OptOutCloses, CheckNeedsProcess, OnlyLateChecks, Up
<1>5. CASE MarkerSaved
  <2>1. UNCHANGED <<updates, enabled, life, late>> /\ check.phase = "marking"
    BY <1>5 DEF MarkerSaved
  <2>2. Up /\ enabled  BY <2>1 DEF CheckNeedsProcess
  <2>3. ~updates => ClosedAtLast' = ClosedAtLast  BY <1>5, SlotKept DEF MarkerSaved
  <2> QED  BY <2>1, <2>2, <2>3 DEF OptOutCloses, CheckNeedsProcess, OnlyLateChecks, Up
<1>6. CASE MarkerRestored
  <2>1. UNCHANGED <<updates, enabled, life, late>> /\ check.phase = "restoring"
    BY <1>6 DEF MarkerRestored
  <2>2. Up /\ enabled  BY <2>1 DEF CheckNeedsProcess
  <2>3. ClosedAtLast'  BY <1>0, <1>e, <1>6 DEF MarkerRestored
  <2> QED  BY <2>1, <2>2, <2>3 DEF OptOutCloses, CheckNeedsProcess, OnlyLateChecks, Up
<1>7. ASSUME NEW on \in BOOLEAN, SetUpdates(on) PROVE Good'
  <2>1. UNCHANGED <<enabled, life>> /\ life = "running" /\ updates' = on
    BY <1>7 DEF SetUpdates
  <2>2. CASE on
    <3>1. ClosedAtLast' = ClosedAtLast /\ check' = check
      BY <1>7, <2>2, SlotKept DEF SetUpdates
    <3> QED
      BY <2>1, <2>2, <3>1 DEF OptOutCloses, CheckNeedsProcess, OnlyLateChecks, Up
  <2>3. CASE ~on
    <3>1. ClosedAtLast'  BY <1>0, <1>e, <1>7, <2>3 DEF SetUpdates
    <3>2. check'.phase = check.phase  BY <1>7, <2>3 DEF SetUpdates, Overtake, TypeOK
    <3> QED
      BY <2>1, <3>1, <3>2 DEF OptOutCloses, CheckNeedsProcess, OnlyLateChecks, Up
  <2> QED  BY <2>2, <2>3
<1>8. CASE PrepareShutdown
  <2>1. ClosedAtLast' = ClosedAtLast  BY <1>8, SlotKept DEF PrepareShutdown
  <2>2. check'.phase = check.phase  BY <1>8 DEF PrepareShutdown, Overtake, TypeOK
  <2> QED
    BY <1>8, <2>1, <2>2 DEF PrepareShutdown, OptOutCloses, CheckNeedsProcess,
                            OnlyLateChecks, Up
<1>9. CASE CheckAwaited
  <2>1. ClosedAtLast' = ClosedAtLast  BY <1>9, SlotKept DEF CheckAwaited
  <2> QED
    BY <1>9, <2>1 DEF CheckAwaited, OptOutCloses, CheckNeedsProcess, OnlyLateChecks, Up
<1>10. CASE MarkerReset
  <2>1. ClosedAtLast'  BY <1>0, <1>e, <1>10 DEF MarkerReset
  <2> QED
    BY <1>10, <2>1 DEF MarkerReset, OptOutCloses, CheckNeedsProcess, OnlyLateChecks, Up
<1>11. CASE Delivers
  <2>1. ClosedAtLast => ClosedAtLast'  BY <1>11, DeliveryKeepsClosed
  <2>2. Up /\ UNCHANGED <<updates, enabled, life, check, late>>  BY <1>11 DEF Delivers
  <2> QED  BY <2>1, <2>2 DEF OptOutCloses, CheckNeedsProcess, OnlyLateChecks, Up
<1>12. CASE Exit \/ Kill
  <2>1. ~Up' /\ check'.phase = "idle" /\ life' \in {"stopped", "killed"}
    BY <1>12 DEF Exit, Kill, Ends, Up, Idle
  <2> QED  BY <2>1 DEF OptOutCloses, CheckNeedsProcess, OnlyLateChecks
<1>13. CASE Start
  <2>1. life' = "running" /\ UNCHANGED <<updates, check>> /\ check.phase = "idle"
    BY <1>13 DEF Start, CheckNeedsProcess
  <2>2. ~updates \/ ~enabled' => ClosedAtLast'
    BY <1>0, <1>e, <1>13 DEF Start, StaleAtStart
  <2> QED  BY <2>1, <2>2 DEF OptOutCloses, CheckNeedsProcess, OnlyLateChecks
<1>14. CASE Published  BY <1>1, <1>14 DEF Published, process
<1> QED
  BY <1>2, <1>3, <1>4, <1>5, <1>6, <1>7, <1>8, <1>9, <1>10, <1>11, <1>12, <1>13, <1>14
     DEF Next

----------------------------------------------------------------------------
\* What may be behind the retraction stays so as long as nothing is taken back.
LEMMA BehindStays ==
  ASSUME TypeOK, late => late', \A v \in Versions : said[v] > 0 => said'[v] > 0
  PROVE  \A m \in Releases :
           Behind(m) => m = Closed \/ (late' /\ m \in Versions /\ said'[m] > 0)
  BY DEF Behind

\* A step that leaves the slot alone, or puts something behind the retraction.
LEMMA DrainsOn ==
  ASSUME TypeOK, ShutdownDrains, StopLeaves, UNCHANGED <<life, flushLeft>>,
         late => late', \A v \in Versions : said[v] > 0 => said'[v] > 0,
         life # "stopped" \/ UNCHANGED slot,
         UNCHANGED slot
           \/ \E m \in Releases : Enqueue(m) /\ (life = "flushing" => Behind(m)')
  PROVE  (ShutdownDrains /\ StopLeaves)'
<1> DEFINE BehindNext(m) == m = Closed \/ (late' /\ m \in Versions /\ said'[m] > 0)
<1>1. \A m \in Releases : Behind(m) => BehindNext(m)  BY BehindStays
<1>2. /\ queue \in Seq(Releases) /\ Len(queue) \in Nat /\ flushLeft \in Nat
      /\ sent \in Releases /\ \A i \in 1..Len(queue) : queue[i] \in Releases
  BY DEF TypeOK
<1>3. StopLeaves'
  <2> SUFFICES ASSUME life' = "stopped" PROVE dropped' \/ BehindNext(sent')
    BY DEF StopLeaves, Behind
  <2>1. UNCHANGED <<sent, dropped>>  BY SlotKept
  <2> QED  BY <1>1, <1>2, <2>1 DEF StopLeaves
<1>4. ShutdownDrains'
  <2> SUFFICES ASSUME life' = "flushing"
               PROVE  /\ flushLeft' <= Len(queue')
                      /\ flushLeft' > 0 => queue'[flushLeft'] = Closed
                      /\ \A i \in 1..Len(queue') : i > flushLeft' => BehindNext(queue'[i])
                      /\ flushLeft' = 0 => dropped' \/ BehindNext(sent')
    BY DEF ShutdownDrains, Behind
  <2>1. /\ flushLeft <= Len(queue)
        /\ flushLeft > 0 => queue[flushLeft] = Closed
        /\ \A i \in 1..Len(queue) : i > flushLeft => BehindNext(queue[i])
        /\ flushLeft = 0 => dropped \/ BehindNext(sent)
        /\ flushLeft' = flushLeft
    BY <1>1, <1>2 DEF ShutdownDrains
  <2>2. CASE UNCHANGED slot  BY <2>1, <2>2, SlotKept
  <2>3. ASSUME NEW m \in Releases, Enqueue(m), Behind(m)'
        PROVE  /\ flushLeft' <= Len(queue')
               /\ flushLeft' > 0 => queue'[flushLeft'] = Closed
               /\ \A i \in 1..Len(queue') : i > flushLeft' => BehindNext(queue'[i])
               /\ flushLeft' = 0 => dropped' \/ BehindNext(sent')
    <3>1. /\ Len(queue') = Len(queue) + 1 /\ queue'[Len(queue')] = m
          /\ \A i \in 1..Len(queue) : queue'[i] = queue[i]
          /\ UNCHANGED <<sent, dropped>>
      BY <2>3, EnqueueIsFinal
    <3>2. BehindNext(m)  BY <2>3 DEF Behind
    <3>3. ASSUME NEW i \in 1..Len(queue'), i > flushLeft' PROVE BehindNext(queue'[i])
      <4>1. CASE i = Len(queue')  BY <3>1, <3>2, <4>1
      <4>2. CASE i \in 1..Len(queue)  BY <2>1, <3>1, <3>3, <4>2
      <4> QED  BY <1>2, <3>1, <4>1, <4>2
    <3> QED  BY <1>2, <2>1, <3>1, <3>3
  <2> QED  BY <2>2, <2>3
<1> QED  BY <1>3, <1>4

\* The shutdown: what flush() waits for, and what the exit leaves.
LEMMA DrainStep ==
  ASSUME IInv, Next
  PROVE  (ShutdownDrains /\ StopLeaves)'
<1> USE DEF IInv
<1>0. /\ Closed \in Releases /\ Len(queue) \in Nat /\ flushLeft \in Nat
      /\ \A m \in Releases : m = Closed => Behind(m)'
  BY DEF Closed, None, Releases, TypeOK, Behind
<1>1. CASE UNCHANGED <<slot, life, flushLeft, said>> /\ (late => late')
  BY <1>1, DrainsOn
<1>2. CASE CheckStarts \/ FetchFails \/ MarkerFails \/ Published
  BY <1>1, <1>2 DEF CheckStarts, FetchFails, MarkerFails, Published, process
<1>3. CASE FetchReturns
  <2>1. Enqueue(Closed) \/ UNCHANGED slot  BY <1>3 DEF FetchReturns
  <2>2. life # "stopped" /\ UNCHANGED <<life, flushLeft, late, said>>
    BY <1>3 DEF FetchReturns, CheckNeedsProcess, Up
  <2> QED  BY <1>0, <2>1, <2>2, DrainsOn
<1>4. CASE MarkerSaved
  <2>1. /\ life # "stopped" /\ UNCHANGED <<life, flushLeft, late>>
        /\ life = "flushing" => late
        /\ latest \in Versions /\ latest \in Releases
    BY <1>4 DEF MarkerSaved, CheckNeedsProcess, OnlyLateChecks, Up, MarkerCovers, Releases
  <2>2. CASE UNCHANGED <<slot, said>>  BY <1>1, <2>1, <2>2
  <2>3. CASE Announce(latest)
    <3>1. Enqueue(latest) /\ said' = [said EXCEPT ![latest] = IF @ < 2 THEN @ + 1 ELSE @]
      BY <2>3 DEF Announce
    <3>2. /\ said \in [Versions -> 0..2] /\ said'[latest] > 0
          /\ \A v \in Versions : said[v] > 0 => said'[v] > 0
      BY <2>1, <3>1 DEF TypeOK
    <3>3. life = "flushing" => Behind(latest)'
      <4>1. latest' = latest  BY <1>4 DEF MarkerSaved
      <4> QED  BY <2>1, <3>2, <4>1 DEF Behind
    <3> QED
      <4>1. latest' = latest  BY <1>4 DEF MarkerSaved
      <4>2. \E m \in Releases : Enqueue(m) /\ (life = "flushing" => Behind(m)')
        BY <2>1, <3>1, <3>3, <4>1 DEF Behind
      <4> QED  BY <2>1, <3>2, <4>2, DrainsOn
  <2> QED  BY <1>4, <2>2, <2>3 DEF MarkerSaved
<1>5. CASE MarkerRestored
  <2>1. /\ Enqueue(Closed) /\ life # "stopped"
        /\ UNCHANGED <<life, flushLeft, late, said>>
    BY <1>5 DEF MarkerRestored, CheckNeedsProcess, Up
  <2> QED  BY <1>0, <2>1, DrainsOn
<1>6. CASE life' \notin {"flushing", "stopped"}
  BY <1>6 DEF ShutdownDrains, StopLeaves
<1>7. CASE \/ \E on \in BOOLEAN : SetUpdates(on)
           \/ PrepareShutdown \/ CheckAwaited \/ Kill \/ Start
  BY <1>6, <1>7 DEF SetUpdates, PrepareShutdown, CheckAwaited, Kill, Ends, Start
<1>8. CASE MarkerReset
  <2>1. /\ Len(queue') = Len(queue) + 1 /\ queue'[Len(queue')] = Closed
        /\ flushLeft' = Len(queue') /\ life' = "flushing"
    BY <1>0, <1>8, EnqueueIsFinal DEF MarkerReset
  <2> QED  BY <1>0, <2>1 DEF ShutdownDrains, StopLeaves
<1>9. CASE Delivers
  <2>1. /\ Len(queue) > 0 /\ Len(queue') = Len(queue) - 1
        /\ \A i \in 1..Len(queue') : queue'[i] = queue[i + 1]
        /\ dropped' \/ sent' = queue[1]
    BY <1>9, DeliveryKeepsClosed
  <2>2. /\ UNCHANGED <<life, late, said>> /\ life # "stopped"
        /\ flushLeft' = IF flushLeft = 0 THEN 0 ELSE flushLeft - 1
    BY <1>9 DEF Delivers, Up
  <2> SUFFICES ASSUME life = "flushing" PROVE ShutdownDrains'
    BY <2>2 DEF ShutdownDrains, StopLeaves
  <2>4. /\ flushLeft <= Len(queue)
        /\ flushLeft > 0 => queue[flushLeft] = Closed
        /\ \A i \in 1..Len(queue) : i > flushLeft => Behind(queue[i])
    BY DEF ShutdownDrains
  <2>5. \A i \in 1..Len(queue') :
          i > flushLeft' => i + 1 > flushLeft /\ i + 1 \in 1..Len(queue)
    BY <1>0, <2>1, <2>2
  <2>6. \A i \in 1..Len(queue') : i > flushLeft' => Behind(queue[i + 1])
    BY <2>4, <2>5
  <2>7. flushLeft' = 0 => dropped' \/ Behind(queue[1])
    <3>1. CASE flushLeft = 0  BY <1>0, <2>1, <2>4, <3>1
    <3>2. CASE flushLeft = 1  BY <2>4, <3>2 DEF Behind
    <3> QED  BY <1>0, <2>2, <3>1, <3>2
  <2>8. flushLeft' <= Len(queue')  BY <1>0, <2>1, <2>2, <2>4
  <2>9. flushLeft' > 0 => queue'[flushLeft'] = Closed
    <3> SUFFICES ASSUME flushLeft' > 0 PROVE queue'[flushLeft'] = Closed  OBVIOUS
    <3>1. flushLeft' = flushLeft - 1 /\ flushLeft' \in 1..Len(queue')
      BY <1>0, <2>1, <2>2, <2>8
    <3>2. queue'[flushLeft'] = queue[flushLeft' + 1]  BY <2>1, <3>1
    <3> QED  BY <1>0, <2>4, <3>1, <3>2
  <2>10. \A i \in 1..Len(queue') : i > flushLeft' =>
           queue'[i] = Closed \/ (late' /\ queue'[i] \in Versions /\ said'[queue'[i]] > 0)
    BY <2>1, <2>2, <2>6 DEF Behind
  <2>11. flushLeft' = 0 => dropped' \/ (sent' = Closed
             \/ (late' /\ sent' \in Versions /\ said'[sent'] > 0))
    BY <2>1, <2>2, <2>7 DEF Behind
  <2> QED  BY <2>8, <2>9, <2>10, <2>11 DEF ShutdownDrains, Behind
<1>10. CASE Exit
  <2>1. /\ life' = "stopped" /\ UNCHANGED <<sent, dropped, late, said>>
        /\ life = "flushing" /\ flushLeft = 0
    BY <1>10 DEF Exit, Ends
  <2> QED  BY <2>1 DEF ShutdownDrains, StopLeaves, Behind
<1> QED
  BY <1>2, <1>3, <1>4, <1>5, <1>7, <1>8, <1>9, <1>10 DEF Next

----------------------------------------------------------------------------
LEMMA StutterStep == IInv /\ UNCHANGED vars => IInv'
<1> SUFFICES ASSUME IInv, UNCHANGED vars PROVE IInv'  OBVIOUS
<1> USE DEF vars, process, slot
<1>1. TypeOK' /\ ClosedAtLast' = ClosedAtLast  BY SlotKept DEF IInv, TypeOK
<1>2. (AnnouncedOnce /\ MarkerCovers)'  BY DEF IInv, AnnouncedOnce, MarkerCovers
<1>3. (OptOutCloses /\ CheckNeedsProcess /\ OnlyLateChecks)'
  BY <1>1 DEF IInv, OptOutCloses, CheckNeedsProcess, OnlyLateChecks, Up
<1>4. (ShutdownDrains /\ StopLeaves)'  BY DrainsOn DEF IInv
<1> QED  BY <1>1, <1>2, <1>3, <1>4 DEF IInv

\* The invariant holds in every behaviour of the monitor.
THEOREM Invariance == Spec => []IInv
<1>1. IInv /\ Next => IInv'
  <2> SUFFICES ASSUME IInv, Next PROVE IInv'  OBVIOUS
  <2>1. TypeOK'  BY TypeStep DEF IInv
  <2>2. (MarkerCovers /\ AnnouncedOnce)'  BY MarkerStep DEF IInv
  <2> QED  BY <2>1, <2>2, SlotStep, DrainStep DEF IInv
<1> QED  BY InitIInv, StutterStep, <1>1, PTL DEF Spec

----------------------------------------------------------------------------
(* The results.                                                            *)

\* Every variable stays in its type.
THEOREM UpdateTypeCorrect == Spec => []TypeOK
<1>1. IInv => TypeOK  BY DEF IInv
<1> QED  BY <1>1, Invariance, PTL

\* runCheck(): one announcement per version between two resets of the marker, even
\* with checks during a shutdown, failed writes and kills.
THEOREM UpdateAnnouncedOnce == Spec => []AnnouncedOnce
<1>1. IInv => AnnouncedOnce  BY DEF IInv
<1> QED  BY <1>1, Invariance, PTL

\* clearNotification() and the policy generation: opting out is final.
THEOREM UpdateOptOutCloses == Spec => []OptOutCloses
<1>1. IInv => OptOutCloses  BY DEF IInv
<1> QED  BY <1>1, Invariance, PTL

\* shutdown(): whether or not the marker could be written, an offer stands after the exit
\* only if its retraction was lost or a check that began during the shutdown made it, and
\* then the marker covers it.
THEOREM UpdateCleanStopCloses == Spec => []CleanStopCloses
<1>1. IInv => CleanStopCloses
  <2> SUFFICES ASSUME IInv, life = "stopped", sent # Closed, ~dropped
               PROVE  late /\ sent <= marker
    BY DEF CleanStopCloses
  <2>1. late /\ sent \in Versions /\ said[sent] > 0  BY DEF IInv, StopLeaves, Behind
  <2> QED  BY <2>1 DEF IInv, MarkerCovers
<1> QED  BY <1>1, Invariance, PTL

=============================================================================
