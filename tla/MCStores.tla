------------------------------- MODULE MCStores -------------------------------
(* The push subscriptions and the transcript store share nothing: a behaviour is *)
(* one of either, and the other stays in one initial state.                       *)
EXTENDS PushSubscriptions

CONSTANTS
  localhost, example, owner, phone, tablet, k1, k2,    \* hosts, devices and keys
  Ino, FileCap, Sample, Reader, Contents, MaxWrites, a, b       \* a and b: texts of lines

VARIABLES part, was, ino, path, cache, obj, load, req

\* The lines that the transcripts may have.
Line == UNION {{c.text[k] : k \in DOMAIN c.text} : c \in Contents}

\* There are finitely many inodes and requests, and a file is as long as its size says.
ASSUME TranscriptsAssumption ==
  /\ IsFiniteSet(Ino) /\ IsFiniteSet(Reader) /\ FileCap \in Nat /\ Sample \in Nat
  /\ \A c \in Contents : c.size \in Nat /\ c.text \in Seq(Line) /\ c.size \div 2 <= Len(c.text)

\* A file on disk was written by an earlier process, with at most MaxSubs entries; an
\* endpoint that the browser makes is new; an owner that is written is not the absence of one,
\* and the bridge tells a device from the other kinds of owners, whatever its name.
ASSUME PushAssumption ==
  /\ IsFiniteSet(InitialFile) /\ MaxSubs \in Nat /\ Cardinality(InitialFile) <= MaxSubs
  /\ MaxEndpoints \in Nat
  /\ \A x \in InitialFile : x = Entry(x.ep, x.owner) /\ x.ep \notin Endpoint \union {NoEndpoint}
  /\ None \notin {"local", "unrestricted"} /\ Me.device \notin {"local", "unrestricted"}

(***************************************************************************)
(* Push subscriptions.                                                     *)
(***************************************************************************)

Base == [loopbackBind |-> TRUE, publicHosts |-> {example}, origins |-> {}, scheme |-> "https",
         trustedUser |-> owner, deviceHeader |-> FALSE, allow |-> {}, key |-> k1]

\* Open; with device authorisation for the phone; for the tablet only, and with
\* another key; without keys.
MCConfig ==
  {Base, [Base EXCEPT !.deviceHeader = TRUE, !.allow = {phone, tablet}],
   [Base EXCEPT !.deviceHeader = TRUE, !.allow = {tablet}, !.key = k2],
   [Base EXCEPT !.key = NoKey]}

\* The phone, through the proxy.
MCMe == [host |-> localhost, fwd |-> example, proxied |-> TRUE,
         origin |-> [scheme |-> "https", host |-> example], native |-> FALSE,
         login |-> owner, device |-> phone]

\* The tablet's subscription, and one in the old format.
MCInitialFile == {Entry(100, tablet), Entry(101, None)}

(***************************************************************************)
(* Transcripts: a torn line, its completion or rewriting, growth, and a    *)
(* file above the cap.                                                     *)
(***************************************************************************)
MCContents ==
  {[text |-> <<a, a>>, size |-> 3], [text |-> <<a, a, a>>, size |-> 6], [text |-> <<a, b, a, b>>, size |-> 8]}

store == <<was, ino, path, cache, obj, load, req>>
Transcripts == INSTANCE TranscriptStore WITH file <- ino

MCInit ==
  /\ part \in {"push", "transcripts"} /\ Init /\ Transcripts!Init
  /\ part # "push" => cfg = Base /\ file = InitialFile
  /\ part = "push" => cfg.key = k1      \* the first process admits the phone
  /\ part # "transcripts" => (path = CHOOSE i \in Ino : TRUE) /\ was[1].size = 3

MCNext ==
  \/ part = "push" /\ Next /\ UNCHANGED <<store, part>>
  \/ part = "transcripts" /\ Transcripts!Next /\ UNCHANGED <<vars, part>>

MCSpec == MCInit /\ [][MCNext]_<<vars, store, part>>

CacheIsTrue == Transcripts!CacheIsTrue
NoMixedGenerations == Transcripts!NoMixedGenerations
=============================================================================
