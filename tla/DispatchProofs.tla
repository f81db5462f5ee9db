--------------------------- MODULE DispatchProofs ---------------------------
(***************************************************************************)
(* Where an event goes, for any providers, hosts, paths and any number of  *)
(* repositories.                                                           *)
(*                                                                         *)
(* What validate has let through (ConfigInv) is kept while repositories    *)
(* are added and never changes once the service runs; each entry point is  *)
(* then judged by the lookup it makes in such a configuration.             *)
(***************************************************************************)
EXTENDS Dispatch, FiniteSetTheorems, WellFoundedInduction, SequenceTheorems, TLAPS

\* No endpoint twice, and a pinned retry is one the direction allows.
Accepted(rs) ==
  /\ \A i, j \in DOMAIN rs, s, t \in Side :
       /\ rs[i].provider[s] = rs[j].provider[t]
       /\ rs[i].path[s] = rs[j].path[t]
       => i = j /\ s = t
  /\ \A i \in DOMAIN rs : rs[i].retry # "" => rs[i].direction \in {"bidirectional", rs[i].retry}

ConfigInv ==
  /\ baseURL \in BaseURLs
  /\ repos \in Seq(Repo)
  /\ Len(repos) <= MaxRepos
  /\ Accepted(repos)
  /\ serving \in BOOLEAN
  /\ last # NoEvent => serving

EventInv ==
  /\ NarrowedToSender /\ ReachesOwner /\ SQSReachesOwner
  /\ RowWritesItsSide /\ AutoRetryRuns

DispatchInv == ConfigInv /\ last \in {NoEvent} \cup Event /\ EventInv

-----------------------------------------------------------------------------
(* Lookups.                                                                *)

\* A non-empty set of indices has a least one.
LEMMA LeastIndex ==
  ASSUME NEW T \in SUBSET Nat, T # {}
  PROVE  Min(T) \in T
  <1> DEFINE R == {ss \in Nat \X Nat : ss[1] < ss[2]}
  <1>1. IsWellFoundedOn(R, Nat)
    BY NatLessThanWellFounded DEF OpToRel
  <1> HIDE DEF R
  <1>2. PICK m \in T : \A k \in T : ~ <<k, m>> \in R
    BY <1>1, WFMin
  <1>3. ASSUME NEW k \in T PROVE m <= k
    <2>1. k < m => <<k, m>> \in R
      BY DEF R
    <2>2. QED
      BY <1>2, <2>1
  <1>4. QED
    BY <1>3 DEF Min

\* A lookup finds a repository that matches, or says there is none.
LEMMA FirstHit ==
  ASSUME repos \in Seq(Repo), Len(repos) <= MaxRepos, NEW hits \in SUBSET DOMAIN repos
  PROVE  /\ First(hits) \in 0..MaxRepos
         /\ First(hits) # 0 <=> hits # {}
         /\ First(hits) # 0 => First(hits) \in hits
  <1>1. Len(repos) \in Nat /\ DOMAIN repos = 1..Len(repos)
    BY LenProperties
  <1>2. hits # {} => Min(hits) \in hits
    BY <1>1, LeastIndex
  <1>3. QED
    BY <1>1, <1>2, DispatchSetup DEF First

\* The host index only ever narrows to the provider the event came from.
LEMMA ResolveSender ==
  ASSUME baseURL \in BaseURLs, NEW p \in Provider,
         NEW url \in {baseURL[p], NoHost, Elsewhere}
  PROVE  Resolve(url, TypeOf[p]) \in {p, TypeOf[p]}
  <1>1. CASE url = NoHost \/ Cardinality(Claimants(url)) # 1
    BY <1>1 DEF Resolve
  <1>2. CASE url # NoHost /\ Cardinality(Claimants(url)) = 1
    <2>1. IsFiniteSet(Claimants(url))
      BY DispatchSetup, FS_Subset DEF Claimants
    <2>2. PICK q : Claimants(url) = {q}
      BY <1>2, <2>1, FS_Singleton
    <2>3. q \in Provider /\ baseURL[q] = url
      BY <2>2 DEF Claimants
    <2>4. url = baseURL[p]
      BY <1>2, <2>3, DispatchSetup
    <2>5. q = p
      BY <2>2, <2>4 DEF Claimants
    <2>6. QED
      BY <1>2, <2>2, <2>5 DEF Resolve
  <1>3. QED
    BY <1>1, <1>2

\* A repository found has two sides with a provider and a path each.
LEMMA RepoFields ==
  ASSUME repos \in Seq(Repo), NEW i \in DOMAIN repos
  PROVE  /\ \A s \in Side : repos[i].provider[s] \in Provider /\ repos[i].path[s] \in Path
         /\ repos[i].direction \in OneWay \cup {"bidirectional"}
         /\ repos[i].retry \in OneWay \cup {""}
  <1>1. repos[i] \in Repo
    BY ElementOfSeq, LenProperties
  <1>2. QED
    BY <1>1 DEF Repo

-----------------------------------------------------------------------------
(* The configuration.                                                      *)

LEMMA DistinctEndpoints ==
  ASSUME ConfigInv, NEW i \in DOMAIN repos, NEW j \in DOMAIN repos,
         NEW s \in Side, NEW t \in Side,
         repos[i].provider[s] = repos[j].provider[t], repos[i].path[s] = repos[j].path[t]
  PROVE  i = j /\ s = t
  <1>1. Accepted(repos)
    BY DEF ConfigInv
  <1>2. \A m, n \in DOMAIN repos, u, v \in Side :
          /\ repos[m].provider[u] = repos[n].provider[v]
          /\ repos[m].path[u] = repos[n].path[v]
          => m = n /\ u = v
    BY <1>1, Zenon DEF Accepted
  <1>3. \A u, v \in Side :
          /\ repos[i].provider[u] = repos[j].provider[v]
          /\ repos[i].path[u] = repos[j].path[v]
          => i = j /\ u = v
    BY <1>2
  <1>4. /\ repos[i].provider[s] = repos[j].provider[t]
        /\ repos[i].path[s] = repos[j].path[t]
        => i = j /\ s = t
    BY <1>3
  <1>5. QED
    BY <1>4

\* No event changes it.
LEMMA ConfigKept ==
  ASSUME ConfigInv, serving, UNCHANGED <<baseURL, repos, serving>>
  PROVE  ConfigInv'
  BY DEF ConfigInv

\* What is added to a configuration collides with nothing in it.
LEMMA ConfigureStep ==
  ASSUME ConfigInv, NEW r \in Repo, Configure(r)
  PROVE  ConfigInv'
  <1>1. /\ repos \in Seq(Repo) /\ repos' = Append(repos, r)
        /\ UNCHANGED <<baseURL, serving, last>>
    BY DEF ConfigInv, Configure
  <1>2. /\ repos' \in Seq(Repo)
        /\ Len(repos) \in Nat
        /\ Len(repos') = Len(repos) + 1
        /\ DOMAIN repos = 1..Len(repos)
        /\ DOMAIN repos' = 1..(Len(repos) + 1)
        /\ \A i \in DOMAIN repos : repos'[i] = repos[i]
        /\ repos'[Len(repos) + 1] = r
    BY <1>1, LenProperties, AppendProperties
  <1>3. Len(repos') <= MaxRepos
    BY <1>2, DispatchSetup DEF Configure
  <1>4. \A i \in DOMAIN repos' : i \in DOMAIN repos \/ i = Len(repos) + 1
    BY <1>2
  <1>5. \A i, j \in DOMAIN repos', s, t \in Side :
          /\ repos'[i].provider[s] = repos'[j].provider[t]
          /\ repos'[i].path[s] = repos'[j].path[t]
          => i = j /\ s = t
    <2> SUFFICES ASSUME NEW i \in DOMAIN repos', NEW j \in DOMAIN repos',
                        NEW s \in Side, NEW t \in Side,
                        repos'[i].provider[s] = repos'[j].provider[t],
                        repos'[i].path[s] = repos'[j].path[t]
                 PROVE  i = j /\ s = t
      OBVIOUS
    <2>1. CASE i \in DOMAIN repos /\ j \in DOMAIN repos
      <3>1. /\ repos[i].provider[s] = repos[j].provider[t]
            /\ repos[i].path[s] = repos[j].path[t]
        BY <1>2, <2>1
      <3>2. QED
        BY <2>1, <3>1, DistinctEndpoints
    <2>2. CASE i = Len(repos) + 1 /\ j = Len(repos) + 1
      BY <1>2, <2>2 DEF Configure, Valid, Side
    <2>3. CASE i \in DOMAIN repos /\ j = Len(repos) + 1
      BY <1>2, <2>3 DEF Configure, Valid, EndpointsFree
    <2>4. CASE i = Len(repos) + 1 /\ j \in DOMAIN repos
      BY <1>2, <2>4 DEF Configure, Valid, EndpointsFree
    <2>5. QED
      BY <1>4, <2>1, <2>2, <2>3, <2>4
  <1>6. \A i \in DOMAIN repos' :
          repos'[i].retry # "" => repos'[i].direction \in {"bidirectional", repos'[i].retry}
    BY <1>2, <1>4 DEF ConfigInv, Accepted, Configure, Valid
  <1>7. QED
    <2>1. Accepted(repos')
      BY <1>5, <1>6 DEF Accepted
    <2>2. QED
      BY <1>1, <1>2, <1>3, <2>1 DEF ConfigInv

-----------------------------------------------------------------------------
(* The events.                                                             *)

\* SyncByTarget.
LEMMA WebhookStep ==
  ASSUME ConfigInv, NEW p \in Provider, NEW path \in Path,
         NEW url \in {baseURL[p], NoHost, Elsewhere}, Webhook(p, path, url)
  PROVE  ConfigInv' /\ last' \in Event /\ EventInv'
  <1> DEFINE key  == IF TypeOf[p] = "gitlab" THEN Resolve(url, TypeOf[p]) ELSE TypeOf[p]
             hits == {k \in DOMAIN repos : \E s \in Side : Names(repos[k], s, key, path)}
             i    == First(hits)
             from == IF i # 0 /\ Names(repos[i], "target", key, path) THEN "target" ELSE "source"
  <1>1. /\ serving /\ UNCHANGED <<baseURL, repos, serving>>
        /\ Found("webhook", <<p, path>>, key, "auto", i, from, TRUE)
    BY DEF Webhook, Quiet
  <1>2. key \in {p, TypeOf[p]}
    BY ResolveSender DEF ConfigInv
  <1>3. /\ i \in 0..MaxRepos
        /\ i # 0 => i \in hits
        /\ hits # {} => i # 0
    <2>1. hits \subseteq DOMAIN repos
      OBVIOUS
    <2>2. QED
      BY <2>1, FirstHit DEF ConfigInv
  <1>4. from \in Side
    BY DEF Side
  <1> HIDE DEF key, hits, i, from
  <1>5. /\ last' \in Event
        /\ last'.kind = "webhook" /\ last'.at = <<p, path>> /\ last'.key = key
        /\ last'.repo = i /\ last'.from = from
    <2>1. /\ <<p, path>> \in Provider \X Path
          /\ key \in Provider \cup {TypeOf[q] : q \in Provider}
          /\ "webhook" \in {"webhook", "sqs", "row", "retry"}
          /\ "auto" \in OneWay \cup {"auto"}
          /\ TRUE \in BOOLEAN
      BY <1>2
    <2>2. i \in 0..MaxRepos /\ Found("webhook", <<p, path>>, key, "auto", i, from, TRUE)
      BY <1>1, <1>3
    <2>3. QED
      BY <1>4, <2>1, <2>2 DEF Found, Event
  <1>6. NarrowedToSender'
    BY <1>2, <1>5 DEF NarrowedToSender, Answers
  <1>7. ASSUME {q \in Provider : Answers(q, key)} = {p}
        PROVE  /\ i # 0 => Owns(i, from, <<p, path>>)
               /\ \A k \in DOMAIN repos, s \in Side :
                    Owns(k, s, <<p, path>>) => k = i /\ s = from
    <2>1. \A k \in DOMAIN repos, s \in Side :
            Names(repos[k], s, key, path) <=> Owns(k, s, <<p, path>>)
      BY <1>7, RepoFields DEF ConfigInv, Names, Owns
    <2>2. i # 0 => i \in DOMAIN repos /\ \E s \in Side : Owns(i, s, <<p, path>>)
      BY <1>3, <2>1 DEF hits
    <2>3. i # 0 => Owns(i, from, <<p, path>>)
      BY <2>1, <2>2 DEF from, Side
    <2>4. ASSUME NEW k \in DOMAIN repos, NEW s \in Side, Owns(k, s, <<p, path>>)
          PROVE  k = i /\ s = from
      <3>1. k \in hits
        BY <2>1, <2>4 DEF hits
      <3>2. i \in DOMAIN repos /\ Owns(i, from, <<p, path>>)
        BY <1>3, <2>2, <2>3, <3>1
      <3>3. QED
        <4>1. /\ repos[k].provider[s] = repos[i].provider[from]
              /\ repos[k].path[s] = repos[i].path[from]
          BY <2>4, <3>2 DEF Owns
        <4>2. QED
          BY <1>4, <3>2, <4>1, DistinctEndpoints
    <2>5. QED
      BY <2>3, <2>4
  <1>8. ReachesOwner'
    BY <1>1, <1>5, <1>7 DEF ReachesOwner, Owns, Answers
  <1>9. SQSReachesOwner' /\ RowWritesItsSide' /\ AutoRetryRuns'
    BY <1>5 DEF SQSReachesOwner, RowWritesItsSide, AutoRetryRuns
  <1>10. QED
    BY <1>1, <1>5, <1>6, <1>8, <1>9, ConfigKept DEF EventInv

\* handleMessage and Sync: with one repository to find, the first is the one.
LEMMA SQSStep ==
  ASSUME ConfigInv, NEW p \in Provider, NEW path \in Path, SQS(p, path)
  PROVE  ConfigInv' /\ last' \in Event /\ EventInv'
  <1> DEFINE i == First(Sources(path))
  <1>1. /\ serving /\ UNCHANGED <<baseURL, repos, serving>>
        /\ Found("sqs", <<p, path>>, p, "auto", i, "source", TRUE)
    BY DEF SQS, Quiet
  <1>2. Sources(path) \subseteq DOMAIN repos
    BY DEF Sources
  <1>3. /\ i \in 0..MaxRepos
        /\ Sources(path) # {} => i \in Sources(path) /\ i # 0
    BY <1>2, FirstHit DEF ConfigInv
  <1> HIDE DEF i
  <1>4. /\ last' \in Event
        /\ last'.kind = "sqs" /\ last'.at = <<p, path>>
        /\ last'.repo = i /\ last'.from = "source"
        /\ last'.ran <=> i # 0 /\ Allows(repos[i], Toward(Other("source")))
    BY <1>1, <1>3 DEF Found, Event, Side
  <1>5. SQSReachesOwner'
    <2> SUFFICES ASSUME NEW k \in DOMAIN repos, Owns(k, "source", <<p, path>>),
                        \A j \in DOMAIN repos : repos[j].path["source"] = path => j = k
                 PROVE  i = k /\ (last'.ran <=> repos[k].direction # "target-to-source")
      BY <1>1, <1>4 DEF SQSReachesOwner, Owns
    <2>1. k \in Sources(path)
      BY DEF Owns, Sources
    <2>2. i = k
      BY <1>3, <2>1 DEF Sources
    <2>3. repos[k].direction \in OneWay \cup {"bidirectional"}
      BY RepoFields DEF ConfigInv
    <2>4. QED
      BY <1>3, <1>4, <2>1, <2>2, <2>3 DEF Allows, Toward, Other, OneWay
  <1>6. QED
    BY <1>1, <1>4, <1>5, ConfigKept
    DEF EventInv, NarrowedToSender, ReachesOwner, RowWritesItsSide, AutoRetryRuns

\* A row of the console: what it wrote is named by its endpoint, and when both sides
\* answer to that name nothing runs.
LEMMA RowStep ==
  ASSUME ConfigInv, NEW i \in DOMAIN repos, NEW s \in Side, NEW legacy \in BOOLEAN,
         Row(i, s, legacy)
  PROVE  ConfigInv' /\ last' \in Event /\ EventInv'
  <1> DEFINE p    == repos[i].provider[s]
             path == repos[i].path[s]
             key  == IF legacy THEN TypeOf[p] ELSE p
             to   == IF Names(repos[i], "target", key, path) THEN "target" ELSE "source"
             ok   == ~Ambiguous(repos[i], key, path)
  <1>1. /\ serving /\ UNCHANGED <<baseURL, repos, serving>>
        /\ Found("row", <<p, path>>, key, "auto", i, Other(to), ok)
    BY DEF Row, Quiet
  <1>2. p \in Provider /\ path \in Path
    BY RepoFields DEF ConfigInv
  <1>3. i \in 0..MaxRepos
    BY LenProperties, DispatchSetup DEF ConfigInv
  <1>4. Names(repos[i], s, key, path)
    BY DEF Names, Answers
  <1>5. ok => to = s
    BY <1>4 DEF Ambiguous, Side
  <1>6. to \in Side /\ Other(to) \in Side /\ Other(Other(to)) = to /\ ok \in BOOLEAN
    BY DEF Side, Other
  <1>7. key \in Provider \cup {TypeOf[q] : q \in Provider}
    BY <1>2
  <1>8. Owns(i, s, <<p, path>>)
    BY DEF Owns
  <1> HIDE DEF p, path, key, to
  <1>9. /\ last' \in Event /\ last'.kind = "row" /\ last'.at = <<p, path>>
        /\ last'.repo = i /\ last'.from = Other(to)
        /\ last'.ran => ok
    <2>1. /\ <<p, path>> \in Provider \X Path
          /\ "row" \in {"webhook", "sqs", "row", "retry"}
          /\ "auto" \in OneWay \cup {"auto"}
      BY <1>2
    <2>2. QED
      BY <1>1, <1>3, <1>6, <1>7, <2>1 DEF Found, Event
  <1>10. RowWritesItsSide'
    BY <1>1, <1>5, <1>6, <1>8, <1>9 DEF RowWritesItsSide, Owns
  <1>11. QED
    BY <1>1, <1>9, <1>10, ConfigKept
    DEF EventInv, NarrowedToSender, ReachesOwner, SQSReachesOwner, AutoRetryRuns

\* Retry: the direction auto resolves to is one the repository has.
LEMMA RetryStep ==
  ASSUME ConfigInv, NEW i \in DOMAIN repos, NEW asked \in OneWay \cup {"auto"},
         Retry(i, asked)
  PROVE  ConfigInv' /\ last' \in Event /\ EventInv'
  <1> DEFINE dir  == IF asked = "auto" THEN AutoDirection(repos[i]) ELSE asked
             from == IF dir = "source-to-target" THEN "source" ELSE "target"
             p    == repos[i].provider[from]
             path == repos[i].path[from]
  <1>1. /\ serving /\ UNCHANGED <<baseURL, repos, serving>>
        /\ Found("retry", <<p, path>>, p, asked, i, from, TRUE)
    BY DEF Retry, Quiet
  <1>2. /\ \A s \in Side : repos[i].provider[s] \in Provider /\ repos[i].path[s] \in Path
        /\ repos[i].direction \in OneWay \cup {"bidirectional"}
        /\ repos[i].retry \in OneWay \cup {""}
    BY RepoFields DEF ConfigInv
  <1>3. i # 0 /\ i \in 0..MaxRepos
    BY LenProperties, DispatchSetup DEF ConfigInv
  <1>4. from \in Side
    BY DEF Side
  <1>5. dir \in OneWay => Toward(Other(from)) = dir
    BY DEF OneWay, Toward, Other
  <1>6. asked = "auto" => dir \in OneWay /\ Allows(repos[i], dir)
    BY <1>2 DEF AutoDirection, Allows, OneWay, ConfigInv, Accepted
  <1>7. p \in Provider /\ path \in Path
    BY <1>2, <1>4
  <1> HIDE DEF dir, from, p, path
  <1>8. /\ last' \in Event /\ last'.kind = "retry" /\ last'.asked = asked
        /\ last'.ran <=> Allows(repos[i], Toward(Other(from)))
    BY <1>1, <1>3, <1>4, <1>7 DEF Found, Event
  <1>9. AutoRetryRuns'
    BY <1>5, <1>6, <1>8 DEF AutoRetryRuns
  <1>10. QED
    BY <1>1, <1>8, <1>9, ConfigKept
    DEF EventInv, NarrowedToSender, ReachesOwner, SQSReachesOwner, RowWritesItsSide

\* With no event there is nothing to say of one.
LEMMA NoEventInv == last = NoEvent => EventInv
  BY DEF NoEvent, EventInv, NarrowedToSender, ReachesOwner, SQSReachesOwner,
         RowWritesItsSide, AutoRetryRuns

-----------------------------------------------------------------------------
LEMMA DispatchInit == Init => DispatchInv
  <1> SUFFICES ASSUME Init PROVE DispatchInv
    OBVIOUS
  <1>1. <<>> \in Seq(Repo) /\ Len(<<>>) = 0 /\ DOMAIN <<>> = {}
    BY EmptySeq
  <1>2. Accepted(<<>>)
    BY <1>1 DEF Accepted
  <1>3. ConfigInv
    <2>1. 0 <= MaxRepos
      BY DispatchSetup
    <2>2. QED
      BY <1>1, <1>2, <2>1 DEF Init, ConfigInv
  <1>4. QED
    BY <1>3, NoEventInv DEF Init, DispatchInv

LEMMA DispatchStep == DispatchInv /\ [Next]_vars => DispatchInv'
  <1> SUFFICES ASSUME DispatchInv, [Next]_vars PROVE DispatchInv'
    OBVIOUS
  <1> USE DEF DispatchInv
  <1>1. ASSUME NEW r \in Repo, Configure(r)
        PROVE  DispatchInv'
    <2>1. last = NoEvent /\ last' = NoEvent
      BY <1>1 DEF ConfigInv, Configure
    <2>2. ConfigInv'
      BY <1>1, ConfigureStep
    <2>3. EventInv'
      BY <2>1 DEF NoEvent, EventInv, NarrowedToSender, ReachesOwner, SQSReachesOwner,
                  RowWritesItsSide, AutoRetryRuns
    <2>4. QED
      BY <2>1, <2>2, <2>3
  <1>2. CASE Serve
    <2>1. last = NoEvent /\ last' = NoEvent /\ UNCHANGED <<baseURL, repos>> /\ serving'
      BY <1>2 DEF ConfigInv, Serve
    <2>2. ConfigInv'
      BY <1>2, <2>1 DEF ConfigInv, Serve
    <2>3. EventInv'
      BY <2>1 DEF NoEvent, EventInv, NarrowedToSender, ReachesOwner, SQSReachesOwner,
                  RowWritesItsSide, AutoRetryRuns
    <2>4. QED
      BY <2>1, <2>2, <2>3
  <1>3. CASE Done
    <2>1. serving /\ UNCHANGED <<baseURL, repos, serving>> /\ last' = NoEvent
      BY <1>3 DEF Done, ConfigInv
    <2>2. EventInv'
      BY <2>1 DEF NoEvent, EventInv, NarrowedToSender, ReachesOwner, SQSReachesOwner,
                  RowWritesItsSide, AutoRetryRuns
    <2>3. QED
      BY <2>1, <2>2, ConfigKept
  <1>4. CASE UNCHANGED vars
    <2>1. EventInv'
      BY <1>4 DEF vars, EventInv, NarrowedToSender, ReachesOwner, SQSReachesOwner,
                  RowWritesItsSide, AutoRetryRuns, Owns
    <2>2. QED
      BY <1>4, <2>1 DEF vars, ConfigInv
  <1>5. CASE Next
    BY <1>1, <1>2, <1>3, <1>5, WebhookStep, SQSStep, RowStep, RetryStep DEF Next
  <1>6. QED
    BY <1>4, <1>5

LEMMA DispatchAlways == Spec => []DispatchInv
  BY DispatchInit, DispatchStep, PTL DEF Spec

\* The configuration stays one that validate accepts, and an event is an event.
THEOREM TypeCorrect == Spec => []TypeOK
  <1>1. DispatchInv => TypeOK
    BY DEF DispatchInv, ConfigInv, Accepted, TypeOK
  <1>2. QED
    BY <1>1, DispatchAlways, PTL

\* However many providers claim a host, a webhook is narrowed to its sender or not at
\* all (HostResolver).
THEOREM Narrowing == Spec => []NarrowedToSender
  <1>1. DispatchInv => NarrowedToSender
    BY DEF DispatchInv, EventInv
  <1>2. QED
    BY <1>1, DispatchAlways, PTL

\* The collision check makes the first match the only one (SyncByTarget).
THEOREM OwnerReached == Spec => []ReachesOwner
  <1>1. DispatchInv => ReachesOwner
    BY DEF DispatchInv, EventInv
  <1>2. QED
    BY <1>1, DispatchAlways, PTL

\* A CodeCommit event is not swallowed while source paths are distinct (Sync).
THEOREM SQSOwnerReached == Spec => []SQSReachesOwner
  <1>1. DispatchInv => SQSReachesOwner
    BY DEF DispatchInv, EventInv
  <1>2. QED
    BY <1>1, DispatchAlways, PTL

\* A button never writes the side its row did not (endpointAmbiguous).
THEOREM RowSide == Spec => []RowWritesItsSide
  <1>1. DispatchInv => RowWritesItsSide
    BY DEF DispatchInv, EventInv
  <1>2. QED
    BY <1>1, DispatchAlways, PTL

\* The hourly retry of an accepted configuration is never refused
\* (resolveAutoDirection).
THEOREM RetryAccepted == Spec => []AutoRetryRuns
  <1>1. DispatchInv => AutoRetryRuns
    BY DEF DispatchInv, EventInv
  <1>2. QED
    BY <1>1, DispatchAlways, PTL
=============================================================================
