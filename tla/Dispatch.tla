------------------------------ MODULE Dispatch ------------------------------
(***************************************************************************)
(* Which repository, and which of its two directions, an event runs: the   *)
(* configuration validate accepts, the host index that narrows a webhook to*)
(* one provider, the first-match lookups of Sync and SyncByTarget (SyncDelete*)
(* and SyncDeleteByTarget look up the same way), the endpoint a console row*)
(* sends back, and the direction of a retry.                               *)
(*                                                                         *)
(* Names and types are values of one kind, as the strings of the code are: *)
(* a provider may be named like a type.  An endpoint is the pair of a      *)
(* provider, written as its name or its type, and a path.                  *)
(***************************************************************************)
EXTENDS Naturals, Sequences, FiniteSets, FiniteSetsExt

CONSTANTS
  Provider,   \* provider names
  TypeOf,     \* ProviderConfig.Type of each
  BaseURLs,   \* the base_url hosts the providers may be given
  Path,       \* repository paths
  NoHost,     \* no base_url, or a payload with no instance URL
  Elsewhere,  \* an instance URL no provider claims
  MaxRepos    \* bound: repositories configured

ASSUME DispatchSetup ==
  /\ MaxRepos \in Nat /\ IsFiniteSet(Provider)
  /\ \A urls \in BaseURLs : DOMAIN urls = Provider /\ \A p \in Provider : urls[p] # Elsewhere
  /\ DOMAIN TypeOf = Provider

Side == {"source", "target"}
Other(s) == IF s = "source" THEN "target" ELSE "source"
OneWay == {"source-to-target", "target-to-source"}
\* The direction that writes side s.
Toward(s) == IF s = "target" THEN "source-to-target" ELSE "target-to-source"

Repo == [provider : [Side -> Provider], path : [Side -> Path],
         direction : OneWay \cup {"bidirectional"}, retry : OneWay \cup {""}]

VARIABLES
  baseURL,  \* ProviderConfig.BaseURL, as normalizeHost reads it
  repos,    \* Config.Repos in the order of the file
  serving,  \* validate has accepted them all
  last      \* the event dispatched last

vars == <<baseURL, repos, serving, last>>

\* at: the endpoint the event is about; key: how it was written; repo and from:
\* the repository found (0 for none) and the side it is mirrored from; ran: no
\* refusal.
Event == [kind : {"none", "webhook", "sqs", "row", "retry"},
          at : Provider \X Path, key : Provider \cup {TypeOf[p] : p \in Provider},
          asked : OneWay \cup {"auto"}, repo : 0..MaxRepos, from : Side, ran : BOOLEAN]
NoEvent == [kind |-> "none"]

Init ==
  /\ baseURL \in BaseURLs
  /\ repos = <<>>
  /\ serving = FALSE
  /\ last = NoEvent

-----------------------------------------------------------------------------
(* config.Load                                                             *)

EndpointsUnchecked(r) == TRUE  \* mutant: no collision check
\* seenEndpoints: nobody else in the file has either endpoint
EndpointsFree(r) == \A i \in DOMAIN repos, s, t \in Side :
  ~(repos[i].provider[s] = r.provider[t] /\ repos[i].path[s] = r.path[t])

\* What validate asks of one repository, given those before it.
Valid(r) ==
  /\ r.provider["source"] # r.provider["target"]
  /\ EndpointsFree(r)
  /\ r.retry # "" => r.direction \in {"bidirectional", r.retry}

Configure(r) ==
  /\ ~serving
  /\ Len(repos) < MaxRepos
  /\ Valid(r)
  /\ repos' = Append(repos, r)
  /\ UNCHANGED <<baseURL, serving, last>>

Serve ==
  /\ ~serving
  /\ repos # <<>>
  /\ serving' = TRUE
  /\ UNCHANGED <<baseURL, repos, last>>

-----------------------------------------------------------------------------
(* The lookups                                                             *)

\* allowsSourceToTarget, allowsTargetToSource, directionAllowed
Allows(r, dir) == r.direction \in {"bidirectional", dir}

\* providerMatches, and endpointMatches once the path is compared
Answers(p, key) == key \in {p, TypeOf[p]}
Names(r, s, key, path) == Answers(r.provider[s], key) /\ r.path[s] = path

Claimants(host) == {p \in Provider : baseURL[p] = host}
FirstClaimant(host, fallback) ==  \* mutant: a host two providers claim keeps one
  IF host = NoHost \/ Claimants(host) = {} THEN fallback
  ELSE CHOOSE p \in Claimants(host) : TRUE
\* HostResolver.Resolve, and dispatchPushEvent's fallback to the route's type
Resolve(host, fallback) ==
  IF host # NoHost /\ Cardinality(Claimants(host)) = 1
    THEN CHOOSE p \in Claimants(host) : TRUE
    ELSE fallback

\* The first, in the order of the file, of the repositories that match.
First(hits) == IF hits = {} THEN 0 ELSE Min(hits)

\* The event runs repository i mirrored from side s, if its direction allows.
Found(kind, at, key, asked, i, s, ok) ==
  last' = [kind |-> kind, at |-> at, key |-> key, asked |-> asked, repo |-> i, from |-> s,
           ran |-> /\ i # 0
                   /\ ok
                   /\ Allows(repos[i], Toward(Other(s)))]

Quiet == serving /\ last = NoEvent

-----------------------------------------------------------------------------
(* The entry points.  One event is looked at at a time: no lookup keeps state. *)

\* SyncByTarget: within a repository the target is looked at before the source.
\* Only a GitLab payload says which instance sent it, and it may not.
Webhook(p, path, url) ==
  LET key == IF TypeOf[p] = "gitlab" THEN Resolve(url, TypeOf[p]) ELSE TypeOf[p]
      i   == First({k \in DOMAIN repos : \E s \in Side : Names(repos[k], s, key, path)})
      s   == IF i # 0 /\ Names(repos[i], "target", key, path) THEN "target" ELSE "source"
  IN
  /\ Quiet
  /\ TypeOf[p] \in {"gitlab", "github"}
  /\ url \in {baseURL[p], NoHost, Elsewhere}
  /\ Found("webhook", <<p, path>>, key, "auto", i, s, TRUE)
  /\ UNCHANGED <<baseURL, repos, serving>>

EitherSide(path) ==  \* mutant: looks at both sides, as SyncByTarget does
  {k \in DOMAIN repos : \E s \in Side : repos[k].path[s] = path}
\* What Sync and SyncDelete find an event by: the source path and nothing else.
Sources(path) == {k \in DOMAIN repos : repos[k].path["source"] = path}

\* handleMessage: an event of CodeCommit carries a repository name and no provider.
SQS(p, path) ==
  /\ Quiet
  /\ TypeOf[p] = "codecommit"
  /\ Found("sqs", <<p, path>>, p, "auto", First(Sources(path)), "source", TRUE)
  /\ UNCHANGED <<baseURL, repos, serving>>

UnambiguousAlways(r, key, path) == FALSE  \* mutant: first match decides
\* endpointAmbiguous
Ambiguous(r, key, path) == \A s \in Side : Names(r, s, key, path)

\* DirectionTo, ForcePush and RestoreRef: the To endpoint of a row of repository i
\* that wrote side s, in the notation of today or in the one of old rows.
Row(i, s, legacy) ==
  LET p    == repos[i].provider[s]
      path == repos[i].path[s]
      key  == IF legacy THEN TypeOf[p] ELSE p
      to   == IF Names(repos[i], "target", key, path) THEN "target" ELSE "source"
  IN
  /\ Quiet
  /\ Found("row", <<p, path>>, key, "auto", i, Other(to), ~Ambiguous(repos[i], key, path))
  /\ UNCHANGED <<baseURL, repos, serving>>

AlwaysTowardSource(r) == "target-to-source"  \* mutant: only the incident's pattern
\* resolveAutoDirection, after an explicit retry_direction
AutoDirection(r) ==
  IF r.retry # "" THEN r.retry
  ELSE IF r.direction = "bidirectional" THEN "target-to-source" ELSE r.direction

\* Retry of repository i.
Retry(i, asked) ==
  LET dir  == IF asked = "auto" THEN AutoDirection(repos[i]) ELSE asked
      from == IF dir = "source-to-target" THEN "source" ELSE "target"
  IN
  /\ Quiet
  /\ Found("retry", <<repos[i].provider[from], repos[i].path[from]>>,
           repos[i].provider[from], asked, i, from, TRUE)
  /\ UNCHANGED <<baseURL, repos, serving>>

Done ==
  /\ last # NoEvent
  /\ last' = NoEvent
  /\ UNCHANGED <<baseURL, repos, serving>>

Next ==
  \/ \E r \in Repo : Configure(r)
  \/ Serve
  \/ \E p \in Provider, path \in Path :
       \/ SQS(p, path)
       \/ \E url \in {baseURL[p], NoHost, Elsewhere} : Webhook(p, path, url)
  \/ \E i \in DOMAIN repos :
       \/ \E s \in Side, legacy \in BOOLEAN : Row(i, s, legacy)
       \/ \E asked \in OneWay \cup {"auto"} : Retry(i, asked)
  \/ Done

Spec == Init /\ [][Next]_vars

-----------------------------------------------------------------------------
\* The type invariant: a configuration validate accepts, no endpoint twice in it, and
\* at most one event.
TypeOK ==
  /\ baseURL \in BaseURLs
  /\ repos \in Seq(Repo)
  /\ Len(repos) <= MaxRepos
  /\ \A i, j \in DOMAIN repos, s, t \in Side :
       /\ repos[i].provider[s] = repos[j].provider[t]
       /\ repos[i].path[s] = repos[j].path[t]
       => i = j /\ s = t
  /\ serving \in BOOLEAN
  /\ last \in {NoEvent} \cup Event

\* The owner of an endpoint: repository i has provider p with that path as side s.
Owns(i, s, at) == repos[i].provider[s] = at[1] /\ repos[i].path[s] = at[2]

\* A webhook is never narrowed to a provider that did not send it, although two may
\* claim one host, none may claim it, and a payload may name none (HostResolver:
\* narrowing at random "mirrors silently in the wrong direction").
NarrowedToSender == last.kind = "webhook" => Answers(last.at[1], last.key)

\* A webhook narrowed to a name that only its sender answers to runs every repository
\* that has this endpoint, mirrored away from it, whatever order the file lists the
\* repositories in and whichever side is looked at first; an endpoint nobody has
\* runs nothing (validate's collision check against SyncByTarget).
ReachesOwner ==
  last.kind = "webhook" /\ {p \in Provider : Answers(p, last.key)} = {last.at[1]} =>
    /\ last.repo # 0 => Owns(last.repo, last.from, last.at)
    /\ \A i \in DOMAIN repos, s \in Side :
         Owns(i, s, last.at) => i = last.repo /\ s = last.from

\* An event of CodeCommit runs the repository it is the source of, away from the
\* source and unless its direction is the other one, whatever targets or other
\* providers have that path too, as long as no second repository has it as its
\* source path (Sync, SyncDelete; DispatchKey is about those that do).
SQSReachesOwner == last.kind = "sqs" => \A i \in DOMAIN repos :
  /\ Owns(i, "source", last.at)
  /\ \A j \in DOMAIN repos : repos[j].path["source"] = last.at[2] => j = i
  => /\ last.repo = i /\ last.from = "source"
     /\ last.ran <=> repos[i].direction # "target-to-source"

\* A button on a history row never writes the side its row did not write, old
\* notation or new, two instances of one type or not (endpointAmbiguous).
RowWritesItsSide == last.kind = "row" /\ last.ran => Owns(last.repo, Other(last.from), last.at)

\* An automatic retry is never refused: what auto resolves to is a direction the
\* repository has, pinned or not (validate's retry_direction check against Retry).
AutoRetryRuns == last.kind = "retry" /\ last.asked = "auto" => last.ran

\* config.go: "(provider name, path) is the dispatch key": an event of CodeCommit
\* about a configured source runs the repository that has it.
DispatchKey ==
  last.kind = "sqs" /\ (\E i \in DOMAIN repos : Owns(i, "source", last.at)) =>
    Owns(last.repo, "source", last.at)
=============================================================================
