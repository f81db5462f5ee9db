---------------------------- MODULE ConsoleGate ----------------------------
(***************************************************************************)
(* The console over the ring of HistoryWriter: what a page shows, and the  *)
(* two gates that let its restore and force buttons through.  A button     *)
(* works while the gate finds, in a window of its own, a row that says the *)
(* same (repository, destination, ref, tip: the mark of the row).          *)
(*                                                                         *)
(* Reading the ring changes nothing, so the module adds no step: what can  *)
(* go wrong is that the page and the gate look through different windows.  *)
(***************************************************************************)
EXTENDS HistoryWriter

CONSTANTS
  Repo,
  Trigger,   \* sources a row can have besides the cron
  Mark,      \* what a restorable delete or a withheld push can name
  All,       \* a filter that is off; no repository, trigger or mark
  KindOf,    \* what each row says
  Limit,     \* page sizes a request can ask for
  MaxPage    \* maxHistoryLimit

Cron == "cron"

Kind == [repo : Repo, source : Trigger \cup {Cron}, mark : Mark \cup {All},
         failed : BOOLEAN, forced : BOOLEAN, upToDate : BOOLEAN]

ASSUME ConsoleSetup ==
  /\ \A n \in 1..MaxRows : KindOf[n] \in Kind
  /\ All \notin Repo \cup Trigger \cup Mark \cup {Cron}
  /\ Limit \cup {MaxPage} \subseteq Nat \ {0}

\* isRoutineNoop of a row of the reconcile: it ran and found nothing to do.
Routine(k) == k.source = Cron /\ k.upToDate

Passes(q, k) ==
  /\ q.failures => k.failed
  /\ q.forced => k.forced
  /\ q.repo \in {All, k.repo}
  /\ q.source \in {All, k.source}
  /\ q.hideRoutine => ~Routine(k)

\* Places of the ring behind i that a reader with query q counts before it.
Newer(q, i) == {j \in DOMAIN ring : j > i /\ Passes(q, KindOf[ring[j]])}

\* Recent: the newest q.limit entries of the ring that pass, as places in it.
Recent(q) == {i \in DOMAIN ring : Passes(q, KindOf[ring[i]]) /\ Cardinality(Newer(q, i)) < q.limit}

PageUncapped(q) == q  \* mutant
\* historyHandler caps what a page may ask for.
Page(q) == [q EXCEPT !.limit = IF q.limit > MaxPage THEN MaxPage ELSE q.limit]

GateUnfiltered(repo) ==  \* mutant: the window before it hid idle reconciles
  [limit |-> MaxPage, repo |-> repo, source |-> All,
   failures |-> FALSE, forced |-> FALSE, hideRoutine |-> FALSE]
\* gateQuery
GateQuery(repo) ==
  [limit |-> MaxPage, repo |-> repo, source |-> All,
   failures |-> FALSE, forced |-> FALSE, hideRoutine |-> TRUE]

\* matchingDeleteExists and matchingHoldExists
Accepts(k) == \E i \in Recent(GateQuery(k.repo)) : KindOf[ring[i]].mark = k.mark

-----------------------------------------------------------------------------
\* A page narrowed by nothing but the repository, the idle reconciles shown or not.
PlainQuery == [limit : Limit, repo : Repo \cup {All}, source : {All},
               failures : {FALSE}, forced : {FALSE}, hideRoutine : BOOLEAN]

\* gateQuery: "no button is clickable without working".  True of every page that is
\* narrowed to no trigger and to no kind of outcome, and of every row but one that
\* withheld a ref and was still recorded as an idle reconcile.
ButtonsWork == \A q \in PlainQuery :
  \A i \in Recent(Page(q)) :
    LET k == KindOf[ring[i]] IN k.mark # All /\ ~Routine(k) => Accepts(k)
=============================================================================
