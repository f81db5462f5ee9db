----------------------------- MODULE MCHistory -----------------------------
(***************************************************************************)
(* HistoryWriter with bytes counted in small units, so that a file holds   *)
(* two to five rows, under a console whose pages and gates reach two rows  *)
(* into a ring of three.                                                   *)
(***************************************************************************)
EXTENDS ConsoleGate

ShortAndLong == {1, 2}

Quiet(repo, source) ==
  [repo |-> repo, source |-> source, mark |-> All, failed |-> FALSE, forced |-> FALSE,
   upToDate |-> source = Cron]
Marked(repo, mark) == [Quiet(repo, "webhook") EXCEPT !.mark = mark]

\* Buttons among idle reconciles of the same repository and rows of another one.
Rows == <<Marked("r1", "del"), Quiet("r1", Cron), Quiet("r1", Cron),
          Marked("r2", "hold"), Quiet("r2", "webhook")>>
=============================================================================
