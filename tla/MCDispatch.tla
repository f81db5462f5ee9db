----------------------------- MODULE MCDispatch -----------------------------
(***************************************************************************)
(* Dispatch with three GitLab instances, one named like its type, or with  *)
(* the two CodeCommit regions of docs/ADVANCE.md.                          *)
(***************************************************************************)
EXTENDS Dispatch, TLC

CONSTANTS p1, p2

Instances == {"codecommit-eu", "gitlab", "gitlab-main", "gitlab-old"}
InstanceType == [p \in Instances |-> IF p = "codecommit-eu" THEN "codecommit" ELSE "gitlab"]
\* gitlab-main on a host of its own, or behind the one of gitlab-old.
InstanceURLs == {
  ("codecommit-eu" :> NoHost @@ "gitlab" :> "host1" @@ "gitlab-main" :> main
   @@ "gitlab-old" :> "host2") : main \in {"host2", "host3"}}

Regions == {"codecommit-eu", "codecommit-us", "gitlab-main"}
RegionType == ("codecommit-eu" :> "codecommit" @@ "codecommit-us" :> "codecommit"
               @@ "gitlab-main" :> "gitlab")
RegionURLs == {
  "codecommit-eu" :> NoHost @@ "codecommit-us" :> NoHost @@ "gitlab-main" :> "main"}

TwoPaths == {p1, p2}
PathSymmetry == Permutations(TwoPaths)
=============================================================================
