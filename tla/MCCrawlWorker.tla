---------------------------- MODULE MCCrawlWorker ----------------------------
(* Instances of CrawlWorker for TLC. *)
EXTENDS CrawlWorker, TLC

CONSTANTS a, b, c, d, f1, f2

(* a links to b and c, b to d and back, c to itself and d.                   *)
Diamond == (a :> <<b, c>>) @@ (b :> <<a, d>>) @@ (c :> <<c, d>>) @@ (d :> <<>>)

(* c redirects to b and d to a: they have their file names.                  *)
Redirected == (a :> f1) @@ (b :> f2) @@ (c :> f2) @@ (d :> f1)
=============================================================================
