---------------------------- MODULE JsonReporter ----------------------------
(***************************************************************************)
(* class JSONReporter, seen from the document it writes: which piece of    *)
(* JSON may follow what has been written already. The text of the context  *)
(* block and of a run is well formed on its own and left out.              *)
(***************************************************************************)
EXTENDS Naturals

\* written: none, open (context written, list of benchmarks begun), items (at least
\* one benchmark in the list), closed, unopened (an end without a beginning),
\* malformed.
Written == {"none", "open", "items", "closed", "unopened", "malformed"}

\* reported_before is history: the reporter had reported runs before this document.
NewReporter == [first_report_ |-> TRUE, written |-> "none", reported_before |-> FALSE]

ReporterType == [first_report_ : BOOLEAN, written : Written, reported_before : BOOLEAN]

\* Another suite, another document: the output file is opened afresh, the reporter is
\* what it was.
NewDocument(rep) ==
  [rep EXCEPT !.written = "none", !.reported_before = ~rep.first_report_]

ReportContext(rep) ==
  [rep EXCEPT !.written = IF @ = "none" THEN "open" ELSE "malformed"]

\* Bug variant: first_report_ is never cleared.
ReportRunsAlwaysFirst(rep, n) ==
  IF n = 0 THEN rep
  ELSE [rep EXCEPT !.written = IF rep.written = "open" THEN "items" ELSE "malformed"]

\* A comma is written unless this is the first report of the reporter's life.
ReportRuns(rep, n) ==
  IF n = 0 THEN rep
  ELSE [rep EXCEPT
          !.first_report_ = FALSE,
          !.written = IF rep.written = (IF rep.first_report_ THEN "open" ELSE "items")
                      THEN "items" ELSE "malformed"]

Finalize(rep) ==
  [rep EXCEPT !.written = IF @ \in {"open", "items"} THEN "closed"
                          ELSE IF @ = "none" THEN "unopened" ELSE "malformed"]
=============================================================================
