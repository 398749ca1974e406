------------------------------- MODULE Grades -------------------------------
(***************************************************************************)
(* Classifications, severities and findings, as the probes use them        *)
(* (core/types.py, probes/_severity.py).  A finding keeps what a property  *)
(* can tell apart: its classification and its severity.                    *)
(***************************************************************************)
EXTENDS Integers

\* Classification, from the worst to the harmless.
Classes == {"sangat-tinggi", "tinggi", "sederhana", "rendah", "pqc-ready",
            "info", "error"}

Severities == {"crit", "high", "med", "low", "info"}

\* sev_for: the severity that goes with a classification.
SevFor(c) ==
  CASE c = "sangat-tinggi" -> "crit"
    [] c = "tinggi"        -> "high"
    [] c = "sederhana"     -> "med"
    [] c = "rendah"        -> "low"
    [] OTHER               -> "info"

\* Severity.numeric
Numeric(s) ==
  CASE s = "info" -> 0 [] s = "low" -> 1 [] s = "med" -> 2
    [] s = "high" -> 3 [] s = "crit" -> 4

Finding(c, s) == [cls |-> c, sev |-> s]

\* A finding whose severity follows from its classification.
Graded(c) == Finding(c, SevFor(c))

Note == Graded("info")

Findings == [cls : Classes, sev : Severities]
=============================================================================
