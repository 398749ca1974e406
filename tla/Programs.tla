------------------------------ MODULE Programs ------------------------------
(***************************************************************************)
(* What a probe's run() does, as data for the engine of module ProbeRun.   *)
(*                                                                         *)
(* A probe works through items: targets, files, rows of a tool's output.   *)
(* For each item it opens something and goes through turns.  In a turn it  *)
(* awaits an answer for at most `wait' seconds (0: it is there at once, as *)
(* a file's bytes are).  The await can time out, fail with an OSError (the *)
(* peer resets, the port is unreachable, the file cannot be read) or meet  *)
(* the end of the stream.  For each of the three the turn says what the    *)
(* probe's except clauses make of it:                                      *)
(*                                                                         *)
(*   Raises  nothing catches it and run() ends with the exception          *)
(*   Quiet   the item is done, without a finding                           *)
(*   Noted   the same after an INFO finding                                *)
(*   Never   it cannot happen here                                         *)
(*                                                                         *)
(* or, where the probe continues with an empty answer, what it makes of    *)
(* that.                                                                   *)
(*                                                                         *)
(* `judge' says what the probe makes of each answer: the findings it emits *)
(* and whether it then is done with the item ("stop", or "count" when the  *)
(* probe remembers it for its closing summary), goes on to the next turn   *)
(* ("on"), leaves run() ("halt") or raises.  An answer "part" is a first    *)
(* segment: read(n) returns what has arrived.                              *)
(***************************************************************************)
EXTENDS Grades, Sequences

Stop(fs)  == [says |-> fs, next |-> "stop"]
Go(fs)    == [says |-> fs, next |-> "on"]
Count(fs) == [says |-> fs, next |-> "count"]
Halt(fs)  == [says |-> fs, next |-> "halt"]
Raise(fs) == [says |-> fs, next |-> "raise"]

Quiet  == Stop({})
Noted  == Stop({Note})
Raises == Raise({})
Never  == [says |-> {}, next |-> "never"]

Turn(wait, timeout, oserror, eof, judge) ==
  [wait |-> wait, timeout |-> timeout, oserror |-> oserror, eof |-> eof,
   judge |-> judge]

\* What each way out leaves open.  With try/finally nothing stays.
Finally == [stop |-> {}, timeout |-> {}, raise |-> {}, cancel |-> {}]

\* Bound: the most targets, or files, of a probe.
MaxItems == 2

Program(opens, dial, gone, leaves, turns) ==
  [opens |-> opens,    \* the resources it holds while it waits
   dial |-> dial,      \* seconds it waits for the connection
   gone |-> gone,      \* what a failed connection does
   leaves |-> leaves,  \* what each way out leaves open
   items |-> {1},      \* how many items there can be
   yields |-> FALSE,   \* whether it lets the loop run between items
   keeps |-> FALSE,    \* whether its last answer is kept, for a property
   sums |-> [counted \in SUBSET (1..MaxItems) |-> {}],  \* findings after the last item
   turns |-> turns]

Socket(dial, gone, turns)   == Program({"tcp"}, dial, gone, Finally, turns)
Datagram(dial, gone, turns) == Program({"udp"}, dial, gone, Finally, turns)

\* One program for every target of a list, which can be empty.
Each(program) == [program EXCEPT !.items = 0..MaxItems]

\* A program whose result a property compares with a reference.
Compared(program) == [program EXCEPT !.keeps = TRUE]

\* A closing summary over the items that counted.
Summed(program, sums) == [program EXCEPT !.sums = sums]

(***************************************************************************)
(* A probe that walks files.  Path.is_file() raises for an entry that may  *)
(* not be looked at (a directory one may list but not enter); `entry' says *)
(* whether the probe meets that.  An unreadable file is skipped or raises, *)
(* the others are judged by what is in them.  Nothing is awaited.          *)
(***************************************************************************)
Walk(entry, unreadable, judge) ==
  Each(Program({}, 0, entry, Finally,
               << Turn(0, Never, unreadable, Never, judge) >>))

\* The usual walker: an unreadable file is skipped, an entry that cannot be
\* looked at is not foreseen.
Config(judge) == Walk(Raises, Quiet, judge)

\* A probe that looks at one thing of the host without awaiting anything.
Look(absent, judge) == [Walk(absent, Never, judge) EXCEPT !.items = {1}]

(***************************************************************************)
(* A probe that runs a command and awaits its output.  Its own timeout     *)
(* kills the process or, where the code has no proc.kill(), leaves it; a   *)
(* cancellation by the runner always leaves it, no probe has a finally.    *)
(***************************************************************************)
Kills  == [Finally EXCEPT !.cancel = {"process"}]
Leaves == [Kills EXCEPT !.timeout = {"process"}]

Tool(wait, absent, leaves, timeout, judge) ==
  Program({"process"}, 0, absent, leaves,
          << Turn(wait, timeout, Never, Never, judge) >>)

(***************************************************************************)
(* What the engine expects of a program: the closing summary is there for  *)
(* whatever has counted and is no error, and the last turn ends the item.  *)
(***************************************************************************)
Resources == {"tcp", "udp", "process", "tempfile"}
Ways == {"stop", "timeout", "raise", "cancel"}
Ending == {"stop", "count", "halt", "raise", "never"}
Judgement(next) == [says : SUBSET Findings, next : next]

ProbeError == Finding("error", "info")

WellTurned(t, next) ==
  /\ t.wait \in Nat
  /\ {t.timeout, t.oserror, t.eof} \subseteq Judgement(next)
  /\ \A r \in DOMAIN t.judge : t.judge[r] \in Judgement(next)

WellFormed(p) ==
  /\ p.items \subseteq Nat /\ p.dial \in Nat /\ {p.yields, p.keeps} \subseteq BOOLEAN
  /\ p.opens \subseteq Resources /\ p.leaves \in [Ways -> SUBSET Resources]
  /\ p.gone \in Judgement(Ending)
  /\ \A n \in p.items : \A c \in SUBSET (1..n) : p.sums[c] \subseteq Findings \ {ProbeError}
  /\ Len(p.turns) \in Nat \ {0}
  /\ \A i \in 1..(Len(p.turns) - 1) : WellTurned(p.turns[i], Ending \union {"on"})
  /\ WellTurned(p.turns[Len(p.turns)], Ending)

\* A finding if a condition holds, the classes that are reported as weak,
\* and the finding for what is broken today.
If(condition, finding) == IF condition THEN {finding} ELSE {}
Weak == {"sangat-tinggi", "tinggi"}
Broken == Graded("sangat-tinggi")

\* An answer that can be anything of a set, each with a class of its own.
ClassesIn(cs) == {Graded(c) : c \in cs}
=============================================================================
