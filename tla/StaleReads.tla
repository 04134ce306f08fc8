--------------------------- MODULE StaleReads ---------------------------
(***************************************************************************)
(* What a page that polls a server promises its viewer, and no more.       *)
(*                                                                         *)
(* The server's state changes, each change is a version.  A reader asks,   *)
(* and what it shows in the end are versions the server had between the    *)
(* question and the answer, for all parts of the page at once or for none: *)
(* never one from before the question, and never parts of two answers.     *)
(* Several readers may be under way, and the last to finish wins, so what  *)
(* is shown may go back in time; but not beyond the moment its reader      *)
(* asked.                                                                  *)
(***************************************************************************)
EXTENDS Naturals

CONSTANTS Reader, Part

VARIABLES
    version,  \* the server's current version
    since,    \* per reader the version at its question, 0 when it has none
    shown     \* per part the version shown, 0 before the first answer

vars == <<version, since, shown>>

Blank == [p \in Part |-> 0]

Init ==
    /\ version = 1
    /\ since \in [Reader -> {0, 1}]
    /\ shown = Blank

Write == version' = version + 1 /\ UNCHANGED <<since, shown>>

Ask(r) ==
    /\ since[r] = 0
    /\ since' = [since EXCEPT ![r] = version]
    /\ UNCHANGED <<version, shown>>

Show(r) ==
    /\ since[r] # 0
    /\ shown' \in [Part -> since[r] .. version]
    /\ since' = [since EXCEPT ![r] = 0]
    /\ UNCHANGED version

GiveUp(r) ==
    /\ since[r] # 0
    /\ since' = [since EXCEPT ![r] = 0]
    /\ UNCHANGED <<version, shown>>

\* The page is loaded again: nothing is shown, and only questions of now count.
Restart ==
    /\ shown' = Blank
    /\ since' \in [Reader -> {0, version}]
    /\ UNCHANGED version

Next ==
    \/ Write
    \/ Restart
    \/ \E r \in Reader : Ask(r) \/ Show(r) \/ GiveUp(r)

Spec == Init /\ [][Next]_vars

=============================================================================
