---------------------------- MODULE RunSerializer ----------------------------
(***************************************************************************)
(* What the two-level command lanes promise to whoever starts an embedded  *)
(* agent run, without lanes, slots or pumps: the runs of one session       *)
(* execute one at a time and in the order they were submitted; runs of     *)
(* different sessions are unrelated.  CommandLanes implements this module. *)
(***************************************************************************)
EXTENDS Naturals, Sequences

CONSTANTS
  Runs,       \* the calls of runEmbeddedPiAgent
  Sessions,   \* session keys
  SessionOf   \* the session of each run

VARIABLES
  line,       \* per session, the submitted runs that have not begun, in order
  executing   \* the runs whose body executes

vars == <<line, executing>>

Init ==
  /\ line = [s \in Sessions |-> <<>>]
  /\ executing = {}

Idle(s) == \A r \in executing : SessionOf[r] # s

(* A run joins the end of its session's line, or begins at once when the   *)
(* session is idle and nobody is in line.                                  *)
Submit(r) ==
  LET s == SessionOf[r]
  IN \/ /\ line' = [line EXCEPT ![s] = Append(@, r)]
        /\ UNCHANGED executing
     \/ /\ line[s] = <<>>
        /\ Idle(s)
        /\ executing' = executing \cup {r}
        /\ UNCHANGED line

(* At most one run ends, and the first runs in line of some idle sessions  *)
(* begin.  A session whose run ends in this step does not begin another.   *)
Advance(ended, lucky) ==
  /\ \A s \in lucky : line[s] # <<>> /\ Idle(s)
  /\ executing' = (executing \ ended) \cup { Head(line[s]) : s \in lucky }
  /\ line' = [s \in Sessions |-> IF s \in lucky THEN Tail(line[s]) ELSE line[s]]

(* The line of a session is cut; the first in line may be past recall.     *)
Cut(s) ==
  /\ \E keep \in 0..1 :
        /\ keep <= Len(line[s])
        /\ line' = [line EXCEPT ![s] = SubSeq(@, 1, keep)]
  /\ UNCHANGED executing

Next ==
  \/ \E r \in Runs : Submit(r)
  \/ \E ended \in { {} } \cup { {r} : r \in executing }, lucky \in SUBSET Sessions :
        Advance(ended, lucky)
  \/ \E s \in Sessions : Cut(s)

Spec == Init /\ [][Next]_vars
=============================================================================
