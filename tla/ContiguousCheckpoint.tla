------------------------ MODULE ContiguousCheckpoint ------------------------
(***************************************************************************)
(* What a checkpoint window promises its owner, without saying how.        *)
(*                                                                         *)
(* Tokens of a change feed are handed in, and each is outstanding until    *)
(* its work has been reported done.  The saved checkpoint only moves       *)
(* forward, and only to a position below every token still outstanding:    *)
(* replaying the feed from it redelivers all unfinished work.              *)
(***************************************************************************)
EXTENDS Naturals

CONSTANT Tokens   \* the positions of the feed, a set of positive naturals

VARIABLES
  outstanding,   \* tokens handed in whose work is not reported done
  saved          \* the durable checkpoint, a position of the feed

absVars == <<outstanding, saved>>

AbsInit == outstanding = {} /\ saved = 0

\* A token is handed in, or its work is reported failed after all.  Only
\* positions the checkpoint has not reached can be outstanding.
Open(s) ==
  /\ saved < s
  /\ outstanding' = outstanding \cup {s}
  /\ UNCHANGED saved

\* The work of a token is reported done.
Settle(s) ==
  /\ outstanding' = outstanding \ {s}
  /\ UNCHANGED saved

\* The checkpoint moves forward, staying below everything outstanding.
Advance ==
  /\ saved' \in Tokens
  /\ saved < saved'
  /\ \A s \in outstanding : saved' < s
  /\ UNCHANGED outstanding

\* The process dies and the window with it; the checkpoint survives.
Forget == outstanding' = {} /\ UNCHANGED saved

AbsNext ==
  \/ \E s \in Tokens : Open(s) \/ Settle(s)
  \/ Advance
  \/ Forget

AbsSpec == AbsInit /\ [][AbsNext]_absVars
=============================================================================
