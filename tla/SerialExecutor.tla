--------------------------- MODULE SerialExecutor ---------------------------
(***************************************************************************)
(* What the worker pool promises: a bounded number of files is worked on   *)
(* at a time, each by one worker, and a request for a file is forgotten    *)
(* only when a run for it starts or when the whole backlog is discarded.   *)
(***************************************************************************)
EXTENDS Naturals, FiniteSets

CONSTANTS
  Paths,        \* the file paths work is requested for
  Concurrency   \* how many workers run at a time

VARIABLES
  owed,      \* paths with a request that no run has picked up yet
  running    \* paths a worker is busy with

execVars == <<owed, running>>

ExecInit == owed = {} /\ running = {}

\* Workers of the paths in ended stop, requests for the paths in asked come
\* in, and some of the waiting paths that no worker is busy with are started;
\* a started path may be owed one more run.
Shift(asked, ended) ==
  LET waiting == owed \cup asked
      busy    == running \ ended
  IN \E started \in SUBSET (waiting \ busy) :
       /\ running' = busy \cup started
       /\ owed' \subseteq waiting /\ waiting \ started \subseteq owed'
       /\ Cardinality(running') <= Concurrency

Request(p) == Shift({p}, {})
Finish(p)  == p \in running /\ Shift({}, {p})
Dispatch   == Shift({}, {})
Discard    == owed' = {} /\ UNCHANGED running

ExecNext ==
  \/ \E p \in Paths : Request(p) \/ Finish(p)
  \/ Dispatch
  \/ Discard

ExecSpec == ExecInit /\ [][ExecNext]_execVars
=============================================================================
