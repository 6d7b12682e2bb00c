-------------------------- MODULE SessionLifecycle --------------------------
(***************************************************************************)
(* What the session registry promises about sessions and the processes     *)
(* behind them, without its coroutines, promises and records:              *)
(*                                                                         *)
(*   - a process is ordered only for a session that is starting and that   *)
(*     nobody closed, and never after the shutdown;                        *)
(*   - a session only moves forward: starting, running, closing, gone;     *)
(*     nothing revives a closing one;                                      *)
(*   - a process is condemned only once its session is closing or gone;    *)
(*   - a session that leaves the registry leaves no process behind: it is  *)
(*     dead, condemned, or it arrives later and is condemned then;         *)
(*   - a failure is reported at most once, as the session leaves, and only *)
(*     if nobody had closed the session and no shutdown had begun.         *)
(***************************************************************************)
CONSTANT Session

VARIABLES
    shut,       \* no session is opened any more
    phase,      \* unborn, starting, running, closing, gone
    process,    \* none, ordered, live, dead
    doomed,     \* the process was told to terminate
    told        \* the user was told that the session failed

vars == <<shut, phase, process, doomed, told>>

Open == {"starting", "running", "closing"}

Init ==
    /\ shut = FALSE
    /\ phase = [s \in Session |-> "unborn"]
    /\ process = [s \in Session |-> "none"]
    /\ doomed = [s \in Session |-> FALSE]
    /\ told = [s \in Session |-> FALSE]

\* A session that leaves although it is wanted may be reported.
MayTell(s) ==
    \/ UNCHANGED told
    \/ /\ ~shut /\ phase[s] \in {"starting", "running"} /\ phase'[s] = "gone"
       /\ told' = [told EXCEPT ![s] = TRUE]

Begin(s) ==
    /\ ~shut
    /\ phase[s] = "unborn"
    /\ phase' = [phase EXCEPT ![s] = "starting"]
    /\ UNCHANGED <<shut, process, doomed, told>>

Order(s) ==
    /\ ~shut
    /\ phase[s] = "starting"
    /\ process[s] = "none"
    /\ process' = [process EXCEPT ![s] = "ordered"]
    /\ UNCHANGED <<shut, phase, doomed, told>>

Arrive(s) ==
    /\ process[s] = "ordered"
    /\ process' = [process EXCEPT ![s] = "live"]
    /\ UNCHANGED <<shut, phase, doomed, told>>

\* The launch ends without a process.
Fail(s) ==
    /\ process[s] \in {"none", "ordered"}
    /\ phase[s] # "unborn"
    /\ process' = [process EXCEPT ![s] = "none"]
    /\ phase' = [phase EXCEPT ![s] = "gone"]
    /\ MayTell(s)
    /\ UNCHANGED <<shut, doomed>>

Promote(s) ==
    /\ ~shut
    /\ phase[s] = "starting"
    /\ process[s] = "live" /\ ~doomed[s]
    /\ phase' = [phase EXCEPT ![s] = "running"]
    /\ UNCHANGED <<shut, process, doomed, told>>

\* One session is closed, or all are as the registry shuts down.
BeginClose(S) ==
    /\ \A s \in S : phase[s] \in Open
    /\ shut' \in {shut, TRUE}
    /\ shut' # shut => S = {s \in Session : phase[s] \in Open}
    /\ phase' = [s \in Session |-> IF s \in S THEN "closing" ELSE phase[s]]
    /\ UNCHANGED <<process, doomed, told>>

Condemn(s) ==
    /\ phase[s] \in {"closing", "gone"}
    /\ process[s] = "live"
    /\ doomed' = [doomed EXCEPT ![s] = TRUE]
    /\ UNCHANGED <<shut, phase, process, told>>

\* The session leaves the registry while a process exists: it is dead, or it
\* is condemned in the same step.  A running session leaves only by its
\* process's death.
Retire(s) ==
    /\ phase[s] \in {"starting", "closing"}
    /\ process[s] \in {"live", "dead"}
    /\ phase' = [phase EXCEPT ![s] = "gone"]
    /\ doomed' = [doomed EXCEPT ![s] = @ \/ process[s] = "live"]
    /\ MayTell(s)
    /\ UNCHANGED <<shut, process>>

\* A process dies; its session goes with it if it had adopted the process.
Die(s) ==
    /\ process[s] = "live"
    /\ process' = [process EXCEPT ![s] = "dead"]
    /\ phase' \in {phase, [phase EXCEPT ![s] = "gone"]}
    /\ phase[s] = "running" => phase'[s] = "gone"
    /\ MayTell(s)
    /\ UNCHANGED <<shut, doomed>>

\* The registry lets go of everything at once.
Abandon ==
    /\ shut' = TRUE
    /\ phase' = [s \in Session |-> IF phase[s] = "unborn" THEN "unborn" ELSE "gone"]
    /\ \A s \in Session :
          /\ doomed[s] => doomed'[s]
          /\ doomed'[s] => doomed[s] \/ process[s] = "live"
          /\ phase[s] = "running" => doomed'[s]
    /\ UNCHANGED <<process, told>>

Next ==
    \/ \E s \in Session :
          \/ Begin(s) \/ Order(s) \/ Arrive(s) \/ Fail(s) \/ Promote(s)
          \/ Condemn(s) \/ Retire(s) \/ Die(s)
    \/ \E S \in SUBSET Session : BeginClose(S)
    \/ Abandon

Spec == Init /\ [][Next]_vars
=============================================================================
