------------------------------ MODULE ModuleProp ------------------------------
(***************************************************************************)
(* The description in module.prop, which the root manager's app shows      *)
(* (main.go, updateModuleProp and the monitor started by run), composed    *)
(* with TunnelControl: startTunnel, stopTunnel, the goroutine of a tunnel  *)
(* that has ended and, in idle mode, run each write the file themselves,   *)
(* and the monitor writes it when the status it reads from State differs   *)
(* from the last one it wrote.  The scripts write it, too (set_desc).      *)
(*                                                                         *)
(* The daemon's write is a read, a truncation and a write of the whole     *)
(* file, without a lock; a script's is a copy that takes the file's name.  *)
(* The monitor is woken in the step that changes State: the broadcast that *)
(* follows a change can only repeat a reading.                             *)
(***************************************************************************)
EXTENDS TunnelControl

CONSTANT Monitor       \* the goroutine that keeps module.prop in step

ASSUME MonitorAssumption == Monitor \notin Callers \cup Tunnels

VARIABLES
    prop,      \* the description in module.prop, "empty" for an empty file,
               \* "script" for what a script wrote or was there before
    job,       \* writer -> where its updateModuleProp is, and its text
    pending,   \* the monitor's channel holds a notification
    last       \* the monitor's lastStatus ("empty" at first)

propVars == <<prop, job, pending, last>>

Writers == Callers \cup Tunnels \cup {Monitor}
Status  == {"running", "standby", "disconnected"}
NoJob   == [step |-> "none", text |-> "empty"]

PropTypeOK ==
    /\ TypeOK
    /\ prop \in Status \cup {"empty", "script"}
    /\ job \in [Writers -> [step : {"none", "read", "trunc", "write"},
                            text : Status \cup {"empty"}]]
    /\ pending \in BOOLEAN
    /\ last \in Status \cup {"empty"}

\* What x writes where it is, or "none".
Text(x) ==
    IF x \in Callers
    THEN CASE pc[x] = "write" -> "running"
           [] pc[x] = "swrite" -> "disconnected"
           [] OTHER -> "none"
    ELSE IF x \in Tunnels /\ mgr[x] = "writing" THEN "disconnected" ELSE "none"

PropInit ==
    /\ Init
    /\ prop = "script"
    /\ job = [x \in Writers |->
                IF Text(x) = "none" THEN NoJob
                ELSE [step |-> "read", text |-> Text(x)]]
    /\ pending = FALSE
    /\ last = "empty"

-----------------------------------------------------------------------------
(* updateModuleProp.                                                       *)

\* A file without a description line is written back as it was read.
PropRead(x) ==
    /\ job[x].step = "read"
    /\ job' = [job EXCEPT ![x] =
                 [step |-> "trunc",
                  text |-> IF prop = "empty" THEN "empty" ELSE @.text]]
    /\ UNCHANGED <<vars, prop, pending, last>>

PropTruncate(x) ==
    /\ job[x].step = "trunc"
    /\ job' = [job EXCEPT ![x].step = "write"]
    /\ prop' = "empty"
    /\ UNCHANGED <<vars, pending, last>>

PropWrite(x) ==
    /\ job[x].step = "write"
    /\ job' = [job EXCEPT ![x] = NoJob]
    /\ prop' = job[x].text
    /\ UNCHANGED <<vars, pending, last>>

PropStep(x) == PropRead(x) \/ PropTruncate(x) \/ PropWrite(x)

-----------------------------------------------------------------------------
(* set_desc in sshcustom.sh: sed -i copies the file, with its own text in   *)
(* place of a description that is there, and renames the copy.             *)

\* What was copied is the file as it was some time ago, perhaps while one of the
\* daemon's writers had it truncated.  Who has the old file open writes to what
\* has no name any more, so nobody sees it: that write is over.
ScriptRename ==
    /\ prop' \in {"script", "empty"}
    /\ job' = [x \in Writers |-> IF job[x].step = "write" THEN NoJob
                                                        ELSE job[x]]
    /\ UNCHANGED <<vars, pending, last>>

-----------------------------------------------------------------------------
(* The monitor.                                                            *)

StatusOf(p) ==
    IF p.conn \/ (p.running /\ p.phase # "paused") THEN "running"
    ELSE IF p.running THEN "standby" ELSE "disconnected"

\* The status is remembered before it is written.
MonitorStep ==
    /\ pending /\ job[Monitor].step = "none"
    /\ pending' = FALSE
    /\ last' = StatusOf(pub)
    /\ job' = IF StatusOf(pub) = last THEN job
              ELSE [job EXCEPT ![Monitor] =
                      [step |-> "read", text |-> StatusOf(pub)]]
    /\ UNCHANGED <<vars, prop>>

\* Fields of State that are not modelled change as well: the metrics.  Once the
\* monitor has read State, that can only repeat a reading.
Sampled ==
    /\ last = "empty"
    /\ pending' = TRUE
    /\ UNCHANGED <<vars, prop, job, last>>

-----------------------------------------------------------------------------
(* A step of TunnelControl.  A caller or a tunnel that comes to the place  *)
(* where it writes module.prop starts a job, and leaves it when that is    *)
(* done; a change of State wakes the monitor; the daemon's end ends both.  *)

\* The monitor is woken by every change of State, also of its LastError.
MutWoken == pending \/ (pub' # pub /\ pub'.running)
Woken == pending \/ pub' # pub \/ \E c \in Callers : StartNoProfile(c)

ControlStep ==
    /\ Step
    /\ \A x \in Writers \ {Monitor} :
         Text(x) # "none" /\ Text(x)' = "none" => job[x].step = "none"
    /\ job' = [x \in Writers |->
                 IF ~alive' THEN NoJob
                 ELSE IF Text(x) = "none" /\ Text(x)' # "none"
                 THEN [step |-> "read", text |-> Text(x)'] ELSE job[x]]
    /\ pending' = (alive' /\ Woken)
    /\ last' = IF alive' THEN last ELSE "empty"
    /\ UNCHANGED prop

PropNext ==
    /\ alive
    /\ \/ ControlStep
       \/ \E x \in Writers : PropStep(x)
       \/ MonitorStep \/ Sampled
       \/ ScriptRename

PropSpec == PropInit /\ [][PropNext]_<<vars, propVars>>

\* Goroutines run, writes end, and the monitor looks until the signal.  No run
\* assumes it: it is what PropFollows would need.
PropFairness ==
    /\ \A c \in Callers :
         WF_<<vars, propVars>>(/\ alive /\ ControlStep
                               /\ StartStep(c) \/ StopStep(c))
    /\ \A t \in Tunnels :
         /\ WF_<<vars, propVars>>(alive /\ ControlStep /\ MgrRun(t))
         /\ WF_<<vars, propVars>>(/\ alive /\ ControlStep
                                  /\ Done(t) /\ MgrClose(t))
    /\ \A x \in Writers : WF_<<vars, propVars>>(alive /\ PropStep(x))
    /\ WF_<<vars, propVars>>(alive /\ ~signalled /\ MonitorStep)

PropFairSpec == PropSpec /\ PropFairness

-----------------------------------------------------------------------------
\* When the last tunnel has ended and the daemon's writers have finished, none
\* of them has left in module.prop that a tunnel runs or waits: no slow writer,
\* no status the monitor remembers and no script that takes the file's name away
\* in between.  (What a script wrote itself, or erased, stays; and a daemon
\* whose own start found no profile goes on showing it, see BootIsCorrected.)
StoppedIsShown ==
    /\ alive /\ Stopped
    /\ \A x \in Writers : job[x].step = "none"
    /\ ~pending
    /\ pub # Booted
    => prop \notin {"running", "standby"}

\* What the proofs add: a job writes what its writer is there to write, or
\* nothing; the monitor remembers what State shows unless it is to be woken;
\* and a file that shows a tunnel will be written again, by the end of a tunnel
\* or by the monitor.
JobInv ==
    /\ \A x \in Writers \ {Monitor} :
         job[x].step # "none" => /\ Text(x) # "none"
                                 /\ job[x].text \in {Text(x), "empty"}
    /\ job[Monitor].step # "none" => job[Monitor].text \in {last, "empty"}
LastInv == pending \/ last \in {StatusOf(pub), "empty"}
ShownInv ==
    alive /\ prop \in {"running", "standby"}
    => \/ \E t \in Tunnels : mgr[t] \notin {"none", "writing"}
       \/ last \in {"running", "standby"}
       \/ \E x \in Writers : /\ job[x].step # "none"
                             /\ job[x].text \in {"disconnected", "empty"}
PropInv == PropTypeOK /\ JobInv /\ LastInv /\ ShownInv

\* CHANGELOG.md:21: module.prop "reflects the tunnel state in real-time": it is
\* not wrong forever.
PropFollows == []<>(prop = StatusOf(pub) \/ signalled)

=============================================================================
