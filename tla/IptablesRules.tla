---------------------------- MODULE IptablesRules ----------------------------
(***************************************************************************)
(* The nat rules of the transparent proxy, one iptables command at a time: *)
(* Apply and Cleanup of internal/iptables, startTransparentIfEnabled and   *)
(* the function it returns (main.go), and net_clean.sh, which the scripts  *)
(* and stopTunnel run.  A command is one process and no lock orders them:  *)
(* the closing Cleanup of a tunnel runs after its port is free, hence      *)
(* beside the Apply of the next one, and net_clean.sh runs when it likes.  *)
(*                                                                         *)
(* Abstractions: of the six chain names the two in use and one of the      *)
(* older ones; an interface list is one interface, the first of the        *)
(* default list or one of the user's; the -D commands that differ in       *)
(* -p tcp are one, the RETURN rules for addresses and ports are one, and   *)
(* the -D of a jump that no version made, which finds nothing, is left     *)
(* out: OUTPUT jumps to the one chain, an interface's PREROUTING to the    *)
(* other.                                                                  *)
(* chains_prefix has its default, and ip6tables, whose tables the daemon   *)
(* never fills, is left out.                                               *)
(*                                                                         *)
(* A definition named Mut... is the next one with a plausible bug.         *)
(***************************************************************************)
EXTENDS Naturals, SequencesExt

CONSTANTS
    Tunnels,    \* connectionManagers that can exist at the same time
    Script,     \* the process that runs net_clean.sh
    Configs,    \* the hotspot settings a tunnel is started with
    Nil,        \* no tunnel
    Absent,     \* no chain
    MaxFaults,  \* BOUND on the commands that fail for a reason of their own
    MaxKills    \* BOUND on the deaths of the daemon

ASSUME ActorsAssumption ==
    Script \notin Tunnels /\ Nil \notin Tunnels /\ Nil \notin Configs
ASSUME BoundsAssumption == MaxFaults \in Nat /\ MaxKills \in Nat
ASSUME ConfigsAssumption ==
    Configs \subseteq [hotspot : BOOLEAN, ifaces : {<<"wlan">>, <<"own">>}]

VARIABLES
    chain,   \* name -> its rules, or Absent
    hooks,   \* <<where, chain>> -> how many rules jump there
    forward, \* the ACCEPT rules in FORWARD
    port,    \* the tunnel that listens on the transparent port, or Nil
    phase,   \* actor -> what it is doing
    todo,    \* actor -> the commands left
    cfg,     \* tunnel -> the Config it was started with
    fatal,   \* the tunnels whose Apply has an error it does not filter out
    touched, \* the tunnels whose Apply was mixed with another's commands
    owed,    \* how many full cleanings must end before a death is made good
    faults,  \* commands that have failed for a reason of their own
    kills    \* deaths of the daemon

tableVars == <<chain, hooks, forward>>
vars == <<tableVars, port, phase, todo, cfg, fatal, touched, owed, faults,
          kills>>

Actors == Tunnels \cup {Script}
Installing == {"clean", "apply", "on"}

\* allLegacyChains, CHAINS
Chains == {"OUTPUT", "PREROUTING", "PROXY"}
Ifaces == {"wlan", "own"}
Default == <<"wlan">>
Hooks == ({"nat OUTPUT"} \X {"OUTPUT", "PROXY"}) \cup (Ifaces \X {"PREROUTING"})
Rules == {"uid 0 RETURN", "RETURN", "REDIRECT"}

ASSUME ValuesAssumption == Nil \notin Hooks /\ Absent \notin Seq(Rules)

\* An iptables command.
Cmd(op, arg) == [op |-> op, arg |-> arg]
Commands ==
    {Cmd(op, h) : op \in {"-D", "-I"}, h \in Hooks}
    \cup {Cmd(op, c) : op \in {"-F", "-X", "-N"}, c \in Chains}
    \cup {Cmd("-A", a) : a \in Chains \X Rules}
    \cup {Cmd(op, Nil) : op \in {"-D FORWARD", "-I FORWARD"}}

TypeOK ==
    /\ chain \in [Chains -> {Absent} \cup Seq(Rules)]
    /\ hooks \in [Hooks -> Nat] /\ forward \in Nat
    /\ port \in Tunnels \cup {Nil}
    /\ phase \in [Actors -> {"off", "clean", "apply", "on", "stop"}]
    /\ todo \in [Actors -> Seq(Commands)]
    /\ cfg \in [Tunnels -> Configs \cup {Nil}]
    /\ fatal \subseteq Tunnels /\ touched \subseteq Tunnels
    /\ owed \in 0..2 /\ faults \in 0..MaxFaults /\ kills \in 0..MaxKills

\* Nothing is left of an earlier version, or its chain, still hooked.
Init ==
    /\ \E old \in BOOLEAN :
         /\ chain = [c \in Chains |->
                       IF old /\ c = "PROXY" THEN <<"REDIRECT">> ELSE Absent]
         /\ hooks = [h \in Hooks |->
                       IF old /\ h = <<"nat OUTPUT", "PROXY">> THEN 1 ELSE 0]
         /\ owed = IF old THEN 1 ELSE 0
    /\ forward = 0 /\ port = Nil
    /\ phase = [a \in Actors |-> "off"]
    /\ todo = [a \in Actors |-> <<>>]
    /\ cfg = [t \in Tunnels |-> Nil]
    /\ fatal = {} /\ touched = {} /\ faults = 0 /\ kills = 0

-----------------------------------------------------------------------------
(* The programs.                                                           *)

\* Phase 1 of Cleanup: every jump to chain c, wherever it was put.
MutUnhooks(c, ifaces) ==
    IF c = "PREROUTING"
    THEN [i \in DOMAIN Default |-> Cmd("-D", <<Default[i], c>>)]
    ELSE <<Cmd("-D", <<"nat OUTPUT", c>>)>>
Unhooks(c, ifaces) ==
    IF c = "PREROUTING"
    THEN [i \in DOMAIN ifaces |-> Cmd("-D", <<ifaces[i], c>>)]
    ELSE <<Cmd("-D", <<"nat OUTPUT", c>>)>>

\* Phase 2.
Removes(c) == <<Cmd("-F", c), Cmd("-X", c)>>

EachChain(F(_)) == F("OUTPUT") \o F("PREROUTING") \o F("PROXY")

MutCleanup(ifaces) ==
    LET Unhook(c) == Unhooks(c, ifaces)
    IN  EachChain(Removes) \o EachChain(Unhook) \o <<Cmd("-D FORWARD", Nil)>>
MutUnflushed(ifaces) ==
    LET Unhook(c) == Unhooks(c, ifaces)
        Delete(c) == <<Cmd("-X", c)>>
    IN  EachChain(Unhook) \o EachChain(Delete) \o <<Cmd("-D FORWARD", Nil)>>
Cleanup(ifaces) ==
    LET Unhook(c) == Unhooks(c, ifaces)
    IN  EachChain(Unhook) \o EachChain(Removes) \o <<Cmd("-D FORWARD", Nil)>>

\* addBypasses
MutBypasses(c) == SelectSeq(<<"RETURN", "REDIRECT", "uid 0 RETURN">>,
                            LAMBDA r : c = "OUTPUT" \/ r # "uid 0 RETURN")
Bypasses(c) == IF c = "OUTPUT" THEN <<"uid 0 RETURN", "RETURN", "REDIRECT">>
                               ELSE <<"RETURN", "REDIRECT">>

Fill(c) == [i \in DOMAIN Bypasses(c) |-> Cmd("-A", <<c, Bypasses(c)[i]>>)]

Create(c) == <<Cmd("-N", c), Cmd("-F", c)>>

\* The hotspot's jumps, and forwarding.
Share(k) ==
    IF k.hotspot
    THEN [i \in DOMAIN k.ifaces |-> Cmd("-I", <<k.ifaces[i], "PREROUTING">>)]
         \o <<Cmd("-I FORWARD", Nil)>>
    ELSE <<>>

Build(k) ==
    Create("OUTPUT") \o Create("PREROUTING")
      \o Fill("OUTPUT") \o Fill("PREROUTING")
      \o <<Cmd("-I", <<"nat OUTPUT", "OUTPUT">>)>> \o Share(k)

Apply(k) == Cleanup(k.ifaces) \o Build(k)

-----------------------------------------------------------------------------
(* The kernel's side of a command.                                         *)

Referenced(c) == \E h \in Hooks : h[2] = c /\ hooks[h] > 0

\* The table after a command that is not refused.
Effect(cmd) ==
    CASE cmd.op = "-D" ->
           /\ hooks' = [hooks EXCEPT ![cmd.arg] = @ - 1]
           /\ UNCHANGED <<chain, forward>>
      [] cmd.op = "-I" ->
           /\ hooks' = [hooks EXCEPT ![cmd.arg] = @ + 1]
           /\ UNCHANGED <<chain, forward>>
      [] cmd.op \in {"-F", "-N"} ->
           /\ chain' = [chain EXCEPT ![cmd.arg] = <<>>]
           /\ UNCHANGED <<hooks, forward>>
      [] cmd.op = "-X" ->
           /\ chain' = [chain EXCEPT ![cmd.arg] = Absent]
           /\ UNCHANGED <<hooks, forward>>
      [] cmd.op = "-A" ->
           /\ chain' = [chain EXCEPT ![cmd.arg[1]] = Append(@, cmd.arg[2])]
           /\ UNCHANGED <<hooks, forward>>
      [] cmd.op = "-D FORWARD" ->
           /\ forward' = forward - 1
           /\ UNCHANGED <<chain, hooks>>
      [] cmd.op = "-I FORWARD" ->
           /\ forward' = forward + 1
           /\ UNCHANGED <<chain, hooks>>

\* What the kernel refuses in this table.
Refused(cmd) ==
    \/ cmd.op = "-D" /\ hooks[cmd.arg] = 0
    \/ cmd.op = "-D FORWARD" /\ forward = 0
    \/ cmd.op = "-F" /\ chain[cmd.arg] = Absent
    \/ cmd.op = "-N" /\ chain[cmd.arg] # Absent
    \/ cmd.op = "-X" /\ (chain[cmd.arg] # <<>> \/ Referenced(cmd.arg))
    \/ cmd.op = "-A" /\ chain[cmd.arg[1]] = Absent
    \/ cmd.op = "-I" /\ chain[cmd.arg[2]] = Absent

-----------------------------------------------------------------------------
(* The processes.                                                          *)

Goto(a, ph, program) ==
    /\ phase' = [phase EXCEPT ![a] = ph]
    /\ todo' = [todo EXCEPT ![a] = program]

\* startTransparentIfEnabled: the port first, then a Cleanup, then Apply.
Listen(t, k) ==
    /\ phase[t] = "off" /\ port = Nil
    /\ port' = t
    /\ cfg' = [cfg EXCEPT ![t] = k]
    /\ Goto(t, "clean", Cleanup(k.ifaces))
    /\ UNCHANGED <<tableVars, fatal, touched, owed, faults, kills>>

\* Apply's closure run remembers what its commands say; Cleanup, which
\* Apply begins with, and net_clean.sh do not.  Apply ends by filtering out
\* "No chain/target/match", which an append and a flush get when the chain is
\* gone, and "Chain already exists"; what -I gets depends on the version.
InApply(a) ==
    /\ a \in Tunnels /\ phase[a] = "apply"
    /\ Len(todo[a]) <= Len(Build(cfg[a]))
MutHeard(a, cmd, ownReason) ==
    IF cmd.op \in {"-N", "-I"} /\ InApply(a) THEN {fatal \cup {a}} ELSE {fatal}
Heard(a, cmd, ownReason) ==
    LET told == fatal \cup {a}
    IN  IF ~InApply(a) \/ cmd.op = "-I FORWARD" THEN {fatal}
        ELSE IF ownReason THEN {told}
        ELSE IF cmd.op = "-I" THEN {fatal, told} ELSE {fatal}

\* The next command of a: done, refused, or failed (the lock of iptables is
\* taken: -w is not given).
Run(a) ==
    /\ todo[a] # <<>>
    /\ todo' = [todo EXCEPT ![a] = Tail(@)]
    /\ touched' = touched \cup {t \in Tunnels \ {a} : phase[t] \in Installing}
    /\ LET cmd == Head(todo[a])
       IN  \/ /\ ~Refused(cmd)
              /\ Effect(cmd)
              /\ UNCHANGED <<fatal, faults>>
           \/ /\ Refused(cmd)
              /\ fatal' \in Heard(a, cmd, FALSE)
              /\ UNCHANGED <<tableVars, faults>>
           \/ /\ faults < MaxFaults
              /\ faults' = faults + 1
              /\ fatal' \in Heard(a, cmd, TRUE)
              /\ UNCHANGED tableVars
    /\ UNCHANGED <<port, phase, cfg, owed, kills>>

StartApply(t) ==
    /\ phase[t] = "clean" /\ todo[t] = <<>>
    /\ Goto(t, "apply", Apply(cfg[t]))
    /\ owed' = 0
    /\ UNCHANGED <<tableVars, port, cfg, fatal, touched, faults, kills>>

Applied(t) ==
    /\ phase[t] = "apply" /\ todo[t] = <<>> /\ t \notin fatal
    /\ Goto(t, "on", <<>>)
    /\ UNCHANGED <<tableVars, port, cfg, fatal, touched, owed, faults, kills>>

\* The port is closed before the rules that redirect to it are removed:
\* after an Apply that failed, and in the function that ends the tunnel.
Stop(t) ==
    /\ \/ phase[t] = "on"
       \/ phase[t] = "apply" /\ todo[t] = <<>> /\ t \in fatal
    /\ port' = Nil
    /\ Goto(t, "stop", Cleanup(cfg[t].ifaces))
    /\ fatal' = fatal \ {t} /\ touched' = touched \ {t}
    /\ cfg' = [cfg EXCEPT ![t] = Nil]
    /\ UNCHANGED <<tableVars, owed, faults, kills>>

\* net_clean.sh, from sshcustom.sh, customize.sh, uninstall.sh or stopTunnel.
NetClean ==
    /\ phase[Script] = "off"
    /\ Goto(Script, "stop", Cleanup(Default))
    /\ UNCHANGED <<tableVars, port, cfg, fatal, touched, owed, faults, kills>>

Cleaned(a) ==
    /\ phase[a] = "stop" /\ todo[a] = <<>>
    /\ Goto(a, "off", <<>>)
    /\ owed' = IF owed = 0 THEN 0 ELSE owed - 1
    /\ UNCHANGED <<tableVars, port, cfg, fatal, touched, faults, kills>>

\* The daemon dies between two commands.  A net_clean.sh that is under way
\* does not count as the cleaning that makes the death good.
Kill ==
    /\ kills < MaxKills
    /\ \E t \in Tunnels : phase[t] # "off"
    /\ kills' = kills + 1
    /\ port' = Nil
    /\ phase' = [a \in Actors |-> IF a = Script THEN phase[a] ELSE "off"]
    /\ todo' = [a \in Actors |-> IF a = Script THEN todo[a] ELSE <<>>]
    /\ owed' = IF phase[Script] = "off" THEN 1 ELSE 2
    /\ cfg' = [t \in Tunnels |-> Nil]
    /\ fatal' = {} /\ touched' = {}
    /\ UNCHANGED <<tableVars, faults>>

Next ==
    \/ \E t \in Tunnels : \/ \E k \in Configs : Listen(t, k)
                          \/ StartApply(t) \/ Applied(t) \/ Stop(t)
    \/ \E a \in Actors : Run(a) \/ Cleaned(a)
    \/ NetClean
    \/ Kill

Spec == Init /\ [][Next]_vars

-----------------------------------------------------------------------------
(* Properties.                                                             *)

\* Everybody has ended, and somebody has cleaned since the daemon last died.
AtRest == owed = 0 /\ \A a \in Actors : phase[a] = "off"

Redirects(where) ==
    \E h \in Hooks : /\ h[1] = where /\ hooks[h] > 0
                     /\ chain[h[2]] # Absent /\ Contains(chain[h[2]], "REDIRECT")

\* iptables.go:36-41: install and stop "in any order leaves the iptables nat
\* table identical", and net_clean.sh:4-7: a daemon that "crashed or was
\* killed mid-rule" leaves nothing.  However the commands of the processes
\* were mixed, if none failed then at rest the table is empty; after a death
\* an interface that the cleaner's list lacks may still jump to the chain for
\* clients, which is then empty.
NothingLeft ==
    AtRest /\ faults = 0 =>
        /\ \A h \in Hooks : h[1] = "nat OUTPUT" => hooks[h] = 0
        /\ forward = 0
        /\ chain["OUTPUT"] = Absent /\ chain["PROXY"] = Absent
        /\ kills = 0 => /\ \A h \in Hooks : hooks[h] = 0
                       /\ chain["PREROUTING"] = Absent

\* At rest nobody listens on the port, so the device must not be redirected
\* to it, even if one command failed: what phase 1 of Cleanup leaves hooked
\* phase 2 has emptied.  No client of the hotspot is, if none failed.
SafeAtRest ==
    AtRest => /\ faults <= 1 => ~Redirects("nat OUTPUT")
              /\ faults = 0 => \A i \in Ifaces : ~Redirects(i)

\* A tunnel that says its rules are applied, and whose commands were not
\* mixed with another's, has both chains whole and in order and jumps to
\* them: whatever was left by a death, and whichever commands failed.
AppliedIsComplete ==
    \A t \in Tunnels \ touched : phase[t] = "on" =>
        /\ \A c \in {"OUTPUT", "PREROUTING"} : chain[c] = Bypasses(c)
        /\ hooks[<<"nat OUTPUT", "OUTPUT">>] > 0
        /\ cfg[t].hotspot =>
             \A i \in ToSet(cfg[t].ifaces) : hooks[<<i, "PREROUTING">>] > 0

\* iptables.go:20-25: at no moment of an Apply that goes well is the device
\* redirected without the rule that lets the daemon's own connections out.
NoLoop ==
    \A t \in Tunnels \ touched :
        /\ phase[t] \in {"apply", "on"} /\ faults = 0 /\ Redirects("nat OUTPUT")
        => Head(chain["OUTPUT"]) = "uid 0 RETURN"

\* Every jump is there at most once, so the next Cleanup, which deletes one,
\* leaves none: even if a command failed, whoever died and whoever else ran.
HookedOnce == faults <= 1 => forward <= 1 /\ \A h \in Hooks : hooks[h] <= 1

\* The device's connections come to be redirected only by the tunnel that has
\* the port, and what a tunnel has applied is lifted by nobody else unseen.
Redirected == Redirects("nat OUTPUT")
Undisturbed == {t \in Tunnels \ touched : phase[t] = "on"}
Device == INSTANCE Redirection
            WITH applied <- Undisturbed, redirected <- Redirected
RedirectionKept == Device!Spec

-----------------------------------------------------------------------------
(* Why they hold, as one inductive invariant.  A jump is a hook, or Nil for *)
(* the rule in FORWARD.                                                     *)

Jumps == Hooks \cup {Nil}
Count(x) == IF x = Nil THEN forward ELSE hooks[x]
Del(x) == IF x = Nil THEN Cmd("-D FORWARD", Nil) ELSE Cmd("-D", x)
Ins(x) == IF x = Nil THEN Cmd("-I FORWARD", Nil) ELSE Cmd("-I", x)
OutputJump(c) == <<"nat OUTPUT", c>>

Ahead(a, cmd) == cmd \in ToSet(todo[a])
Rest(p, n) == SubSeq(p, Len(p) - n + 1, Len(p))
Removing == {"-D", "-D FORWARD", "-F", "-X"}

\* Who has the port installs; only Apply adds to the table.
ProgramInv ==
    /\ \A t \in Tunnels : /\ port = t <=> phase[t] \in Installing
                          /\ phase[t] \in Installing => cfg[t] \in Configs
                          /\ t \in fatal => phase[t] = "apply"
    /\ phase[Script] \in {"off", "stop"}
    /\ \A a \in Actors :
         /\ phase[a] \in {"off", "on"} => todo[a] = <<>>
         /\ phase[a] # "apply" =>
              \A cmd \in ToSet(todo[a]) : cmd.op \in Removing
         /\ phase[a] = "apply" =>
              /\ Len(todo[a]) <= Len(Apply(cfg[a]))
              /\ todo[a] = Rest(Apply(cfg[a]), Len(todo[a]))

\* Who cleans deletes a chain after it has flushed it and deleted its jumps.
\* A jump is made once, after the old one was deleted.
Before(s, x, y) ==
    \A j \in DOMAIN s : s[j] = x => \E k \in DOMAIN s : j < k /\ s[k] = y
NeverAfter(s, x, y) ==
    \A j, k \in DOMAIN s : j < k /\ s[j] = x => s[k] # y
CleansInOrder(s) ==
    /\ \A c \in Chains : Before(s, Cmd("-F", c), Cmd("-X", c))
    /\ \A h \in Hooks : Before(s, Del(h), Cmd("-X", h[2]))
JumpsOnce(s) ==
    \A x \in Jumps : /\ NeverAfter(s, Ins(x), Del(x))
                     /\ NeverAfter(s, Ins(x), Ins(x))
OrderInv ==
    \A a \in Actors : /\ phase[a] = "stop" => CleansInOrder(todo[a])
                      /\ JumpsOnce(todo[a])

\* A tunnel deletes a jump twice before it makes it, so that one of the two is
\* done.  No version after the one with the chain PROXY jumps there.
CountInv ==
    faults <= 1 =>
      /\ \A x \in Jumps :
           /\ Count(x) <= 1
           /\ \A t \in Tunnels :
                /\ phase[t] = "clean" /\ Del(x) \in ToSet(Cleanup(cfg[t].ifaces))
                     /\ ~Ahead(t, Del(x))
                     => Count(x) = 0 \/ faults = 1
                /\ phase[t] = "apply" /\ Ahead(t, Ins(x)) =>
                     /\ Count(x) = 0 \/ faults = 1
                     /\ Ahead(t, Del(x)) \/ Count(x) = 0
      /\ \A t \in Tunnels :
           phase[t] \in {"apply", "on"} =>
             hooks[OutputJump("PROXY")] = 0 \/ faults = 1

\* After a death nobody is installing, and net_clean.sh may be at work.
OwedInv ==
    owed > 0 =>
      /\ \A t \in Tunnels : phase[t] \in {"off", "clean"}
      /\ owed = 2 => phase[Script] = "stop"

\* What will be removed: a death is not yet made good, a tunnel installs and
\* will stop, or the command is ahead of somebody who cleans.
Due(cmd) ==
    \/ owed = 2 \/ (owed = 1 /\ phase[Script] = "off")
    \/ \E t \in Tunnels : phase[t] \in {"apply", "on"}
    \/ \E a \in Actors : phase[a] = "stop" /\ Ahead(a, cmd)
JumpDue(x) == Count(x) > 0 => Due(Del(x))
RulesDue(c) == chain[c] \notin {Absent, <<>>} => Due(Cmd("-F", c))
ChainDue(c) == chain[c] # Absent => Due(Cmd("-X", c))
\* The jump of an interface is removed by whoever has it in its list.
IfaceDue(i) ==
    hooks[<<i, "PREROUTING">>] > 0 =>
      \/ \E t \in Tunnels : phase[t] \in {"apply", "on"} /\ cfg[t].ifaces = <<i>>
      \/ \E a \in Actors : /\ phase[a] = "stop"
                           /\ Ahead(a, Cmd("-D", <<i, "PREROUTING">>))

DueInv ==
    /\ faults = 0 => /\ JumpDue(Nil)
                     /\ \A c \in {"OUTPUT", "PROXY"} :
                          JumpDue(OutputJump(c)) /\ ChainDue(c)
                     /\ \A c \in Chains : RulesDue(c)
    /\ faults = 0 /\ kills = 0 =>
         ChainDue("PREROUTING") /\ \A i \in Ifaces : IfaceDue(i)
    /\ faults <= 1 => \A c \in {"OUTPUT", "PROXY"} :
                        JumpDue(OutputJump(c)) \/ RulesDue(c)

\* A tunnel that nobody disturbed has made of the table what the commands it
\* has got through make.
Built(t) == Len(Build(cfg[t])) - Len(todo[t])
Filled(c, n) == chain[c] = SubSeq(Bypasses(c), 1, n)
BuiltInv ==
    \A t \in (Tunnels \ touched) \ fatal : phase[t] \in {"apply", "on"} =>
      /\ Built(t) = 1 => chain["OUTPUT"] # Absent
      /\ Built(t) \in 2..4 => Filled("OUTPUT", 0)
      /\ Built(t) \in 5..6 => Filled("OUTPUT", Built(t) - 4)
      /\ Built(t) >= 7 => Filled("OUTPUT", 3)
      /\ Built(t) = 3 => chain["PREROUTING"] # Absent
      /\ Built(t) \in 4..7 => Filled("PREROUTING", 0)
      /\ Built(t) = 8 => Filled("PREROUTING", 1)
      /\ Built(t) >= 9 => Filled("PREROUTING", 2)
      /\ Built(t) >= 10 => hooks[OutputJump("OUTPUT")] > 0
      /\ Built(t) >= 11 =>
           \A i \in ToSet(cfg[t].ifaces) : hooks[<<i, "PREROUTING">>] > 0

\* Nothing tells it off as long as no command fails.
CalmInv == faults = 0 => fatal \subseteq touched

RulesInv ==
    /\ TypeOK /\ ProgramInv /\ OrderInv /\ CountInv /\ OwedInv /\ DueInv
    /\ BuiltInv /\ CalmInv
=============================================================================
