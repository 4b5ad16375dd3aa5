----------------------------- MODULE ConfigStore -----------------------------
(***************************************************************************)
(* The configuration (main.go: the handler of /api/v1/config,              *)
(* applyConfigPatch, saveRuntimeConfig, saveConfig, normalizeConfig): a    *)
(* copy in memory, the file config.json and what State shows of it.        *)
(*                                                                         *)
(* A request reads the copy, merges its patch, writes config.json.tmp,     *)
(* renames it over config.json, stores the copy and publishes it.  Every   *)
(* request has a goroutine of its own; a lock guards each access to the    *)
(* copy and no lock guards the sequence or the file.  The process may be   *)
(* killed at any step, and reads config.json when it is started again.     *)
(*                                                                         *)
(* A file is an inode that a name points to: a rename moves the name, and  *)
(* a descriptor keeps writing to its inode.  The configuration is          *)
(* abstracted to the two sections a patch may hold, each with its          *)
(* normalised values.                                                      *)
(*                                                                         *)
(* A definition named Mut... is the next one with a plausible bug.         *)
(***************************************************************************)
EXTENDS FiniteSets

CONSTANTS
    Handlers,    \* goroutines that serve /api/v1/config
    Values,      \* what a section may hold
    Inodes,      \* BOUND on the files that exist at the same time
    Nil,         \* no file, or no change of a section
    Empty, Torn  \* what a file may hold that is not a configuration

Configs == [dns : Values, hotspot : Values]
\* A patch of one section (one of both overwrites the whole configuration).
Patches == {p \in [dns : Values \cup {Nil}, hotspot : Values \cup {Nil}] :
              p.dns = Nil \/ p.hotspot = Nil}

ASSUME NilAssumption ==
    /\ Nil \notin Inodes \cup Values
    /\ Empty \notin Configs /\ Torn \notin Configs /\ Empty # Torn

VARIABLES
    cfg,      \* the copy in memory
    shown,    \* the configuration State shows
    conf,     \* the inode of config.json
    tmp,      \* the inode of config.json.tmp, or Nil
    data,     \* inode -> what it holds
    up,       \* the process runs
    pc,       \* handler -> where it is
    want,     \* handler -> the configuration it saves
    fd,       \* handler -> the inode it writes, or Nil
    mixed,    \* two requests have been under way at once (history)
    failed    \* a save was answered with an error since nothing was last under
              \* way (history)

fileVars == <<conf, tmp, data>>
reqVars == <<pc, want, fd, mixed, failed>>
vars == <<cfg, shown, fileVars, up, reqVars>>

TypeOK ==
    /\ cfg \in Configs /\ shown \in Configs
    /\ conf \in Inodes /\ tmp \in Inodes \cup {Nil}
    /\ data \in [Inodes -> Configs \cup {Empty, Torn}]
    /\ up \in BOOLEAN
    /\ pc \in [Handlers -> {"idle", "open", "write", "rename", "store",
                            "show"}]
    /\ want \in [Handlers -> Configs]
    /\ fd \in [Handlers -> Inodes \cup {Nil}]
    /\ mixed \in BOOLEAN /\ failed \in BOOLEAN

\* A whole config.json has been read.
Init ==
    /\ cfg \in Configs /\ shown = cfg
    /\ conf \in Inodes /\ tmp = Nil
    /\ data = [i \in Inodes |-> IF i = conf THEN cfg ELSE Empty]
    /\ up = TRUE
    /\ pc = [h \in Handlers |-> "idle"]
    /\ want = [h \in Handlers |-> cfg]
    /\ fd = [h \in Handlers |-> Nil]
    /\ mixed = FALSE /\ failed = FALSE

-----------------------------------------------------------------------------
(* A request.                                                              *)

Goto(h, l) == pc' = [pc EXCEPT ![h] = l]

\* A section that is not in the patch stays as it is.
Merge(c, p) == [dns |-> IF p.dns = Nil THEN c.dns ELSE p.dns,
                hotspot |-> IF p.hotspot = Nil THEN c.hotspot ELSE p.hotspot]

\* The answer is sent and the goroutine ends.
Answer(h, r) ==
    /\ Goto(h, "idle")
    /\ fd' = [fd EXCEPT ![h] = Nil]
    /\ failed' = (failed \/ r = "error")

Settled == up /\ \A h \in Handlers : pc[h] = "idle"

\* A patch that cannot be applied (custom DNS without a resolver).
Refuse(h) ==
    /\ pc[h] = "idle"
    /\ Answer(h, "refused")
    /\ UNCHANGED <<cfg, shown, fileVars, want, mixed>>

Patch(h) ==
    /\ pc[h] = "idle"
    /\ \E p \in Patches : want' = [want EXCEPT ![h] = Merge(cfg, p)]
    /\ Goto(h, "open")
    /\ failed' = (failed /\ ~Settled)
    /\ mixed' = (mixed \/ \E g \in Handlers \ {h} : pc[g] # "idle")
    /\ UNCHANGED <<cfg, shown, fileVars, fd>>

\* os.WriteFile opens the temporary file and empties it: the one there is, or
\* a new one.
Used == {conf, tmp} \cup {fd[h] : h \in Handlers}
MutTarget == {conf}
Target == IF tmp = Nil THEN Inodes \ Used ELSE {tmp}

Open(h) ==
    /\ pc[h] = "open"
    /\ \E i \in Target :
         /\ tmp' = i
         /\ fd' = [fd EXCEPT ![h] = i]
         /\ data' = [data EXCEPT ![i] = Empty]
    /\ Goto(h, "write")
    /\ UNCHANGED <<cfg, shown, conf, want, mixed, failed>>

\* The directory or the file cannot be opened.
OpenFails(h) ==
    /\ pc[h] = "open"
    /\ Answer(h, "error")
    /\ UNCHANGED <<cfg, shown, fileVars, want, mixed>>

\* It writes from the beginning of the file: what another request has written
\* there is overwritten, and its end stays when it is longer.
Write(h) ==
    /\ pc[h] = "write"
    /\ \E d \in {want[h]} \cup (IF data[fd[h]] = Empty THEN {} ELSE {Torn}) :
         data' = [data EXCEPT ![fd[h]] = d]
    /\ Goto(h, "rename")
    /\ UNCHANGED <<cfg, shown, conf, tmp, want, fd, mixed, failed>>

\* No space is left, at once or half way.
WriteFails(h) ==
    /\ pc[h] = "write"
    /\ \E d \in {data[fd[h]], Torn} : data' = [data EXCEPT ![fd[h]] = d]
    /\ Answer(h, "error")
    /\ UNCHANGED <<cfg, shown, conf, tmp, want, mixed>>

\* Whatever the name config.json.tmp stands for now becomes config.json.
Gone == Nil
Rename(h) ==
    /\ pc[h] = "rename"
    /\ tmp # Nil
    /\ conf' = tmp /\ tmp' = Gone
    /\ fd' = [fd EXCEPT ![h] = Nil]
    /\ Goto(h, "store")
    /\ UNCHANGED <<cfg, shown, data, want, mixed, failed>>

\* Another request has renamed it, or the file system refuses.
MutFailed == "ok"
Failed == "error"
RenameFails(h) ==
    /\ pc[h] = "rename"
    /\ Answer(h, Failed)
    /\ UNCHANGED <<cfg, shown, fileVars, want, mixed>>

MutStored(h) == cfg
Stored(h) == want[h]
Store(h) ==
    /\ pc[h] = "store"
    /\ cfg' = Stored(h)
    /\ Goto(h, "show")
    /\ UNCHANGED <<shown, fileVars, want, fd, mixed, failed>>

MutPublished(h) == [want[h] EXCEPT !.hotspot = shown.hotspot]
Published(h) == want[h]
Show(h) ==
    /\ pc[h] = "show"
    /\ shown' = Published(h)
    /\ Answer(h, "ok")
    /\ UNCHANGED <<cfg, fileVars, want, mixed>>

Request(h) ==
    \/ Refuse(h) \/ Patch(h) \/ Open(h) \/ OpenFails(h) \/ Write(h)
    \/ WriteFails(h) \/ Rename(h) \/ RenameFails(h) \/ Store(h) \/ Show(h)

-----------------------------------------------------------------------------
(* The process is killed, and started again if config.json can be read.    *)

Kill ==
    /\ up
    /\ up' = FALSE
    /\ pc' = [h \in Handlers |-> "idle"]
    /\ fd' = [h \in Handlers |-> Nil]
    /\ failed' = FALSE
    /\ UNCHANGED <<cfg, shown, fileVars, want, mixed>>

Start ==
    /\ ~up /\ data[conf] \in Configs
    /\ up' = TRUE
    /\ cfg' = data[conf] /\ shown' = data[conf]
    /\ mixed' = FALSE
    /\ UNCHANGED <<fileVars, pc, want, fd, failed>>

Next ==
    \/ up /\ UNCHANGED up /\ \E h \in Handlers : Request(h)
    \/ Kill
    \/ Start

Spec == Init /\ [][Next]_vars

-----------------------------------------------------------------------------
(* As long as the requests come one after the other, whenever the process  *)
(* is killed.                                                              *)

Whole == data[conf] \in Configs

\* config.json is never empty or torn: the daemon can always be started again.
FileWhole == ~mixed => Whole

\* When nothing is under way the file, the copy and what State shows agree.
SettledAgrees == Settled /\ ~mixed => data[conf] = cfg /\ shown = cfg

\* config.json changes by a patch of what it held: no change of a section made
\* before is lost.
OnlyPatched ==
    [][~mixed /\ data[conf]' # data[conf]
       => \E p \in Patches : data[conf]' = Merge(data[conf], p)]_vars

\* What the proofs add.
SerialInv ==
    ~mixed /\ up =>
        /\ \A g, h \in Handlers : pc[g] # "idle" /\ pc[h] # "idle" => g = h
        /\ \A h \in Handlers :
             /\ pc[h] \in {"open", "write", "rename"}
                => /\ data[conf] = cfg /\ shown = cfg
                   /\ \E p \in Patches : want[h] = Merge(cfg, p)
             /\ pc[h] \in {"write", "rename"} => fd[h] = tmp /\ tmp # Nil
             /\ pc[h] = "write" => data[tmp] = Empty
             /\ pc[h] = "rename" => data[tmp] = want[h]
             /\ pc[h] = "store" => data[conf] = want[h]
             /\ pc[h] = "show" => data[conf] = want[h] /\ cfg = want[h]

DownInv == ~up => \A h \in Handlers : pc[h] = "idle"

-----------------------------------------------------------------------------
(* However the requests overlap.                                           *)

\* config.json is torn or empty at rest only when, of the requests that were
\* under way since nothing last was, the save of one was answered with an error:
\* the file is never spoiled while all the clients are told that all is well.
\* (The one whose change was torn may be told so: a later request, which gets
\* the error, wrote into its file after the rename.)
TornIsReported == Settled /\ ~Whole => failed

\* What the proofs add: a request that is about to make, or has made, a file
\* that is not whole has company, which will rename it away, fail or mend it.
Saving(h) == pc[h] \in {"open", "write", "rename"}
Others(h) == failed \/ \E g \in Handlers \ {h} : Saving(g)
TornInv ==
    up =>
        /\ Whole \/ failed \/ \E h \in Handlers : Saving(h)
        /\ \A h \in Handlers :
             /\ /\ pc[h] = "write" /\ tmp # Nil
                /\ ~(fd[h] = tmp /\ data[tmp] = Empty)
                => Others(h)
             /\ pc[h] = "rename" /\ tmp # Nil /\ data[tmp] \notin Configs
                => Others(h)

\* config.json and config.json.tmp are never one file: a request that begins
\* never empties the configuration in use.
NamesApart == tmp # conf

ConfigInv ==
    TypeOK /\ NamesApart /\ FileWhole /\ SettledAgrees /\ SerialInv /\ DownInv

-----------------------------------------------------------------------------
\* openapi.yaml:174: the daemon "persists it via atomic rename": config.json is
\* whole whatever the requests do.
AlwaysWhole == Whole

=============================================================================
