---------------------------- MODULE ProfileStore ----------------------------
(***************************************************************************)
(* The SSH profiles (main.go: the handlers of /api/v1/profile/*,           *)
(* selectedProfile, selectProfileByID, upsertProfile, uniqueProfileID,     *)
(* saveProfiles, the first half of startTunnel, the start of run): the     *)
(* file profiles.json, the copy pf in memory, and the profile sp a tunnel  *)
(* is started with.                                                        *)
(*                                                                         *)
(* A request holds profileMu from the reading of the file until pf is      *)
(* assigned.  startTunnel reads pf and assigns sp without it.  The process *)
(* may be killed at any step, and reads profiles.json when it is started   *)
(* again.                                                                  *)
(*                                                                         *)
(* A profile is abstracted to its id, its flag "selected" and whether it   *)
(* has a password.  A definition named Mut... is the next one with a       *)
(* plausible bug.                                                          *)
(***************************************************************************)
EXTENDS SequencesExt

CONSTANTS
    Handlers,     \* goroutines that serve /api/v1/profile/*
    Starters,     \* goroutines that run startTunnel
    Ids,          \* profile ids
    MaxProfiles,  \* BOUND on the profiles in the file
    Nil,          \* the empty id, no profile, nobody
    Torn          \* half of a file, or of what an unlocked read finds

ASSUME ProfileAssumption ==
    /\ Nil \notin Ids \cup Handlers \cup Starters
    /\ Torn \notin Ids \cup {Nil} /\ Handlers \cap Starters = {}
    /\ MaxProfiles \in Nat \ {0}

Goroutines == Handlers \cup Starters
Profile == [id : Ids, selected : BOOLEAN, password : BOOLEAN]
ProfilesFile ==
    [selected_id : Ids \cup {Nil},
     profiles : BoundedSeq(Profile, MaxProfiles)]

VARIABLES
    file,     \* profiles.json
    tmp,      \* profiles.json.tmp: what it holds, or Nil
    pf,       \* the copy in memory
    sp,       \* the id of the profile of the next tunnel, or Nil
    running,  \* tunnelRunning
    mu,       \* who holds profileMu, or Nil
    up,       \* the process runs
    panicked, \* its last start ended in a panic
    pc,       \* goroutine -> where it is
    next,     \* goroutine -> what it has loaded and changed
    using,    \* starter -> the profile its tunnel was given, or Nil
    was       \* starter -> the selections since it began (history)

store == <<file, tmp>>
tunnel == <<sp, running, using, was>>
process == <<up, panicked>>
vars == <<store, pf, tunnel, mu, process, pc, next>>

Places ==
    {"idle", "write", "rename", "load", "assign", "pick", "use", "on"}

TypeOK ==
    /\ file \in ProfilesFile /\ pf \in ProfilesFile
    /\ tmp \in ProfilesFile \cup {Nil, Torn}
    /\ sp \in Ids \cup {Nil, Torn}
    /\ running \in BOOLEAN /\ up \in BOOLEAN /\ panicked \in BOOLEAN
    /\ mu \in Goroutines \cup {Nil}
    /\ pc \in [Goroutines -> Places]
    /\ next \in [Goroutines -> ProfilesFile]
    /\ using \in [Starters -> Ids \cup {Nil, Torn}]
    /\ was \in [Starters -> SUBSET (Ids \cup {Nil})]

-----------------------------------------------------------------------------
(* Reading and changing the list.                                          *)

IdsOf(f) == {p.id : p \in ToSet(f.profiles)}

\* The profile with the selected id, else one with the flag, else the first.
MutSelectedProfile(f) == IF f.profiles = <<>> THEN Nil ELSE f.profiles[1].id
SelectedProfile(f) ==
    LET at == DOMAIN f.profiles
        byId == {k \in at : f.profiles[k].id = f.selected_id}
        flagged == {k \in at : f.profiles[k].selected}
        tried == IF byId # {} THEN byId
                 ELSE IF flagged # {} THEN flagged ELSE at
    IN  IF tried = {} THEN Nil ELSE f.profiles[Min(tried)].id

SelectById(f, i) ==
    [selected_id |-> i,
     profiles |-> [k \in DOMAIN f.profiles |->
                     LET p == f.profiles[k]
                     IN  [p EXCEPT !.selected = (p.id = i)]]]

\* The profiles of another id than i, in the order they have.
InOrder(o) == \A j, k \in DOMAIN o : j < k => o[j] < o[k]
Without(list, i) ==
    LET kept == {k \in DOMAIN list : list[k].id # i}
        order == CHOOSE o \in BoundedSeq(kept, Len(list)) :
                   ToSet(o) = kept /\ InOrder(o)
    IN  [j \in DOMAIN order |-> list[order[j]]]

MutDelete(f, i) == [f EXCEPT !.profiles = Without(@, i)]
Delete(f, i) ==
    [selected_id |-> IF f.selected_id = i THEN Nil ELSE f.selected_id,
     profiles |-> Without(f.profiles, i)]

\* A request to save: the id is generated when a profile is created.
FreshIds(f) == Ids \ IdsOf(f)
Saves(f) ==
    {r \in [id : Ids, creating : BOOLEAN, select : BOOLEAN,
            password : BOOLEAN] :
       /\ r.creating => r.id \in FreshIds(f)
       /\ r.id \in IdsOf(f) \/ Len(f.profiles) < MaxProfiles}

\* An empty password keeps the stored one.
Kept(f, r) ==
    r.password \/ \E p \in ToSet(f.profiles) : p.id = r.id /\ p.password

Upsert(f, r) ==
    LET new == [id |-> r.id, selected |-> FALSE, password |-> Kept(f, r)]
        list == IF r.id \in IdsOf(f)
                THEN [k \in DOMAIN f.profiles |->
                        IF f.profiles[k].id = r.id THEN new ELSE f.profiles[k]]
                ELSE Append(f.profiles, new)
        saved == [f EXCEPT !.profiles = list]
    IN  IF r.select \/ f.selected_id \in {Nil, r.id}
        THEN SelectById(saved, r.id) ELSE saved

\* What the requests that are not refused make of f.
Asked(f) ==
    {SelectById(f, i) : i \in IdsOf(f)} \cup {Delete(f, i) : i \in IdsOf(f)}
    \cup {Upsert(f, r) : r \in Saves(f)}

Empty == [selected_id |-> Nil, profiles |-> <<>>]
\* A list with one profile, selected.
Shipped(i) ==
    [selected_id |-> i,
     profiles |-> <<[id |-> i, selected |-> TRUE, password |-> TRUE]>>]

Init ==
    /\ \E i \in Ids : file = Shipped(i) /\ sp = i
    /\ tmp = Nil /\ pf = file
    /\ running = FALSE /\ mu = Nil /\ up = TRUE /\ panicked = FALSE
    /\ pc = [g \in Goroutines |-> "idle"]
    /\ next = [g \in Goroutines |-> Empty]
    /\ using = [s \in Starters |-> Nil]
    /\ was = [s \in Starters |-> {}]

-----------------------------------------------------------------------------
(* A request.  One that is refused (no such profile, an invalid field)     *)
(* only locks and unlocks.                                                 *)

Goto(g, l) == pc' = [pc EXCEPT ![g] = l]

MutUnlocked == TRUE
Unlocked == mu = Nil

Change(h) ==
    /\ pc[h] = "idle" /\ Unlocked
    /\ \E f \in Asked(file) : next' = [next EXCEPT ![h] = f]
    /\ mu' = h
    /\ Goto(h, "write")
    /\ UNCHANGED <<store, pf, tunnel, process>>

\* GET /api/v1/profiles.
List(h) ==
    /\ pc[h] = "idle" /\ Unlocked
    /\ next' = [next EXCEPT ![h] = file]
    /\ mu' = h
    /\ Goto(h, "assign")
    /\ UNCHANGED <<store, pf, tunnel, process>>

Write(h) ==
    /\ pc[h] = "write"
    /\ tmp' = next[h]
    /\ Goto(h, "rename")
    /\ UNCHANGED <<file, pf, tunnel, mu, process, next>>

WriteFails(h) ==
    /\ pc[h] = "write"
    /\ tmp' = Torn
    /\ mu' = Nil
    /\ next' = [next EXCEPT ![h] = Empty]
    /\ Goto(h, "idle")
    /\ UNCHANGED <<file, pf, tunnel, process>>

\* What is selected in f, for the properties.
Selection(f) ==
    IF f.selected_id # Nil \/ f.profiles = <<>> THEN f.selected_id
    ELSE f.profiles[1].id

Rename(h) ==
    /\ pc[h] = "rename"
    /\ file' = tmp /\ tmp' = Nil
    /\ was' = [s \in Starters |->
                 was[s] \cup (IF pc[s] = "idle" THEN {} ELSE {Selection(tmp)})]
    /\ Goto(h, "assign")
    /\ UNCHANGED <<pf, sp, running, using, mu, process, next>>

MutAssigned(g) == [next[g] EXCEPT !.selected_id = pf.selected_id]
Assigned(g) == next[g]
Assign(g) ==
    /\ pc[g] = "assign"
    /\ pf' = Assigned(g)
    /\ mu' = Nil
    /\ next' = [next EXCEPT ![g] = Empty]
    /\ Goto(g, IF g \in Starters THEN "pick" ELSE "idle")
    /\ UNCHANGED <<store, tunnel, process>>

Request(h) ==
    \/ Change(h) \/ List(h) \/ Write(h) \/ WriteFails(h) \/ Rename(h)
    \/ Assign(h)

-----------------------------------------------------------------------------
(* startTunnel.                                                            *)

Begin(s) ==
    /\ pc[s] = "idle" /\ ~running
    /\ was' = [was EXCEPT ![s] = {Selection(file)}]
    /\ Goto(s, "load")
    /\ UNCHANGED <<store, pf, sp, running, using, mu, process, next>>

Load(s) ==
    /\ pc[s] = "load" /\ Unlocked
    /\ next' = [next EXCEPT ![s] = file]
    /\ mu' = s
    /\ Goto(s, "assign")
    /\ UNCHANGED <<store, pf, tunnel, process>>

\* pf is read without the lock: what is found while another goroutine assigns
\* it may be half of the one and half of the other.
Found == {SelectedProfile(pf)}
         \cup (IF \E g \in Goroutines : pc[g] = "assign" THEN {Torn} ELSE {})

Pick(s) ==
    /\ pc[s] = "pick"
    /\ \E i \in Found :
         /\ sp' = i
         /\ running' = (running \/ i # Nil)
         /\ Goto(s, IF i = Nil THEN "idle" ELSE "use")
         /\ was' = [was EXCEPT ![s] = IF i = Nil THEN {} ELSE @]
    /\ UNCHANGED <<store, pf, using, mu, process, next>>

\* The goroutine of the tunnel copies *sp, which another startTunnel may have
\* assigned since.
Use(s) ==
    /\ pc[s] = "use" /\ sp # Nil
    /\ using' = [using EXCEPT ![s] = sp]
    /\ Goto(s, "on")
    /\ UNCHANGED <<store, pf, sp, running, was, mu, process, next>>

Ended(s) ==
    /\ pc[s] = "on"
    /\ running' = FALSE
    /\ using' = [using EXCEPT ![s] = Nil]
    /\ was' = [was EXCEPT ![s] = {}]
    /\ Goto(s, "idle")
    /\ UNCHANGED <<store, pf, sp, mu, process, next>>

Starting(s) ==
    \/ Begin(s) \/ Load(s) \/ Assign(s) \/ Pick(s) \/ Use(s) \/ Ended(s)

-----------------------------------------------------------------------------
(* The process ends, and is started again.                                 *)

Down ==
    /\ up' = FALSE
    /\ pc' = [g \in Goroutines |-> "idle"]
    /\ mu' = Nil
    /\ running' = FALSE
    /\ using' = [s \in Starters |-> Nil]
    /\ was' = [s \in Starters |-> {}]
    /\ pf' = Empty /\ sp' = Nil
    /\ next' = [g \in Goroutines |-> Empty]
    /\ UNCHANGED store

Kill == Down /\ UNCHANGED panicked

\* *sp is read although sp is nil.
UsePanics ==
    /\ \E s \in Starters : pc[s] = "use" /\ sp = Nil
    /\ Down /\ UNCHANGED panicked

Start ==
    /\ SelectedProfile(file) # Nil
    /\ up' = TRUE /\ panicked' = FALSE
    /\ pf' = file /\ sp' = SelectedProfile(file)
    /\ UNCHANGED <<store, running, using, was, mu, pc, next>>

\* Without a profile the daemon reports it and ends, but with --idle it goes on
\* and reads sp.Name.
StartPanics ==
    /\ SelectedProfile(file) = Nil
    /\ panicked' = TRUE
    /\ UNCHANGED <<store, pf, tunnel, mu, up, pc, next>>

Next ==
    \/ up /\ UNCHANGED process /\ \E h \in Handlers : Request(h)
    \/ up /\ UNCHANGED process /\ \E s \in Starters : Starting(s)
    \/ up /\ (Kill \/ UsePanics)
    \/ ~up /\ (Start \/ StartPanics)

Spec == Init /\ [][Next]_vars

-----------------------------------------------------------------------------
(* Properties.                                                             *)

\* profiles.json has no two profiles of one id, and its flags say what
\* selected_id says: the three rules of selectedProfile, and the dashboard that
\* looks at both, agree on the selected profile.
Readable(f) == f \notin {Nil, Torn}
Sound(f) ==
    /\ \A j, k \in DOMAIN f.profiles :
         f.profiles[j].id = f.profiles[k].id => j = k
    /\ f.selected_id \in IdsOf(f) \cup {Nil}
    /\ \A p \in ToSet(f.profiles) : p.selected <=> p.id = f.selected_id
FileSound == Readable(file) => Sound(file)

\* profiles.json changes by a request that was made of what it held: no change
\* is lost and the file can always be read, whatever overlaps and whenever the
\* process is killed.  A profile that has a password keeps one as long as it
\* exists.
HavePassword(f) == {p.id : p \in {q \in ToSet(f.profiles) : q.password}}
OnlyAsked ==
    [][file' # file =>
         /\ file' \in Asked(file)
         /\ HavePassword(file) \cap IdsOf(file)' \subseteq HavePassword(file)']_vars

\* When nothing is under way, pf is what profiles.json holds.
Busy == {"write", "rename", "assign"}
CopyAgrees == up /\ (\A g \in Goroutines : pc[g] \notin Busy) => pf = file

\* A tunnel is given a profile that was the selected one at some time since
\* startTunnel was called for it, unless its read of pf was torn.
RightProfile ==
    \A s \in Starters : using[s] \notin {Nil, Torn} => using[s] \in was[s]

\* Why the properties hold, as one inductive invariant.  Who is between the
\* reading of the file and the assignment of pf holds profileMu, and only a
\* request writes.
LockInv ==
    /\ \A g \in Goroutines : pc[g] \in Busy <=> mu = g
    /\ \A s \in Starters : pc[s] \notin {"write", "rename"}
    /\ \A h \in Handlers : pc[h] \in {"idle"} \cup Busy
    /\ up \/ \A g \in Goroutines : pc[g] = "idle"

\* What the holder has is what it will make of the file, or the file as it is;
\* tmp is the holder's from the writing to the rename.
HolderInv ==
    /\ \A h \in Handlers : pc[h] \in {"write", "rename"} =>
         next[h] \in Asked(file)
    /\ \A h \in Handlers : pc[h] = "rename" => tmp = next[h]
    /\ \A g \in Goroutines : pc[g] = "assign" => next[g] = file
    /\ up /\ (\A g \in Goroutines : pc[g] # "assign") => pf = file

SoundInv == Sound(file) /\ Sound(pf)

\* The selection of a start is one of those since it began, at each place the
\* profile passes through: the file, pf, sp and the tunnel's own copy.
PassedInv ==
    \A s \in Starters :
      /\ pc[s] # "idle" => Selection(file) \in was[s]
      /\ pc[s] \in {"pick", "use", "on"} => Selection(pf) \in was[s]
      /\ pc[s] = "use" => sp \in was[s] \cup {Nil, Torn}
      /\ pc[s] # "on" => using[s] = Nil
      /\ using[s] \notin {Nil, Torn} => using[s] \in was[s]

StoreInv == TypeOK /\ LockInv /\ HolderInv /\ SoundInv /\ PassedInv

\* CHANGELOG.md:12: "the WebUI ... is always accessible, even when the tunnel
\* is not running": a daemon started with --idle runs.
IdleStarts == ~panicked

=============================================================================
