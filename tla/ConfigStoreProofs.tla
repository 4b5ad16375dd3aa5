-------------------------- MODULE ConfigStoreProofs --------------------------
(***************************************************************************)
(* Proofs about ConfigStore, for any number of requests, values and files. *)
(***************************************************************************)
EXTENDS ConfigStore, TLAPS

(***************************************************************************)
(* A merged configuration is a configuration.                              *)
(***************************************************************************)
LEMMA MergeType ==
    ASSUME NEW c \in Configs, NEW p \in Patches
    PROVE  Merge(c, p) \in Configs
BY DEF Merge, Configs, Patches

(***************************************************************************)
(* Every reachable state of the store is well typed.                       *)
(***************************************************************************)
LEMMA InitType == Init => TypeOK
<1> SUFFICES ASSUME Init PROVE TypeOK
  OBVIOUS
<1> USE DEF Init
<1>1. cfg \in Configs /\ shown \in Configs /\ conf \in Inodes /\ tmp = Nil
  OBVIOUS
<1>2. data \in [Inodes -> Configs \cup {Empty, Torn}]
  BY <1>1
<1>3. pc \in [Handlers -> {"idle", "open", "write", "rename", "store", "show"}]
  OBVIOUS
<1>4. want \in [Handlers -> Configs] /\ fd \in [Handlers -> Inodes \cup {Nil}]
  BY <1>1
<1>5. up \in BOOLEAN /\ mixed \in BOOLEAN /\ failed \in BOOLEAN
  OBVIOUS
<1> QED BY <1>1, <1>2, <1>3, <1>4, <1>5 DEF TypeOK

LEMMA AnswerType ==
    ASSUME TypeOK, NEW h \in Handlers, NEW r, Answer(h, r)
    PROVE  /\ pc' \in [Handlers -> {"idle", "open", "write", "rename", "store",
                                    "show"}]
           /\ fd' \in [Handlers -> Inodes \cup {Nil}]
           /\ failed' \in BOOLEAN
<1>1. failed' \in BOOLEAN
  BY Zenon DEF Answer
<1> QED BY <1>1 DEF TypeOK, Answer, Goto

LEMMA RequestType ==
    ASSUME TypeOK, UNCHANGED up, NEW h \in Handlers, Request(h)
    PROVE  TypeOK'
<1> USE DEF Settled
<1>0. CASE OpenFails(h)
  BY <1>0, AnswerType DEF TypeOK, OpenFails, fileVars
<1>1. CASE Refuse(h)
  BY <1>1, AnswerType DEF TypeOK, Refuse, fileVars
<1>2. CASE Patch(h)
  <2>1. failed' \in BOOLEAN
    BY <1>2, Zenon DEF Patch
  <2>2. mixed' \in BOOLEAN
    BY <1>2, Zenon DEF Patch
  <2>3. want' \in [Handlers -> Configs]
    BY MergeType, <1>2 DEF TypeOK, Patch
  <2> QED BY <1>2, <2>1, <2>2, <2>3 DEF TypeOK, Patch, Goto, fileVars
<1>3. CASE Open(h)
  BY NilAssumption, <1>3 DEF TypeOK, Open, Target, Used, Goto
<1>4. CASE Write(h)
  <2>1. want[h] \in Configs /\ data \in [Inodes -> Configs \cup {Empty, Torn}]
    BY DEF TypeOK
  <2>2. PICK d \in {want[h], Torn} : data' = [data EXCEPT ![fd[h]] = d]
    BY <1>4 DEF Write
  <2>3. d \in Configs \cup {Empty, Torn}
    BY <2>1
  <2>4. data' \in [Inodes -> Configs \cup {Empty, Torn}]
    BY <2>1, <2>2, <2>3
  <2>5. pc' = [pc EXCEPT ![h] = "rename"]
    BY <1>4 DEF Write, Goto
  <2>6. /\ UNCHANGED <<cfg, shown, conf, tmp, want, fd, mixed, failed>>
    BY <1>4 DEF Write
  <2> QED BY <2>4, <2>5, <2>6 DEF TypeOK
<1>5. CASE WriteFails(h)
  BY <1>5, AnswerType DEF TypeOK, WriteFails
<1>6. CASE Rename(h)
  BY <1>6 DEF TypeOK, Rename, Goto, Gone
<1>7. CASE RenameFails(h)
  BY <1>7, AnswerType DEF TypeOK, RenameFails, Failed, fileVars
<1>8. CASE Store(h)
  BY <1>8 DEF TypeOK, Store, Goto, Stored, fileVars
<1>9. CASE Show(h)
  BY <1>9, AnswerType DEF TypeOK, Show, Published, fileVars
<1> QED  BY <1>0, <1>1, <1>2, <1>3, <1>4, <1>5, <1>6, <1>7, <1>8, <1>9 DEF Request

LEMMA NextType == TypeOK /\ [Next]_vars => TypeOK'
<1> SUFFICES ASSUME TypeOK, [Next]_vars PROVE TypeOK'
  OBVIOUS
<1>1. CASE up /\ UNCHANGED up /\ \E h \in Handlers : Request(h)
  BY <1>1, RequestType
<1>2. CASE Kill
  BY <1>2 DEF TypeOK, Kill, fileVars
<1>3. CASE Start
  BY <1>3 DEF TypeOK, Start, fileVars
<1>4. CASE UNCHANGED vars
  BY <1>4 DEF TypeOK, vars, fileVars, reqVars
<1> QED  BY <1>1, <1>2, <1>3, <1>4 DEF Next

THEOREM Typing == Spec => []TypeOK
BY InitType, NextType, PTL DEF Spec

(***************************************************************************)
(* The inductive invariant.  The names of config.json and its temporary    *)
(* file stay apart without any assumption on the requests; what the file   *)
(* holds follows only while they come one after the other, because a       *)
(* request then knows the temporary file as its own from Open to Rename.   *)
(***************************************************************************)
LEMMA InitInv == Init => ConfigInv
<1> SUFFICES ASSUME Init PROVE ConfigInv
  OBVIOUS
<1>1. TypeOK
  BY InitType
<1>2. data[conf] = cfg
  BY DEF Init
<1> QED
  BY <1>1, <1>2, NilAssumption
  DEF Init, ConfigInv, NamesApart, FileWhole, Whole, SettledAgrees, SerialInv,
      DownInv

LEMMA RequestInv ==
    ASSUME ConfigInv, up, UNCHANGED up, NEW h \in Handlers, Request(h)
    PROVE  ConfigInv'
<1>0. TypeOK /\ TypeOK'
  BY RequestType DEF ConfigInv
<1>a. DownInv'
  BY DEF DownInv
<1> USE <1>0, <1>a DEF Settled
<1>1. CASE Refuse(h)
  <2>1. /\ \A g \in Handlers :
             pc'[g] = pc[g] /\ fd'[g] = (IF g = h THEN Nil ELSE fd[g])
        /\ UNCHANGED <<cfg, shown, conf, tmp, data, want, mixed>>
    BY <1>1 DEF Refuse, Answer, Goto, fileVars, TypeOK
  <2> QED
    BY <1>1, <2>1 DEF Refuse, ConfigInv, NamesApart, FileWhole, Whole,
                 SettledAgrees, SerialInv
<1>2. CASE Patch(h)
  <2>1. PICK p \in Patches : want' = [want EXCEPT ![h] = Merge(cfg, p)]
    BY <1>2 DEF Patch
  <2>2. /\ pc[h] = "idle"
        /\ pc' = [pc EXCEPT ![h] = "open"]
        /\ mixed' = (mixed \/ \E g \in Handlers \ {h} : pc[g] # "idle")
        /\ UNCHANGED <<cfg, shown, conf, tmp, data, fd>>
    BY <1>2 DEF Patch, Goto, fileVars
  <2>3. NamesApart' /\ FileWhole' /\ SettledAgrees'
    BY <2>2 DEF ConfigInv, NamesApart, FileWhole, Whole, SettledAgrees, TypeOK
  <2>4. SerialInv'
    <3> SUFFICES ASSUME ~mixed' PROVE SerialInv'
      BY DEF SerialInv
    <3>1. ~mixed /\ \A g \in Handlers : pc[g] = "idle"
      BY <2>2
    <3>2. data[conf] = cfg /\ shown = cfg
      BY <3>1 DEF ConfigInv, SettledAgrees
    <3>3. \A g \in Handlers \ {h} : pc'[g] = "idle"
      BY <2>2, <3>1 DEF TypeOK
    <3>4. pc'[h] = "open" /\ want'[h] = Merge(cfg, p)
      BY <2>1, <2>2 DEF TypeOK
    <3> QED
      BY <2>2, <3>2, <3>3, <3>4 DEF SerialInv
  <2> QED  BY <2>3, <2>4 DEF ConfigInv
<1>3. CASE Open(h)
  <2>1. PICK i \in Target : /\ tmp' = i
                            /\ fd' = [fd EXCEPT ![h] = i]
                            /\ data' = [data EXCEPT ![i] = Empty]
    BY <1>3 DEF Open
  <2>2. /\ pc[h] = "open"
        /\ pc' = [pc EXCEPT ![h] = "write"]
        /\ UNCHANGED <<cfg, shown, conf, want, mixed>>
    BY <1>3 DEF Open, Goto
  <2>3. i # conf /\ i \in Inodes /\ i # Nil
    BY <2>1, NilAssumption DEF Target, Used, ConfigInv, NamesApart, TypeOK
  <2>4. data'[conf] = data[conf]
    BY <2>1, <2>3 DEF TypeOK
  <2>5. NamesApart' /\ FileWhole' /\ SettledAgrees'
    <3>1. NamesApart'
      BY <2>1, <2>2, <2>3 DEF NamesApart
    <3>2. FileWhole'
      BY <2>2, <2>4 DEF ConfigInv, FileWhole, Whole
    <3>3. SettledAgrees'
      BY <2>2 DEF SettledAgrees, TypeOK
    <3> QED  BY <3>1, <3>2, <3>3
  <2>6. SerialInv'
    <3> SUFFICES ASSUME ~mixed' PROVE SerialInv'
      BY DEF SerialInv
    <3>1. ~mixed /\ \A g \in Handlers \ {h} : pc[g] = "idle"
      BY <2>2 DEF ConfigInv, SerialInv
    <3>2. \A g \in Handlers \ {h} : pc'[g] = "idle"
      BY <2>2, <3>1 DEF TypeOK
    <3>3. pc'[h] = "write" /\ fd'[h] = i
      BY <2>1, <2>2 DEF TypeOK
    <3>4. /\ data'[conf'] = cfg' /\ shown' = cfg'
          /\ \E p \in Patches : want'[h] = Merge(cfg', p)
      BY <2>2, <2>4, <3>1 DEF ConfigInv, SerialInv
    <3>5. tmp' = i /\ i # Nil /\ data'[i] = Empty
      BY <2>1, <2>3 DEF TypeOK
    <3> QED
      BY <3>2, <3>3, <3>4, <3>5 DEF SerialInv
  <2> QED  BY <2>5, <2>6 DEF ConfigInv
<1>4. CASE Write(h)
  <2>1. PICK d \in {want[h]} \cup (IF data[fd[h]] = Empty THEN {} ELSE {Torn}) :
           data' = [data EXCEPT ![fd[h]] = d]
    BY <1>4 DEF Write
  <2>2. /\ pc[h] = "write"
        /\ pc' = [pc EXCEPT ![h] = "rename"]
        /\ UNCHANGED <<cfg, shown, conf, tmp, want, fd, mixed>>
    BY <1>4 DEF Write, Goto
  <2>3. NamesApart' /\ SettledAgrees'
    BY <2>2 DEF ConfigInv, NamesApart, SettledAgrees, TypeOK
  <2>4. CASE mixed
    BY <2>2, <2>3, <2>4 DEF ConfigInv, FileWhole, SerialInv
  <2>5. CASE ~mixed
    <3>1. /\ \A g \in Handlers \ {h} : pc[g] = "idle"
          /\ fd[h] = tmp /\ tmp # Nil
      BY <2>2, <2>5 DEF ConfigInv, SerialInv
    <3>2. data'[conf] = data[conf]
      BY <2>1, <3>1 DEF ConfigInv, NamesApart, TypeOK
    <3>3. data'[tmp] = want[h]
      BY <2>1, <2>2, <2>5, <3>1 DEF ConfigInv, SerialInv, TypeOK
    <3>4. FileWhole'
      BY <2>2, <2>5, <3>2 DEF ConfigInv, FileWhole, Whole
    <3>5. SerialInv'
      <4>1. \A g \in Handlers \ {h} : pc'[g] = "idle"
        BY <2>2, <3>1 DEF TypeOK
      <4>2. pc'[h] = "rename"
        BY <2>2 DEF TypeOK
      <4>3. /\ data'[conf'] = cfg' /\ shown' = cfg'
            /\ \E p \in Patches : want'[h] = Merge(cfg', p)
        BY <2>2, <2>5, <3>2 DEF ConfigInv, SerialInv
      <4> QED
        BY <2>2, <3>1, <3>3, <4>1, <4>2, <4>3 DEF SerialInv
    <3> QED  BY <2>3, <3>4, <3>5 DEF ConfigInv
  <2> QED  BY <2>4, <2>5
<1>5. CASE WriteFails(h)
  <2>1. PICK d : data' = [data EXCEPT ![fd[h]] = d]
    BY <1>5 DEF WriteFails
  <2>2. /\ pc[h] = "write"
        /\ pc' = [pc EXCEPT ![h] = "idle"]
        /\ fd' = [fd EXCEPT ![h] = Nil]
        /\ UNCHANGED <<cfg, shown, conf, tmp, want, mixed>>
    BY <1>5 DEF WriteFails, Answer, Goto
  <2>3. NamesApart'
    BY <2>2 DEF ConfigInv, NamesApart
  <2>4. CASE mixed
    BY <2>2, <2>3, <2>4 DEF ConfigInv, FileWhole, SettledAgrees, SerialInv
  <2>5. CASE ~mixed
    <3>1. /\ \A g \in Handlers \ {h} : pc[g] = "idle"
          /\ fd[h] = tmp /\ tmp # Nil
          /\ data[conf] = cfg /\ shown = cfg
      BY <2>2, <2>5 DEF ConfigInv, SerialInv
    <3>2. data'[conf] = data[conf]
      BY <2>1, <3>1 DEF ConfigInv, NamesApart, TypeOK
    <3>3. \A g \in Handlers : pc'[g] = "idle"
      BY <2>2, <3>1 DEF TypeOK
    <3> QED
      BY <2>2, <2>3, <3>1, <3>2, <3>3
      DEF ConfigInv, FileWhole, Whole, SettledAgrees, SerialInv, TypeOK
  <2> QED  BY <2>4, <2>5
<1>6. CASE Rename(h)
  <2>1. /\ pc[h] = "rename"
        /\ pc' = [pc EXCEPT ![h] = "store"]
        /\ tmp # Nil /\ conf' = tmp /\ tmp' = Nil
        /\ fd' = [fd EXCEPT ![h] = Nil]
        /\ UNCHANGED <<cfg, shown, data, want, mixed>>
    BY <1>6 DEF Rename, Goto, Gone
  <2>2. NamesApart'
    BY <2>1, NilAssumption DEF NamesApart, TypeOK
  <2>3. SettledAgrees'
    BY <2>1 DEF SettledAgrees, TypeOK
  <2>4. CASE mixed
    BY <2>1, <2>2, <2>3, <2>4 DEF ConfigInv, FileWhole, SerialInv
  <2>5. CASE ~mixed
    <3>1. /\ \A g \in Handlers \ {h} : pc[g] = "idle"
          /\ data[tmp] = want[h]
      BY <2>1, <2>5 DEF ConfigInv, SerialInv
    <3>2. data'[conf'] = want'[h] /\ want[h] \in Configs
      BY <2>1, <3>1 DEF TypeOK
    <3>3. FileWhole'
      BY <2>1, <3>2 DEF FileWhole, Whole
    <3>4. pc'[h] = "store" /\ \A g \in Handlers \ {h} : pc'[g] = "idle"
      BY <2>1, <3>1 DEF TypeOK
    <3>5. SerialInv'
      BY <3>2, <3>4 DEF SerialInv
    <3> QED  BY <2>2, <2>3, <3>3, <3>5 DEF ConfigInv
  <2> QED  BY <2>4, <2>5
<1>7. CASE OpenFails(h) \/ RenameFails(h)
  <2>1. /\ pc[h] \in {"open", "rename"}
        /\ pc' = [pc EXCEPT ![h] = "idle"]
        /\ fd' = [fd EXCEPT ![h] = Nil]
        /\ UNCHANGED <<cfg, shown, conf, tmp, data, want, mixed>>
    BY <1>7 DEF OpenFails, RenameFails, Answer, Goto, fileVars
  <2>2. NamesApart' /\ FileWhole'
    BY <2>1 DEF ConfigInv, NamesApart, FileWhole, Whole
  <2>3. CASE mixed
    BY <2>1, <2>2, <2>3 DEF ConfigInv, SettledAgrees, SerialInv
  <2>4. CASE ~mixed
    <3>1. \A g \in Handlers : pc'[g] = "idle"
      BY <2>1, <2>4 DEF ConfigInv, SerialInv, TypeOK
    <3>2. data[conf] = cfg /\ shown = cfg
      BY <2>1, <2>4 DEF ConfigInv, SerialInv
    <3> QED
      BY <2>1, <2>2, <3>1, <3>2 DEF ConfigInv, SettledAgrees, SerialInv
  <2> QED  BY <2>3, <2>4
<1>8. CASE Store(h)
  <2>1. /\ pc[h] = "store"
        /\ pc' = [pc EXCEPT ![h] = "show"]
        /\ cfg' = want[h]
        /\ UNCHANGED <<shown, conf, tmp, data, want, fd, mixed>>
    BY <1>8 DEF Store, Stored, Goto, fileVars
  <2>2. pc'[h] = "show" /\ \A g \in Handlers \ {h} : pc'[g] = pc[g]
    BY <2>1 DEF TypeOK
  <2>3. SettledAgrees'
    BY <2>2 DEF SettledAgrees
  <2>4. NamesApart' /\ FileWhole'
    BY <2>1 DEF ConfigInv, NamesApart, FileWhole, Whole
  <2>5. CASE mixed
    BY <2>1, <2>3, <2>4, <2>5 DEF ConfigInv, SerialInv
  <2>6. CASE ~mixed
    <3>1. \A g \in Handlers \ {h} : pc'[g] = "idle"
      BY <2>1, <2>2, <2>6 DEF ConfigInv, SerialInv
    <3>2. data'[conf'] = want'[h] /\ cfg' = want'[h]
      BY <2>1, <2>6 DEF ConfigInv, SerialInv
    <3>3. SerialInv'
      BY <2>2, <3>1, <3>2 DEF SerialInv
    <3> QED  BY <2>3, <2>4, <3>3 DEF ConfigInv
  <2> QED  BY <2>5, <2>6
<1>9. CASE Show(h)
  <2>1. /\ pc[h] = "show"
        /\ pc' = [pc EXCEPT ![h] = "idle"]
        /\ shown' = want[h]
        /\ fd' = [fd EXCEPT ![h] = Nil]
        /\ UNCHANGED <<cfg, conf, tmp, data, want, mixed>>
    BY <1>9 DEF Show, Published, Answer, Goto, fileVars
  <2>2. NamesApart' /\ FileWhole'
    BY <2>1 DEF ConfigInv, NamesApart, FileWhole, Whole
  <2>3. CASE mixed
    BY <2>1, <2>2, <2>3 DEF ConfigInv, SettledAgrees, SerialInv
  <2>4. CASE ~mixed
    <3>1. \A g \in Handlers : pc'[g] = "idle"
      BY <2>1, <2>4 DEF ConfigInv, SerialInv, TypeOK
    <3>2. data[conf] = want[h] /\ cfg = want[h]
      BY <2>1, <2>4 DEF ConfigInv, SerialInv
    <3> QED
      BY <2>1, <2>2, <3>1, <3>2 DEF ConfigInv, SettledAgrees, SerialInv
  <2> QED  BY <2>3, <2>4
<1> QED
  BY <1>1, <1>2, <1>3, <1>4, <1>5, <1>6, <1>7, <1>8, <1>9 DEF Request

LEMMA NextInv == ConfigInv /\ [Next]_vars => ConfigInv'
<1> SUFFICES ASSUME ConfigInv, [Next]_vars PROVE ConfigInv'
  OBVIOUS
<1>0. TypeOK /\ TypeOK'
  BY NextType DEF ConfigInv
<1>1. CASE up /\ UNCHANGED up /\ \E h \in Handlers : Request(h)
  BY <1>1, RequestInv
<1>2. CASE Kill
  BY <1>0, <1>2
  DEF Kill, fileVars, ConfigInv, NamesApart, FileWhole, Whole, SettledAgrees,
      Settled, SerialInv, DownInv
<1>3. CASE Start
  <2>1. \A h \in Handlers : pc[h] = "idle"
    BY <1>3 DEF Start, ConfigInv, DownInv
  <2> QED
    BY <1>0, <1>3, <2>1
    DEF Start, fileVars, ConfigInv, NamesApart, FileWhole, Whole,
        SettledAgrees, Settled, SerialInv, DownInv
<1>4. CASE UNCHANGED vars
  BY <1>0, <1>4
  DEF vars, fileVars, reqVars, ConfigInv, NamesApart, FileWhole, Whole,
      SettledAgrees, Settled, SerialInv, DownInv
<1> QED  BY <1>1, <1>2, <1>3, <1>4 DEF Next

LEMMA AlwaysInv == Spec => []ConfigInv
BY InitInv, NextInv, PTL DEF Spec

(***************************************************************************)
(* While the requests come one after the other config.json is whole,       *)
(* wherever the process is killed.                                         *)
(***************************************************************************)
THEOREM FileWholeHolds == Spec => []FileWhole
BY AlwaysInv, PTL DEF ConfigInv

(***************************************************************************)
(* While the requests come one after the other the file, the copy in       *)
(* memory and State agree whenever nothing is under way.                   *)
(***************************************************************************)
THEOREM SettledAgreesHolds == Spec => []SettledAgrees
BY AlwaysInv, PTL DEF ConfigInv

(***************************************************************************)
(* However the requests overlap, a request that begins never empties       *)
(* config.json itself.                                                     *)
(***************************************************************************)
THEOREM NamesApartHolds == Spec => []NamesApart
BY AlwaysInv, PTL DEF ConfigInv

(***************************************************************************)
(* While the requests come one after the other, config.json changes only   *)
(* by the patch of a request.                                              *)
(***************************************************************************)
LEMMA RequestPatches ==
    ASSUME ConfigInv, ~mixed, up, NEW h \in Handlers, Request(h),
           data[conf]' # data[conf]
    PROVE  \E p \in Patches : data[conf]' = Merge(data[conf], p)
<1> USE DEF ConfigInv
<1>1. CASE \/ Refuse(h) \/ Patch(h) \/ OpenFails(h) \/ RenameFails(h)
           \/ Store(h) \/ Show(h)
  BY <1>1 DEF Refuse, Patch, OpenFails, RenameFails, Store, Show, fileVars
<1>2. CASE Open(h)
  BY <1>2 DEF Open, Target, Used, NamesApart, TypeOK
<1>3. CASE Write(h) \/ WriteFails(h)
  <2>1. pc[h] = "write" /\ conf' = conf
    BY <1>3 DEF Write, WriteFails
  <2>2. fd[h] # conf
    BY <2>1 DEF SerialInv, NamesApart
  <2>3. PICK d : data' = [data EXCEPT ![fd[h]] = d]
    BY <1>3 DEF Write, WriteFails
  <2> QED  BY <2>1, <2>2, <2>3 DEF TypeOK
<1>4. CASE Rename(h)
  <2>1. pc[h] = "rename" /\ data'[conf'] = data[tmp]
    BY <1>4 DEF Rename
  <2>2. data[tmp] = want[h] /\ data[conf] = cfg
        /\ \E p \in Patches : want[h] = Merge(cfg, p)
    BY <2>1 DEF SerialInv
  <2> QED  BY <2>1, <2>2
<1> QED
  BY <1>1, <1>2, <1>3, <1>4 DEF Request

THEOREM OnlyPatchedHolds == Spec => OnlyPatched
<1>1. ConfigInv /\ [Next]_vars
      => [~mixed /\ data[conf]' # data[conf]
          => \E p \in Patches : data[conf]' = Merge(data[conf], p)]_vars
  <2> SUFFICES ASSUME ConfigInv, [Next]_vars, ~mixed,
                      data[conf]' # data[conf]
               PROVE  \E p \in Patches : data[conf]' = Merge(data[conf], p)
    OBVIOUS
  <2>1. CASE up /\ UNCHANGED up /\ \E h \in Handlers : Request(h)
    BY <2>1, RequestPatches
  <2>2. CASE Kill \/ Start \/ UNCHANGED vars
    BY <2>2 DEF Kill, Start, vars, fileVars
  <2> QED  BY <2>1, <2>2 DEF Next
<1> QED
  BY <1>1, AlwaysInv, PTL DEF Spec, OnlyPatched

(***************************************************************************)
(* However the requests overlap: a temporary file that is not whole when   *)
(* its name is moved has at least two requests behind it, of which one     *)
(* finds no name to move, so that its save fails, unless another failed.   *)
(***************************************************************************)
LEMMA RequestTorn ==
    ASSUME TypeOK, TornInv, up, UNCHANGED up, NEW h \in Handlers, Request(h)
    PROVE  TornInv'
<1> USE DEF TypeOK, TornInv, Whole, Saving, Others
<1>1. CASE Refuse(h)
  <2>1. /\ pc[h] = "idle" /\ pc' = [pc EXCEPT ![h] = "idle"]
        /\ UNCHANGED <<conf, tmp, data>>
    BY <1>1 DEF Refuse, Answer, Goto, fileVars
  <2>2. failed => failed'
    BY <1>1, Zenon DEF Refuse, Answer
  <2>3. fd' = [fd EXCEPT ![h] = Nil]
    BY <1>1 DEF Refuse, Answer
  <2> QED BY <2>1, <2>2, <2>3
<1>2. CASE Patch(h)
  <2>1. /\ pc' = [pc EXCEPT ![h] = "open"]
        /\ UNCHANGED <<conf, tmp, data, fd>>
    BY <1>2 DEF Patch, Goto, fileVars
  <2>2. ASSUME failed, ~failed' PROVE \A g \in Handlers : pc[g] = "idle"
    BY <1>2, <2>2 DEF Patch, Settled
  <2> QED BY <2>1, <2>2
<1>0. CASE OpenFails(h)
  BY <1>0 DEF OpenFails, Answer, Goto, fileVars
<1>3. CASE Open(h)
  BY <1>3, NilAssumption DEF Open, Goto, Target, Used
<1>4. CASE Write(h)
  BY <1>4 DEF Write, Goto
<1>5. CASE WriteFails(h)
  BY <1>5 DEF WriteFails, Answer, Goto
<1>6. CASE Rename(h)
  BY <1>6 DEF Rename, Goto, Gone
<1>7. CASE RenameFails(h)
  BY <1>7 DEF RenameFails, Answer, Goto, Failed, fileVars
<1>8. CASE Store(h)
  BY <1>8 DEF Store, Goto, fileVars
<1>9. CASE Show(h)
  BY <1>9 DEF Show, Answer, Goto, fileVars
<1> QED
  BY <1>0, <1>1, <1>2, <1>3, <1>4, <1>5, <1>6, <1>7, <1>8, <1>9 DEF Request

LEMMA TornStep == ConfigInv /\ TornInv /\ [Next]_vars => TornInv'
<1> SUFFICES ASSUME ConfigInv, TornInv, [Next]_vars PROVE TornInv'
  OBVIOUS
<1>0. TypeOK /\ DownInv
  BY DEF ConfigInv
<1>1. CASE up /\ UNCHANGED up /\ \E h \in Handlers : Request(h)
  BY <1>0, <1>1, RequestTorn
<1>2. CASE Kill
  BY <1>2 DEF Kill, TornInv
<1>3. CASE Start
  BY <1>0, <1>3 DEF Start, DownInv, fileVars, TornInv, Whole
<1>4. CASE UNCHANGED vars
  BY <1>4 DEF vars, fileVars, reqVars, TornInv, Whole, Saving, Others
<1> QED  BY <1>1, <1>2, <1>3, <1>4 DEF Next

(***************************************************************************)
(* A config.json that is torn or empty when nothing is under way, so that  *)
(* the daemon cannot be started from it, was reported: of the requests     *)
(* that overlapped last, one was answered that its save failed.            *)
(***************************************************************************)
THEOREM TornIsReportedHolds == Spec => []TornIsReported
<1>1. Init => TornInv
  BY DEF Init, TornInv, Whole
<1>2. TornInv => TornIsReported
  BY DEF TornInv, TornIsReported, Settled, Saving
<1> QED  BY <1>1, <1>2, TornStep, AlwaysInv, PTL DEF Spec

=============================================================================
