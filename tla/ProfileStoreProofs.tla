------------------------- MODULE ProfileStoreProofs -------------------------
(***************************************************************************)
(* Proofs about ProfileStore.  First the lists: what selecting, deleting   *)
(* and saving make of a sound file, and that in a sound file the three     *)
(* rules of selectedProfile agree.  Then StoreInv, the inductive invariant *)
(* of ProfileStore, one lemma for each of its parts with one step for each *)
(* action, and the properties that follow from it.                         *)
(***************************************************************************)
EXTENDS ProfileStore, TLAPS

(***************************************************************************)
(* Lists of bounded length are sequences.                                  *)
(***************************************************************************)
LEMMA BoundedIsSeq ==
  ASSUME NEW S, NEW n \in Nat, NEW q \in BoundedSeq(S, n)
  PROVE  /\ Len(q) \in 0 .. n /\ DOMAIN q = 1 .. Len(q)
         /\ q \in [1 .. Len(q) -> S] /\ q \in Seq(S)
<1>1. PICK m \in 0 .. n : q \in [1 .. m -> S]
  BY DEF BoundedSeq, SeqOf
<1>2. q \in Seq(S) /\ Len(q) = m
  BY <1>1
<1> QED
  BY <1>2

LEMMA SeqIsBounded ==
  ASSUME NEW S, NEW n \in Nat, NEW m \in 0 .. n, NEW q \in [1 .. m -> S]
  PROVE  q \in BoundedSeq(S, n) /\ Len(q) = m
<1>1. q \in Seq(S) /\ Len(q) = m
  OBVIOUS
<1> QED
  BY DEF BoundedSeq, SeqOf

(***************************************************************************)
(* Without(list, i) exists when one profile has the id i: its order skips  *)
(* the place of that profile.                                              *)
(***************************************************************************)
Distinct(list) ==
    \A j, k \in DOMAIN list : list[j].id = list[k].id => j = k

LEMMA WithoutIs ==
  ASSUME NEW list \in BoundedSeq(Profile, MaxProfiles), Distinct(list),
         NEW x \in DOMAIN list
  PROVE  /\ Without(list, list[x].id) \in BoundedSeq(Profile, MaxProfiles)
         /\ Distinct(Without(list, list[x].id))
         /\ ToSet(Without(list, list[x].id)) =
              {p \in ToSet(list) : p.id # list[x].id}
<1> DEFINE i == list[x].id
           n == Len(list)
           kept == {k \in DOMAIN list : list[k].id # i}
           order == CHOOSE o \in BoundedSeq(kept, n) :
                      ToSet(o) = kept /\ InOrder(o)
           skip == [j \in 1 .. (n - 1) |-> IF j < x THEN j ELSE j + 1]
<1>1. /\ n \in 0 .. MaxProfiles /\ DOMAIN list = 1 .. n
      /\ list \in [1 .. n -> Profile] /\ MaxProfiles \in Nat
  BY BoundedIsSeq, ProfileAssumption
<1>2. kept = (1 .. n) \ {x}
  BY DEF Distinct
<1>3. \E o \in BoundedSeq(kept, n) : ToSet(o) = kept /\ InOrder(o)
  <2>1. skip \in [1 .. (n - 1) -> kept]
    BY <1>2
  <2>2. skip \in BoundedSeq(kept, n)
    <3>1. n - 1 \in 0 .. n
      OBVIOUS
    <3> HIDE DEF skip, kept, n
    <3> QED
      BY <2>1, <1>1, SeqIsBounded
  <2>3. ASSUME NEW k \in kept
        PROVE  \E j \in DOMAIN skip : skip[j] = k
    <3>1. CASE k < x
      <4>1. k \in DOMAIN skip /\ skip[k] = k
        BY <3>1
      <4> QED
        BY <4>1
    <3>2. CASE k > x
      <4>1. k - 1 \in DOMAIN skip /\ skip[k - 1] = k
        BY <3>2
      <4> QED
        BY <4>1
    <3> QED
      BY <3>2
  <2>4. ToSet(skip) = kept
    <3> HIDE DEF kept
    <3> QED
      BY <2>1, <2>3 DEF ToSet
  <2>5. InOrder(skip)
    BY DEF InOrder
  <2> HIDE DEF skip, kept, n
  <2> QED
    BY <2>2, <2>4, <2>5
<1>4. order \in BoundedSeq(kept, n) /\ ToSet(order) = kept /\ InOrder(order)
  <2> HIDE DEF kept, n
  <2> QED
    BY <1>3
<1> DEFINE m == Len(order)
<1> HIDE DEF order
<1>5. m \in 0 .. n /\ DOMAIN order = 1 .. m /\ order \in [1 .. m -> kept]
  <2> HIDE DEF kept
  <2> QED
    BY <1>4, BoundedIsSeq
<1> DEFINE q == [j \in DOMAIN order |-> list[order[j]]]
<1>6. Without(list, i) = q
  BY DEF Without, order
<1> HIDE DEF n, m, i
<1>7. q \in [1 .. m -> Profile]
  BY <1>1, <1>5
<1>8. q \in BoundedSeq(Profile, MaxProfiles)
  <2>1. m \in 0 .. MaxProfiles
    BY <1>1, <1>5
  <2> HIDE DEF q
  <2> QED
    BY <2>1, <1>1, <1>7, SeqIsBounded
<1>9. Distinct(q)
  <2>1. ASSUME NEW j \in 1 .. m, NEW k \in 1 .. m, q[j].id = q[k].id
        PROVE  j = k
    <3>1. order[j] = order[k]
      BY <2>1, <1>5 DEF Distinct
    <3> QED
      BY <3>1, <1>1, <1>4, <1>5 DEF InOrder
  <2> QED
    BY <2>1, <1>5 DEF Distinct
<1>10. ToSet(q) = {p \in ToSet(list) : p.id # i}
  <2>1. ASSUME NEW j \in 1 .. m
        PROVE  q[j] \in ToSet(list) /\ q[j].id # i
    BY <1>5 DEF ToSet
  <2>2. ASSUME NEW k \in DOMAIN list, list[k].id # i
        PROVE  \E j \in DOMAIN q : q[j] = list[k]
    <3>1. k \in ToSet(order)
      BY <2>2, <1>4
    <3>2. PICK j \in DOMAIN order : order[j] = k
      BY <3>1 DEF ToSet
    <3> QED
      BY <3>2
  <2>3. DOMAIN q = 1 .. m
    BY <1>5
  <2>4. \A j \in DOMAIN q : q[j] \in ToSet(list) /\ q[j].id # i
    BY <2>1, <2>3
  <2>5. \A p \in ToSet(list) : p.id # i => \E j \in DOMAIN q : q[j] = p
    BY <2>2 DEF ToSet
  <2> HIDE DEF q
  <2>6. ToSet(q) = {q[j] : j \in DOMAIN q}
    BY DEF ToSet
  <2> QED
    BY <2>4, <2>5, <2>6
<1> QED
  BY <1>6, <1>8, <1>9, <1>10 DEF i

(***************************************************************************)
(* What a request makes of a sound file.                                   *)
(***************************************************************************)
LEMMA SelectedSound ==
  ASSUME NEW f \in ProfilesFile, Distinct(f.profiles), NEW i \in IdsOf(f)
  PROVE  /\ SelectById(f, i) \in ProfilesFile
         /\ Sound(SelectById(f, i))
         /\ IdsOf(SelectById(f, i)) = IdsOf(f)
         /\ HavePassword(SelectById(f, i)) = HavePassword(f)
<1> DEFINE g == SelectById(f, i)
           n == Len(f.profiles)
<1>1. /\ n \in 0 .. MaxProfiles /\ DOMAIN f.profiles = 1 .. n
      /\ f.profiles \in [1 .. n -> Profile] /\ MaxProfiles \in Nat
      /\ f.selected_id \in Ids \cup {Nil}
  BY BoundedIsSeq, ProfileAssumption DEF ProfilesFile
<1> HIDE DEF n
<1>2. i \in Ids
  BY <1>1 DEF IdsOf, ToSet, Profile
<1>3. g.selected_id = i /\ DOMAIN g.profiles = 1 .. n
  BY <1>1 DEF SelectById
<1>4. \A k \in 1 .. n :
        /\ g.profiles[k] \in Profile
        /\ g.profiles[k].id = f.profiles[k].id
        /\ g.profiles[k].password = f.profiles[k].password
        /\ g.profiles[k].selected = (g.profiles[k].id = i)
  BY <1>1 DEF SelectById, Profile
<1>5. g.profiles \in [1 .. n -> Profile]
  BY <1>1, <1>4 DEF SelectById
<1>6. g.profiles \in BoundedSeq(Profile, MaxProfiles)
  BY <1>1, <1>5, SeqIsBounded
<1>7. g \in ProfilesFile
  BY <1>2, <1>6 DEF ProfilesFile, SelectById
<1>8. IdsOf(g) = IdsOf(f)
  BY <1>1, <1>3, <1>4 DEF IdsOf, ToSet
<1>9. HavePassword(g) = HavePassword(f)
  BY <1>1, <1>3, <1>4 DEF HavePassword, ToSet
<1> HIDE DEF g
<1>10. Sound(g)
  <2>1. \A j, k \in DOMAIN g.profiles :
          g.profiles[j].id = g.profiles[k].id => j = k
    BY <1>1, <1>3, <1>4 DEF Distinct
  <2>2. g.selected_id \in IdsOf(g)
    BY <1>3, <1>8
  <2>3. \A p \in ToSet(g.profiles) : p.selected <=> p.id = g.selected_id
    <3> SUFFICES ASSUME NEW p \in ToSet(g.profiles)
                 PROVE  p.selected <=> p.id = g.selected_id
      OBVIOUS
    <3>1. PICK k \in 1 .. n : p = g.profiles[k]
      BY <1>3, Zenon DEF ToSet
    <3>2. p.selected = (p.id = i)
      BY <1>4, <3>1, Zenon
    <3>3. g.selected_id = i
      BY <1>3
    <3> QED
      BY <3>2, <3>3, Zenon
  <2> QED
    BY <2>1, <2>2, <2>3 DEF Sound
<1> QED
  BY <1>7, <1>8, <1>9, <1>10 DEF g

LEMMA DeletedSound ==
  ASSUME NEW f \in ProfilesFile, Sound(f), NEW i \in IdsOf(f)
  PROVE  /\ Delete(f, i) \in ProfilesFile
         /\ Sound(Delete(f, i))
         /\ HavePassword(f) \cap IdsOf(Delete(f, i))
              \subseteq HavePassword(Delete(f, i))
<1> DEFINE g == Delete(f, i)
<1>1. PICK x \in DOMAIN f.profiles : f.profiles[x].id = i
  BY DEF IdsOf, ToSet
<1>2. f.profiles \in BoundedSeq(Profile, MaxProfiles) /\ Distinct(f.profiles)
  BY DEF ProfilesFile, Sound, Distinct
<1>3. /\ Without(f.profiles, i) \in BoundedSeq(Profile, MaxProfiles)
      /\ Distinct(Without(f.profiles, i))
      /\ ToSet(Without(f.profiles, i)) = {p \in ToSet(f.profiles) : p.id # i}
  BY <1>1, <1>2, WithoutIs
<1>4. /\ g.profiles = Without(f.profiles, i)
      /\ g.selected_id = IF f.selected_id = i THEN Nil ELSE f.selected_id
  BY DEF Delete
<1>5. g \in ProfilesFile
  BY <1>3 DEF Delete, ProfilesFile
<1>6. \A p \in ToSet(f.profiles) : p \in Profile
  BY <1>2, BoundedIsSeq, ProfileAssumption DEF ToSet
<1>7. ToSet(g.profiles) = {p \in ToSet(f.profiles) : p.id # i}
  BY <1>3, <1>4
<1> HIDE DEF g
<1>8. IdsOf(g) = IdsOf(f) \ {i}
  BY <1>7 DEF IdsOf
<1>9. Sound(g)
  <2>1. \A j, k \in DOMAIN g.profiles :
          g.profiles[j].id = g.profiles[k].id => j = k
    BY <1>3, <1>4 DEF Distinct
  <2>2. g.selected_id \in IdsOf(g) \cup {Nil}
    BY <1>4, <1>8 DEF Sound
  <2>3. \A p \in ToSet(g.profiles) : p.selected <=> p.id = g.selected_id
    <3> SUFFICES ASSUME NEW p \in ToSet(f.profiles), p.id # i
                 PROVE  p.selected <=> p.id = g.selected_id
      BY <1>7
    <3>1. p.id \in Ids /\ p.id # Nil
      BY <1>6, ProfileAssumption DEF Profile
    <3>2. p.selected <=> p.id = f.selected_id
      BY DEF Sound
    <3> QED
      BY <3>1, <3>2, <1>4
  <2> QED
    BY <2>1, <2>2, <2>3 DEF Sound
<1>10. HavePassword(f) \cap IdsOf(g) \subseteq HavePassword(g)
  BY <1>7, <1>8 DEF HavePassword
<1> QED
  BY <1>5, <1>9, <1>10 DEF g

LEMMA UpsertSound ==
  ASSUME NEW f \in ProfilesFile, Sound(f), NEW r \in Saves(f)
  PROVE  /\ Upsert(f, r) \in ProfilesFile
         /\ Sound(Upsert(f, r))
         /\ HavePassword(f) \cap IdsOf(Upsert(f, r))
              \subseteq HavePassword(Upsert(f, r))
<1> DEFINE new == [id |-> r.id, selected |-> FALSE, password |-> Kept(f, r)]
           n == Len(f.profiles)
           list == IF r.id \in IdsOf(f)
                   THEN [k \in DOMAIN f.profiles |->
                           IF f.profiles[k].id = r.id THEN new
                           ELSE f.profiles[k]]
                   ELSE Append(f.profiles, new)
           saved == [f EXCEPT !.profiles = list]
<1>1. /\ n \in 0 .. MaxProfiles /\ DOMAIN f.profiles = 1 .. n
      /\ f.profiles \in [1 .. n -> Profile] /\ MaxProfiles \in Nat
      /\ f.selected_id \in Ids \cup {Nil} /\ f.profiles \in Seq(Profile)
  BY BoundedIsSeq, ProfileAssumption DEF ProfilesFile
<1>2. r.id \in Ids /\ r.password \in BOOLEAN
  BY DEF Saves
<1>3. new \in Profile /\ new.id = r.id /\ new.selected = FALSE
      /\ new.password = Kept(f, r)
  BY <1>2 DEF Profile, Kept
<1>4. Distinct(f.profiles)
  BY DEF Sound, Distinct
<1> HIDE DEF new
<1>5. /\ list \in BoundedSeq(Profile, MaxProfiles)
      /\ Distinct(list)
      /\ ToSet(list) = {p \in ToSet(f.profiles) : p.id # r.id} \cup {new}
  <2>1. CASE r.id \in IdsOf(f)
    <3>1. list = [k \in 1 .. n |-> IF f.profiles[k].id = r.id THEN new
                                   ELSE f.profiles[k]]
      BY <2>1
    <3> HIDE DEF list, n
    <3>2. list \in [1 .. n -> Profile]
      BY <3>1, <1>1, <1>3
    <3>3. list \in BoundedSeq(Profile, MaxProfiles)
      BY <3>2, <1>1, SeqIsBounded
    <3>4. \A k \in 1 .. n : list[k].id = f.profiles[k].id
      BY <3>1, <1>3
    <3>5. Distinct(list)
      BY <3>1, <3>4, <1>1, <1>4 DEF Distinct
    <3>6. PICK x \in 1 .. n : f.profiles[x].id = r.id
      BY <2>1, <1>1 DEF IdsOf, ToSet
    <3>7. list[x] = new
      BY <3>1, <3>6
    <3>8. ToSet(list) = {p \in ToSet(f.profiles) : p.id # r.id} \cup {new}
      BY <3>1, <3>7, <1>1 DEF ToSet
    <3> QED
      BY <3>3, <3>5, <3>8
  <2>2. CASE r.id \notin IdsOf(f)
    <3>1. list = Append(f.profiles, new) /\ n < MaxProfiles
      BY <2>2 DEF Saves
    <3> HIDE DEF list
    <3>2. /\ list \in Seq(Profile) /\ Len(list) = n + 1
          /\ \A k \in 1 .. n : list[k] = f.profiles[k]
          /\ list[n + 1] = new
      BY <3>1, <1>1, <1>3
    <3> HIDE DEF n
    <3>3. list \in [1 .. (n + 1) -> Profile] /\ n + 1 \in 0 .. MaxProfiles
      <4>1. list \in [1 .. Len(list) -> Profile]
        BY <3>2
      <4> QED
        BY <4>1, <3>1, <1>1
    <3>4. list \in BoundedSeq(Profile, MaxProfiles)
      BY <3>3, <1>1, SeqIsBounded
    <3>5. \A k \in 1 .. n : f.profiles[k].id # r.id
      BY <2>2, <1>1 DEF IdsOf, ToSet
    <3>6. DOMAIN list = 1 .. (n + 1)
      BY <3>3
    <3>7. Distinct(list)
      <4>1. ASSUME NEW j \in 1 .. (n + 1), NEW k \in 1 .. (n + 1),
                   list[j].id = list[k].id
            PROVE  j = k
        <5>1. (j \in 1 .. n \/ j = n + 1) /\ (k \in 1 .. n \/ k = n + 1)
          BY <1>1
        <5> QED
          BY <4>1, <3>2, <3>5, <1>1, <1>3, <1>4 DEF Distinct
      <4> QED
        BY <4>1, <3>6 DEF Distinct
    <3>8. ToSet(list) = ToSet(f.profiles) \cup {new}
      <4>1. 1 .. (n + 1) = (1 .. n) \cup {n + 1}
        BY <1>1
      <4> QED
        BY <3>2, <1>1 DEF ToSet
    <3>9. \A p \in ToSet(f.profiles) : p.id # r.id
      BY <3>5, <1>1 DEF ToSet
    <3> QED
      BY <3>4, <3>7, <3>8, <3>9
  <2> QED
    BY <2>1, <2>2
<1> HIDE DEF list
<1>6. saved = [selected_id |-> f.selected_id, profiles |-> list]
  BY DEF ProfilesFile
<1>7. /\ saved \in ProfilesFile /\ saved.selected_id = f.selected_id
      /\ saved.profiles = list
  BY <1>5 DEF ProfilesFile
<1> HIDE DEF saved
<1>8. IdsOf(saved) = IdsOf(f) \cup {r.id}
  BY <1>3, <1>5, <1>7 DEF IdsOf
<1>9. HavePassword(f) \subseteq HavePassword(saved)
  <2> SUFFICES ASSUME NEW q \in ToSet(f.profiles), q.password
               PROVE  q.id \in HavePassword(saved)
    BY DEF HavePassword
  <2>1. CASE q.id = r.id
    <3>1. Kept(f, r)
      BY <2>1 DEF Kept
    <3> QED
      BY <3>1, <1>3, <1>5, <1>7 DEF HavePassword
  <2>2. CASE q.id # r.id
    BY <2>2, <1>5, <1>7 DEF HavePassword
  <2> QED
    BY <2>1, <2>2
<1>10. Upsert(f, r) = IF r.select \/ f.selected_id \in {Nil, r.id}
                      THEN SelectById(saved, r.id) ELSE saved
  BY DEF Upsert, saved, list, new
<1>11. CASE r.select \/ f.selected_id \in {Nil, r.id}
  <2>1. Upsert(f, r) = SelectById(saved, r.id)
    BY <1>10, <1>11
  <2>2. /\ SelectById(saved, r.id) \in ProfilesFile
        /\ Sound(SelectById(saved, r.id))
        /\ HavePassword(SelectById(saved, r.id)) = HavePassword(saved)
    BY <1>5, <1>7, <1>8, SelectedSound
  <2> QED
    BY <2>1, <2>2, <1>9
<1>12. CASE ~(r.select \/ f.selected_id \in {Nil, r.id})
  <2>1. Upsert(f, r) = saved
    BY <1>10, <1>12
  <2>2. \A p \in ToSet(saved.profiles) : p.selected <=> p.id = f.selected_id
    <3> SUFFICES ASSUME NEW p \in ToSet(list)
                 PROVE  p.selected <=> p.id = f.selected_id
      BY <1>7
    <3>1. CASE p = new
      BY <3>1, <1>3, <1>12
    <3>2. CASE p \in ToSet(f.profiles)
      BY <3>2 DEF Sound
    <3> QED
      BY <3>1, <3>2, <1>5
  <2>3. Sound(saved)
    BY <2>2, <1>5, <1>7, <1>8 DEF Sound, Distinct
  <2> QED
    BY <2>1, <2>3, <1>7, <1>9
<1> QED
  BY <1>11, <1>12

LEMMA AskedSound ==
  ASSUME NEW f \in ProfilesFile, Sound(f), NEW g \in Asked(f)
  PROVE  /\ g \in ProfilesFile /\ Sound(g)
         /\ HavePassword(f) \cap IdsOf(g) \subseteq HavePassword(g)
<1>1. CASE \E i \in IdsOf(f) : g = SelectById(f, i)
  <2>1. Distinct(f.profiles)
    BY DEF Sound, Distinct
  <2> QED
    BY <1>1, <2>1, SelectedSound
<1>2. CASE \E i \in IdsOf(f) : g = Delete(f, i)
  BY <1>2, DeletedSound
<1>3. CASE \E r \in Saves(f) : g = Upsert(f, r)
  BY <1>3, UpsertSound
<1> QED
  BY <1>1, <1>2, <1>3 DEF Asked

(***************************************************************************)
(* In a sound file the three rules of selectedProfile find the selection.  *)
(***************************************************************************)
LEMMA SelectedIsSelection ==
  ASSUME NEW f \in ProfilesFile, Sound(f)
  PROVE  /\ SelectedProfile(f) = Selection(f)
         /\ Selection(f) \in Ids \cup {Nil}
<1> DEFINE at == DOMAIN f.profiles
           byId == {k \in at : f.profiles[k].id = f.selected_id}
           flagged == {k \in at : f.profiles[k].selected}
           tried == IF byId # {} THEN byId
                    ELSE IF flagged # {} THEN flagged ELSE at
           n == Len(f.profiles)
<1>1. /\ n \in 0 .. MaxProfiles /\ at = 1 .. n
      /\ f.profiles \in [1 .. n -> Profile] /\ MaxProfiles \in Nat
      /\ f.selected_id \in Ids \cup {Nil} /\ f.profiles \in Seq(Profile)
  BY BoundedIsSeq, ProfileAssumption DEF ProfilesFile
<1>2. SelectedProfile(f) =
        IF tried = {} THEN Nil ELSE f.profiles[Min(tried)].id
  BY DEF SelectedProfile
<1>3. \A k \in at : f.profiles[k].id \in Ids /\ f.profiles[k].id # Nil
  BY <1>1, ProfileAssumption DEF Profile
<1>4. \A k \in at : f.profiles[k].selected <=> f.profiles[k].id = f.selected_id
  BY DEF Sound, ToSet
<1>5. CASE f.selected_id # Nil
  <2>1. PICK x \in at : f.profiles[x].id = f.selected_id
    BY <1>5 DEF Sound, IdsOf, ToSet
  <2>2. byId = {x}
    BY <2>1 DEF Sound
  <2>3. tried = {x}
    BY <2>2
  <2>4. Min({x}) = x
    BY DEF Min
  <2>5. SelectedProfile(f) = f.selected_id
    <3> HIDE DEF tried
    <3> QED
      BY <2>1, <2>3, <2>4, <1>2
  <2> QED
    BY <2>5, <1>1, <1>5 DEF Selection
<1>6. CASE f.selected_id = Nil /\ n = 0
  <2>1. f.profiles = <<>> /\ at = {}
    BY <1>6
  <2>2. tried = {}
    BY <2>1
  <2> HIDE DEF tried
  <2> QED
    BY <2>2, <1>2, <1>6 DEF Selection
<1>7. CASE f.selected_id = Nil /\ n # 0
  <2>1. byId = {} /\ flagged = {}
    BY <1>3, <1>4, <1>7
  <2>2. tried = 1 .. n
    BY <2>1
  <2>3. f.profiles # <<>> /\ 1 \in 1 .. n
    BY <1>7
  <2>4. Min(1 .. n) = 1
    <3>1. \E z \in 1 .. n : \A y \in 1 .. n : z =< y
      BY <2>3
    <3>2. Min(1 .. n) \in 1 .. n /\ \A y \in 1 .. n : Min(1 .. n) =< y
      BY <3>1 DEF Min
    <3> QED
      BY <3>2
  <2>5. SelectedProfile(f) = f.profiles[1].id
    <3> HIDE DEF tried
    <3> QED
      BY <2>2, <2>3, <2>4, <1>2
  <2> QED
    BY <2>5, <1>1, <1>3, <1>7 DEF Selection
<1> QED
  BY <1>5, <1>6, <1>7

(***************************************************************************)
(* The empty list, and the one the module is shipped with.                 *)
(***************************************************************************)
LEMMA EmptySound == Empty \in ProfilesFile /\ Sound(Empty)
<1>1. <<>> \in [1 .. 0 -> Profile]
  OBVIOUS
<1>2. <<>> \in BoundedSeq(Profile, MaxProfiles)
  <2>1. 0 \in 0 .. MaxProfiles
    BY ProfileAssumption
  <2> QED
    BY <1>1, <2>1, SeqIsBounded, ProfileAssumption
<1> QED
  BY <1>2 DEF Empty, ProfilesFile, Sound, ToSet

LEMMA ShippedSound ==
  ASSUME NEW i \in Ids
  PROVE  Shipped(i) \in ProfilesFile /\ Sound(Shipped(i))
<1> DEFINE p == [id |-> i, selected |-> TRUE, password |-> TRUE]
<1>1. p \in Profile /\ p.id = i /\ p.selected
  BY DEF Profile
<1> HIDE DEF p
<1>2. <<p>> \in [1 .. 1 -> Profile] /\ DOMAIN <<p>> = 1 .. 1 /\ <<p>>[1] = p
  BY <1>1
<1>3. <<p>> \in BoundedSeq(Profile, MaxProfiles)
  <2>1. 1 \in 0 .. MaxProfiles
    BY ProfileAssumption
  <2> QED
    BY <1>2, <2>1, SeqIsBounded, ProfileAssumption
<1>4. ToSet(<<p>>) = {p}
  BY DEF ToSet
<1>5. Shipped(i) = [selected_id |-> i, profiles |-> <<p>>]
  BY DEF Shipped, p
<1>6. Shipped(i) \in ProfilesFile
  BY <1>3, <1>5 DEF ProfilesFile
<1>7. Sound(Shipped(i))
  BY <1>1, <1>4, <1>5 DEF Sound, IdsOf
<1> QED
  BY <1>6, <1>7

(***************************************************************************)
(* What StoreInv says of the selections, and of what a request may make of *)
(* the file.                                                               *)
(***************************************************************************)
LEMMA StoreFacts ==
  ASSUME StoreInv
  PROVE  /\ SelectedProfile(file) = Selection(file)
         /\ SelectedProfile(pf) = Selection(pf)
         /\ Selection(file) \in Ids \cup {Nil}
         /\ Selection(pf) \in Ids \cup {Nil}
         /\ \A f \in Asked(file) :
              f \in ProfilesFile /\ Sound(f) /\ Selection(f) \in Ids \cup {Nil}
         /\ \A h \in Handlers : pc[h] = "rename" =>
              tmp \in ProfilesFile /\ Sound(tmp)
              /\ Selection(tmp) \in Ids \cup {Nil}
         /\ pf \in ProfilesFile /\ file \in ProfilesFile
<1>1. file \in ProfilesFile /\ Sound(file) /\ pf \in ProfilesFile /\ Sound(pf)
  BY DEF StoreInv, TypeOK, SoundInv
<1>2. \A f \in Asked(file) :
        f \in ProfilesFile /\ Sound(f) /\ Selection(f) \in Ids \cup {Nil}
  BY <1>1, AskedSound, SelectedIsSelection
<1>3. \A h \in Handlers : pc[h] = "rename" => tmp \in Asked(file)
  BY DEF StoreInv, HolderInv
<1> QED
  BY <1>1, <1>2, <1>3, SelectedIsSelection

(***************************************************************************)
(* Types.                                                                  *)
(***************************************************************************)
LEMMA TypeStep ==
  ASSUME StoreInv, [Next]_vars
  PROVE  TypeOK'
<1> USE DEF StoreInv
<1>1. ASSUME NEW h \in Handlers, up, UNCHANGED process, Change(h)
      PROVE  TypeOK'
  <2>1. next' \in [Goroutines -> ProfilesFile]
    BY <1>1, StoreFacts DEF Change, TypeOK
  <2>2. mu' \in Goroutines \cup {Nil}
    BY <1>1 DEF Change, Goroutines
  <2>3. pc' \in [Goroutines -> Places]
    BY <1>1 DEF Change, TypeOK, Places, Goto
  <2> QED
    BY <1>1, <2>1, <2>3 DEF Change, TypeOK, store, tunnel, process
<1>2. ASSUME NEW h \in Handlers, up, UNCHANGED process, List(h)
      PROVE  TypeOK'
  <2>1. next' \in [Goroutines -> ProfilesFile]
    BY <1>2 DEF List, TypeOK
  <2>2. mu' \in Goroutines \cup {Nil}
    BY <1>2 DEF List, Goroutines
  <2>3. pc' \in [Goroutines -> Places]
    BY <1>2 DEF List, TypeOK, Places, Goto
  <2> QED
    BY <1>2, <2>2, <2>3 DEF List, TypeOK, store, tunnel, process
<1>3. ASSUME NEW h \in Handlers, up, UNCHANGED process, Write(h)
      PROVE  TypeOK'
  <2>1. tmp' \in ProfilesFile \cup {Nil, Torn}
    BY <1>3 DEF Write, TypeOK, Goroutines
  <2>2. pc' \in [Goroutines -> Places]
    BY <1>3 DEF Write, TypeOK, Places, Goto
  <2> QED
    BY <1>3, <2>1, <2>2 DEF Write, TypeOK, tunnel, process
<1>4. ASSUME NEW h \in Handlers, up, UNCHANGED process, WriteFails(h)
      PROVE  TypeOK'
  <2>1. tmp' \in ProfilesFile \cup {Nil, Torn}
    BY <1>4 DEF WriteFails
  <2>2. mu' \in Goroutines \cup {Nil}
    BY <1>4 DEF WriteFails
  <2>3. next' \in [Goroutines -> ProfilesFile]
    BY <1>4, EmptySound DEF WriteFails, TypeOK
  <2>4. pc' \in [Goroutines -> Places]
    BY <1>4 DEF WriteFails, TypeOK, Places, Goto
  <2> QED
    BY <1>4, <2>3, <2>4 DEF WriteFails, TypeOK, tunnel, process
<1>5. ASSUME NEW h \in Handlers, up, UNCHANGED process, Rename(h)
      PROVE  TypeOK'
  <2>1. file' \in ProfilesFile
    BY <1>5, StoreFacts DEF Rename
  <2>2. tmp' \in ProfilesFile \cup {Nil, Torn}
    BY <1>5 DEF Rename
  <2>3. was' \in [Starters -> SUBSET (Ids \cup {Nil})]
    BY <1>5, StoreFacts DEF Rename, TypeOK
  <2>4. pc' \in [Goroutines -> Places]
    BY <1>5 DEF Rename, TypeOK, Places, Goto
  <2> QED
    BY <1>5, <2>1, <2>3, <2>4 DEF Rename, TypeOK, process
<1>6. ASSUME NEW h \in Handlers, up, UNCHANGED process, Assign(h)
      PROVE  TypeOK'
  <2>1. pf' \in ProfilesFile
    BY <1>6 DEF Assign, TypeOK, Goroutines, Assigned
  <2>2. mu' \in Goroutines \cup {Nil}
    BY <1>6 DEF Assign
  <2>3. next' \in [Goroutines -> ProfilesFile]
    BY <1>6, EmptySound DEF Assign, TypeOK
  <2>4. pc' \in [Goroutines -> Places]
    BY <1>6 DEF Assign, TypeOK, Places, Goto
  <2> QED
    BY <1>6, <2>1, <2>3, <2>4 DEF Assign, TypeOK, store, tunnel, process
<1>7. ASSUME NEW s \in Starters, up, UNCHANGED process, Begin(s)
      PROVE  TypeOK'
  <2>1. was' \in [Starters -> SUBSET (Ids \cup {Nil})]
    BY <1>7, StoreFacts DEF Begin, TypeOK
  <2>2. pc' \in [Goroutines -> Places]
    BY <1>7 DEF Begin, TypeOK, Places, Goto
  <2> QED
    BY <1>7, <2>1, <2>2 DEF Begin, TypeOK, store, process
<1>8. ASSUME NEW s \in Starters, up, UNCHANGED process, Load(s)
      PROVE  TypeOK'
  <2>1. next' \in [Goroutines -> ProfilesFile]
    BY <1>8 DEF Load, TypeOK
  <2>2. mu' \in Goroutines \cup {Nil}
    BY <1>8 DEF Load, Goroutines
  <2>3. pc' \in [Goroutines -> Places]
    BY <1>8 DEF Load, TypeOK, Places, Goto
  <2> QED
    BY <1>8, <2>2, <2>3 DEF Load, TypeOK, store, tunnel, process
<1>9. ASSUME NEW s \in Starters, up, UNCHANGED process, Assign(s)
      PROVE  TypeOK'
  <2>1. pf' \in ProfilesFile
    BY <1>9 DEF Assign, TypeOK, Goroutines, Assigned
  <2>2. mu' \in Goroutines \cup {Nil}
    BY <1>9 DEF Assign
  <2>3. next' \in [Goroutines -> ProfilesFile]
    BY <1>9, EmptySound DEF Assign, TypeOK
  <2>4. pc' \in [Goroutines -> Places]
    BY <1>9 DEF Assign, TypeOK, Places, Goto
  <2> QED
    BY <1>9, <2>1, <2>3, <2>4 DEF Assign, TypeOK, store, tunnel, process
<1>10. ASSUME NEW s \in Starters, up, UNCHANGED process, Pick(s)
      PROVE  TypeOK'
  <2>1. sp' \in Ids \cup {Nil, Torn}
    BY <1>10, StoreFacts DEF Pick, Found
  <2>2. running' \in BOOLEAN
    BY <1>10 DEF Pick
  <2>3. pc' \in [Goroutines -> Places]
    BY <1>10 DEF Pick, TypeOK, Places, Goto
  <2>4. was' \in [Starters -> SUBSET (Ids \cup {Nil})]
    BY <1>10 DEF Pick, TypeOK
  <2> QED
    BY <1>10, <2>1, <2>3 DEF Pick, TypeOK, store, process
<1>11. ASSUME NEW s \in Starters, up, UNCHANGED process, Use(s)
      PROVE  TypeOK'
  <2>1. using' \in [Starters -> Ids \cup {Nil, Torn}]
    BY <1>11 DEF Use, TypeOK
  <2>2. pc' \in [Goroutines -> Places]
    BY <1>11 DEF Use, TypeOK, Places, Goto
  <2> QED
    BY <1>11, <2>2 DEF Use, TypeOK, store, process
<1>12. ASSUME NEW s \in Starters, up, UNCHANGED process, Ended(s)
      PROVE  TypeOK'
  <2>1. running' \in BOOLEAN
    BY <1>12 DEF Ended
  <2>2. using' \in [Starters -> Ids \cup {Nil, Torn}]
    BY <1>12 DEF Ended, TypeOK
  <2>3. was' \in [Starters -> SUBSET (Ids \cup {Nil})]
    BY <1>12 DEF Ended, TypeOK
  <2>4. pc' \in [Goroutines -> Places]
    BY <1>12 DEF Ended, TypeOK, Places, Goto
  <2> QED
    BY <1>12, <2>4 DEF Ended, TypeOK, store, process
<1>13. ASSUME Down, UNCHANGED panicked
      PROVE  TypeOK'
  <2>1. up' \in BOOLEAN
    BY <1>13 DEF Down
  <2>2. pc' \in [Goroutines -> Places]
    BY <1>13 DEF Down, Places
  <2>3. mu' \in Goroutines \cup {Nil}
    BY <1>13 DEF Down
  <2>4. running' \in BOOLEAN
    BY <1>13 DEF Down
  <2>5. using' \in [Starters -> Ids \cup {Nil, Torn}]
    BY <1>13 DEF Down
  <2>6. was' \in [Starters -> SUBSET (Ids \cup {Nil})]
    BY <1>13 DEF Down
  <2>7. pf' \in ProfilesFile
    BY <1>13, EmptySound DEF Down
  <2>8. sp' \in Ids \cup {Nil, Torn}
    BY <1>13 DEF Down
  <2>9. next' \in [Goroutines -> ProfilesFile]
    BY <1>13, EmptySound DEF Down
  <2> QED
    BY <1>13, <2>2, <2>7 DEF Down, TypeOK, store
<1>14. ASSUME ~up, Start
      PROVE  TypeOK'
  <2>1. up' \in BOOLEAN
    BY <1>14 DEF Start
  <2>2. panicked' \in BOOLEAN
    BY <1>14 DEF Start
  <2>3. pf' \in ProfilesFile
    BY <1>14, StoreFacts DEF Start
  <2>4. sp' \in Ids \cup {Nil, Torn}
    BY <1>14, StoreFacts DEF Start
  <2> QED
    BY <1>14, <2>4 DEF Start, TypeOK, store
<1>15. ASSUME ~up, StartPanics
      PROVE  TypeOK'
  <2>1. panicked' \in BOOLEAN
    BY <1>15 DEF StartPanics
  <2> QED
    BY <1>15 DEF StartPanics, TypeOK, store, tunnel
<1>16. ASSUME UNCHANGED vars
      PROVE  TypeOK'
  BY <1>16 DEF TypeOK, vars, store, tunnel, process
<1> QED
  BY <1>1, <1>2, <1>3, <1>4, <1>5, <1>6, <1>7, <1>8, <1>9, <1>10, <1>11,
     <1>12, <1>13, <1>14, <1>15, <1>16 DEF Next, Request, Starting, Kill,
     UsePanics

(***************************************************************************)
(* Who is between the loading and the assignment holds profileMu.          *)
(***************************************************************************)
LEMMA LockStep ==
  ASSUME StoreInv, [Next]_vars
  PROVE  LockInv'
<1> USE DEF StoreInv
<1>1. ASSUME NEW h \in Handlers, up, UNCHANGED process, Change(h)
      PROVE  LockInv'
  BY <1>1, ProfileAssumption DEF Change, LockInv, TypeOK, process,
     Goroutines, Goto, Unlocked, Busy
<1>2. ASSUME NEW h \in Handlers, up, UNCHANGED process, List(h)
      PROVE  LockInv'
  BY <1>2, ProfileAssumption DEF List, LockInv, TypeOK, process,
     Goroutines, Goto, Unlocked, Busy
<1>3. ASSUME NEW h \in Handlers, up, UNCHANGED process, Write(h)
      PROVE  LockInv'
  BY <1>3 DEF Write, LockInv, process, Goto, Busy
<1>4. ASSUME NEW h \in Handlers, up, UNCHANGED process, WriteFails(h)
      PROVE  LockInv'
  BY <1>4, ProfileAssumption DEF WriteFails, LockInv, TypeOK, process,
     Goroutines, Goto, Busy
<1>5. ASSUME NEW h \in Handlers, up, UNCHANGED process, Rename(h)
      PROVE  LockInv'
  BY <1>5 DEF Rename, LockInv, process, Goto, Busy
<1>6. ASSUME NEW h \in Handlers, up, UNCHANGED process, Assign(h)
      PROVE  LockInv'
  BY <1>6, ProfileAssumption DEF Assign, LockInv, TypeOK, process,
     Goroutines, Goto, Busy
<1>7. ASSUME NEW s \in Starters, up, UNCHANGED process, Begin(s)
      PROVE  LockInv'
  BY <1>7, ProfileAssumption DEF Begin, LockInv, process, Goto, Busy
<1>8. ASSUME NEW s \in Starters, up, UNCHANGED process, Load(s)
      PROVE  LockInv'
  BY <1>8, ProfileAssumption DEF Load, LockInv, TypeOK, process,
     Goroutines, Goto, Unlocked, Busy
<1>9. ASSUME NEW s \in Starters, up, UNCHANGED process, Assign(s)
      PROVE  LockInv'
  BY <1>9, ProfileAssumption DEF Assign, LockInv, TypeOK, process,
     Goroutines, Goto, Busy
<1>10. ASSUME NEW s \in Starters, up, UNCHANGED process, Pick(s)
      PROVE  LockInv'
  BY <1>10 DEF Pick, LockInv, process, Goto, Busy
<1>11. ASSUME NEW s \in Starters, up, UNCHANGED process, Use(s)
      PROVE  LockInv'
  BY <1>11 DEF Use, LockInv, process, Goto, Busy
<1>12. ASSUME NEW s \in Starters, up, UNCHANGED process, Ended(s)
      PROVE  LockInv'
  BY <1>12 DEF Ended, LockInv, process, Goto, Busy
<1>13. ASSUME Down, UNCHANGED panicked
      PROVE  LockInv'
  BY <1>13, ProfileAssumption DEF Down, LockInv, Goroutines, Busy
<1>14. ASSUME ~up, Start
      PROVE  LockInv'
  BY <1>14 DEF Start, LockInv
<1>15. ASSUME ~up, StartPanics
      PROVE  LockInv'
  BY <1>15 DEF StartPanics, LockInv
<1>16. ASSUME UNCHANGED vars
      PROVE  LockInv'
  BY <1>16 DEF LockInv, vars, process
<1> QED
  BY <1>1, <1>2, <1>3, <1>4, <1>5, <1>6, <1>7, <1>8, <1>9, <1>10, <1>11,
     <1>12, <1>13, <1>14, <1>15, <1>16 DEF Next, Request, Starting, Kill,
     UsePanics

(***************************************************************************)
(* The holder has what it will make of the file.                           *)
(***************************************************************************)
LEMMA HolderStep ==
  ASSUME StoreInv, [Next]_vars
  PROVE  HolderInv'
<1> USE DEF StoreInv
<1>1. ASSUME NEW h \in Handlers, up, UNCHANGED process, Change(h)
      PROVE  HolderInv'
  BY <1>1 DEF Change, HolderInv, TypeOK, store, Goto
<1>2. ASSUME NEW h \in Handlers, up, UNCHANGED process, List(h)
      PROVE  HolderInv'
  BY <1>2 DEF List, HolderInv, TypeOK, store, Goto
<1>3. ASSUME NEW h \in Handlers, up, UNCHANGED process, Write(h)
      PROVE  HolderInv'
  BY <1>3 DEF Write, LockInv, HolderInv, Goroutines, Goto
<1>4. ASSUME NEW h \in Handlers, up, UNCHANGED process, WriteFails(h)
      PROVE  HolderInv'
  BY <1>4 DEF WriteFails, LockInv, HolderInv, TypeOK, Goroutines, Goto
<1>5. ASSUME NEW h \in Handlers, up, UNCHANGED process, Rename(h)
      PROVE  HolderInv'
  BY <1>5 DEF Rename, LockInv, HolderInv, TypeOK, Goroutines, Goto, Busy
<1>6. ASSUME NEW h \in Handlers, up, UNCHANGED process, Assign(h)
      PROVE  HolderInv'
  BY <1>6 DEF Assign, HolderInv, TypeOK, Assigned, store, Goroutines,
     Goto
<1>7. ASSUME NEW s \in Starters, up, UNCHANGED process, Begin(s)
      PROVE  HolderInv'
  BY <1>7 DEF Begin, HolderInv, store, Goto
<1>8. ASSUME NEW s \in Starters, up, UNCHANGED process, Load(s)
      PROVE  HolderInv'
  BY <1>8 DEF Load, HolderInv, TypeOK, store, Goto
<1>9. ASSUME NEW s \in Starters, up, UNCHANGED process, Assign(s)
      PROVE  HolderInv'
  BY <1>9 DEF Assign, HolderInv, TypeOK, Assigned, store, Goroutines,
     Goto
<1>10. ASSUME NEW s \in Starters, up, UNCHANGED process, Pick(s)
      PROVE  HolderInv'
  BY <1>10 DEF Pick, HolderInv, store, Goto
<1>11. ASSUME NEW s \in Starters, up, UNCHANGED process, Use(s)
      PROVE  HolderInv'
  BY <1>11 DEF Use, HolderInv, store, Goto
<1>12. ASSUME NEW s \in Starters, up, UNCHANGED process, Ended(s)
      PROVE  HolderInv'
  BY <1>12 DEF Ended, HolderInv, store, Goto
<1>13. ASSUME Down, UNCHANGED panicked
      PROVE  HolderInv'
  BY <1>13 DEF Down, HolderInv, Goroutines
<1>14. ASSUME ~up, Start
      PROVE  HolderInv'
  BY <1>14 DEF Start, HolderInv, store
<1>15. ASSUME ~up, StartPanics
      PROVE  HolderInv'
  BY <1>15 DEF StartPanics, HolderInv, store
<1>16. ASSUME UNCHANGED vars
      PROVE  HolderInv'
  BY <1>16 DEF HolderInv, vars, store, process
<1> QED
  BY <1>1, <1>2, <1>3, <1>4, <1>5, <1>6, <1>7, <1>8, <1>9, <1>10, <1>11,
     <1>12, <1>13, <1>14, <1>15, <1>16 DEF Next, Request, Starting, Kill,
     UsePanics

(***************************************************************************)
(* The file and the copy stay sound.                                       *)
(***************************************************************************)
LEMMA SoundStep ==
  ASSUME StoreInv, [Next]_vars
  PROVE  SoundInv'
<1> USE DEF StoreInv
<1>1. ASSUME NEW h \in Handlers, up, UNCHANGED process, Change(h)
      PROVE  SoundInv'
  BY <1>1 DEF Change, SoundInv, store
<1>2. ASSUME NEW h \in Handlers, up, UNCHANGED process, List(h)
      PROVE  SoundInv'
  BY <1>2 DEF List, SoundInv, store
<1>3. ASSUME NEW h \in Handlers, up, UNCHANGED process, Write(h)
      PROVE  SoundInv'
  BY <1>3 DEF Write, SoundInv
<1>4. ASSUME NEW h \in Handlers, up, UNCHANGED process, WriteFails(h)
      PROVE  SoundInv'
  BY <1>4 DEF WriteFails, SoundInv
<1>5. ASSUME NEW h \in Handlers, up, UNCHANGED process, Rename(h)
      PROVE  SoundInv'
  BY <1>5, StoreFacts DEF Rename, SoundInv
<1>6. ASSUME NEW h \in Handlers, up, UNCHANGED process, Assign(h)
      PROVE  SoundInv'
  BY <1>6 DEF Assign, HolderInv, SoundInv, Assigned, store, Goroutines
<1>7. ASSUME NEW s \in Starters, up, UNCHANGED process, Begin(s)
      PROVE  SoundInv'
  BY <1>7 DEF Begin, SoundInv, store
<1>8. ASSUME NEW s \in Starters, up, UNCHANGED process, Load(s)
      PROVE  SoundInv'
  BY <1>8 DEF Load, SoundInv, store
<1>9. ASSUME NEW s \in Starters, up, UNCHANGED process, Assign(s)
      PROVE  SoundInv'
  BY <1>9 DEF Assign, HolderInv, SoundInv, Assigned, store, Goroutines
<1>10. ASSUME NEW s \in Starters, up, UNCHANGED process, Pick(s)
      PROVE  SoundInv'
  BY <1>10 DEF Pick, SoundInv, store
<1>11. ASSUME NEW s \in Starters, up, UNCHANGED process, Use(s)
      PROVE  SoundInv'
  BY <1>11 DEF Use, SoundInv, store
<1>12. ASSUME NEW s \in Starters, up, UNCHANGED process, Ended(s)
      PROVE  SoundInv'
  BY <1>12 DEF Ended, SoundInv, store
<1>13. ASSUME Down, UNCHANGED panicked
      PROVE  SoundInv'
  BY <1>13, EmptySound DEF Down, SoundInv, store
<1>14. ASSUME ~up, Start
      PROVE  SoundInv'
  BY <1>14 DEF Start, SoundInv, store
<1>15. ASSUME ~up, StartPanics
      PROVE  SoundInv'
  BY <1>15 DEF StartPanics, SoundInv, store
<1>16. ASSUME UNCHANGED vars
      PROVE  SoundInv'
  BY <1>16 DEF SoundInv, vars, store
<1> QED
  BY <1>1, <1>2, <1>3, <1>4, <1>5, <1>6, <1>7, <1>8, <1>9, <1>10, <1>11,
     <1>12, <1>13, <1>14, <1>15, <1>16 DEF Next, Request, Starting, Kill,
     UsePanics

(***************************************************************************)
(* The selection a start passes on.                                        *)
(***************************************************************************)
LEMMA PassedStep ==
  ASSUME StoreInv, [Next]_vars
  PROVE  PassedInv'
<1> USE DEF StoreInv
<1>1. ASSUME NEW h \in Handlers, up, UNCHANGED process, Change(h)
      PROVE  PassedInv'
  BY <1>1, ProfileAssumption DEF Change, PassedInv, store, tunnel, Goto
<1>2. ASSUME NEW h \in Handlers, up, UNCHANGED process, List(h)
      PROVE  PassedInv'
  BY <1>2, ProfileAssumption DEF List, PassedInv, store, tunnel, Goto
<1>3. ASSUME NEW h \in Handlers, up, UNCHANGED process, Write(h)
      PROVE  PassedInv'
  BY <1>3 DEF Write, PassedInv, tunnel, Goto
<1>4. ASSUME NEW h \in Handlers, up, UNCHANGED process, WriteFails(h)
      PROVE  PassedInv'
  BY <1>4 DEF WriteFails, PassedInv, tunnel, Goto
<1>5. ASSUME NEW h \in Handlers, up, UNCHANGED process, Rename(h)
      PROVE  PassedInv'
  BY <1>5 DEF Rename, PassedInv, Goto
<1>6. ASSUME NEW h \in Handlers, up, UNCHANGED process, Assign(h)
      PROVE  PassedInv'
  BY <1>6 DEF Assign, PassedInv, HolderInv, Assigned, store, tunnel,
     Goroutines, Goto
<1>7. ASSUME NEW s \in Starters, up, UNCHANGED process, Begin(s)
      PROVE  PassedInv'
  BY <1>7 DEF Begin, PassedInv, TypeOK, store, Goto
<1>8. ASSUME NEW s \in Starters, up, UNCHANGED process, Load(s)
      PROVE  PassedInv'
  BY <1>8 DEF Load, PassedInv, store, tunnel, Goto
<1>9. ASSUME NEW s \in Starters, up, UNCHANGED process, Assign(s)
      PROVE  PassedInv'
  BY <1>9 DEF Assign, PassedInv, HolderInv, Assigned, store, tunnel,
     Goroutines, Goto
<1>10. ASSUME NEW s \in Starters, up, UNCHANGED process, Pick(s)
      PROVE  PassedInv'
  BY <1>10, StoreFacts DEF Pick, PassedInv, TypeOK, Found, store,
     Goroutines, Goto
<1>11. ASSUME NEW s \in Starters, up, UNCHANGED process, Use(s)
      PROVE  PassedInv'
  BY <1>11 DEF Use, PassedInv, TypeOK, store, Goroutines, Goto
<1>12. ASSUME NEW s \in Starters, up, UNCHANGED process, Ended(s)
      PROVE  PassedInv'
  BY <1>12 DEF Ended, PassedInv, TypeOK, store, Goroutines, Goto
<1>13. ASSUME Down, UNCHANGED panicked
      PROVE  PassedInv'
  BY <1>13 DEF Down, PassedInv, Goroutines
<1>14. ASSUME ~up, Start
      PROVE  PassedInv'
  BY <1>14, StoreFacts DEF Start, PassedInv, store
<1>15. ASSUME ~up, StartPanics
      PROVE  PassedInv'
  BY <1>15 DEF StartPanics, PassedInv, store, tunnel
<1>16. ASSUME UNCHANGED vars
      PROVE  PassedInv'
  BY <1>16 DEF PassedInv, vars, store, tunnel
<1> QED
  BY <1>1, <1>2, <1>3, <1>4, <1>5, <1>6, <1>7, <1>8, <1>9, <1>10, <1>11,
     <1>12, <1>13, <1>14, <1>15, <1>16 DEF Next, Request, Starting, Kill,
     UsePanics

(***************************************************************************)
(* StoreInv is an invariant, and the properties follow.                    *)
(***************************************************************************)
LEMMA StoreInit == Init => StoreInv
<1> SUFFICES ASSUME Init
             PROVE  StoreInv
  OBVIOUS
<1>1. file \in ProfilesFile /\ Sound(file) /\ pf = file
  BY ShippedSound DEF Init
<1>2. TypeOK
  BY <1>1, EmptySound DEF Init, TypeOK, Places
<1>3. LockInv /\ PassedInv
  BY ProfileAssumption DEF Init, LockInv, PassedInv, Busy, Goroutines
<1>4. HolderInv /\ SoundInv
  BY <1>1 DEF Init, HolderInv, SoundInv, Goroutines
<1> QED
  BY <1>2, <1>3, <1>4 DEF StoreInv

LEMMA StoreInvariance == Spec => []StoreInv
<1>1. StoreInv /\ [Next]_vars => StoreInv'
  BY TypeStep, LockStep, HolderStep, SoundStep, PassedStep DEF StoreInv
<1> QED
  BY <1>1, StoreInit, PTL DEF Spec

(***************************************************************************)
(* Every variable has its type in every state of the specification.        *)
(***************************************************************************)
THEOREM Typing == Spec => []TypeOK
<1>1. StoreInv => TypeOK
  BY DEF StoreInv
<1> QED
  BY <1>1, StoreInvariance, PTL

(***************************************************************************)
(* profiles.json (saveProfiles) has no two profiles of one id, and its     *)
(* flags and its selected_id name the same profile.                        *)
(***************************************************************************)
THEOREM FileSoundHolds == Spec => []FileSound
<1>1. StoreInv => FileSound
  BY DEF StoreInv, SoundInv, FileSound
<1> QED
  BY <1>1, StoreInvariance, PTL

(***************************************************************************)
(* When no request and no start is between the reading of profiles.json    *)
(* and the assignment, the copy pf is what the file holds.                 *)
(***************************************************************************)
THEOREM CopyAgreesHolds == Spec => []CopyAgrees
<1>1. StoreInv => CopyAgrees
  BY DEF StoreInv, HolderInv, CopyAgrees, Busy
<1> QED
  BY <1>1, StoreInvariance, PTL

(***************************************************************************)
(* A tunnel is given a profile that was the selected one at some time      *)
(* since startTunnel was called for it, unless its read of pf was torn.    *)
(***************************************************************************)
THEOREM RightProfileHolds == Spec => []RightProfile
<1>1. StoreInv => RightProfile
  BY DEF StoreInv, PassedInv, RightProfile
<1> QED
  BY <1>1, StoreInvariance, PTL

(***************************************************************************)
(* profiles.json changes only by a request that was made of what it held,  *)
(* whatever overlaps and whenever the process is killed, and a profile     *)
(* with a password keeps one as long as it exists.                         *)
(***************************************************************************)
THEOREM OnlyAskedHolds == Spec => OnlyAsked
<1> DEFINE Step == file' # file =>
             /\ file' \in Asked(file)
             /\ HavePassword(file) \cap IdsOf(file)'
                  \subseteq HavePassword(file)'
<1>1. ASSUME StoreInv, [Next]_vars, file' # file
      PROVE  \E h \in Handlers : Rename(h)
  BY <1>1 DEF Next, Request, Starting, Kill, UsePanics, Down, Start,
     StartPanics, Change, List, Write, WriteFails, Assign, Begin, Load,
     Pick, Use, Ended, vars, store
<1>2. ASSUME StoreInv, NEW h \in Handlers, Rename(h)
      PROVE  Step
  <2>1. file' \in Asked(file)
    BY <1>2 DEF Rename, StoreInv, HolderInv
  <2>2. HavePassword(file) \cap IdsOf(file') \subseteq HavePassword(file')
    BY <1>2, <2>1, AskedSound DEF StoreInv, TypeOK, SoundInv
  <2>3. IdsOf(file)' = IdsOf(file') /\ HavePassword(file)' = HavePassword(file')
    BY DEF IdsOf
  <2> QED
    BY <2>1, <2>2
<1>3. StoreInv /\ [Next]_vars => [Step]_vars
  BY <1>1, <1>2
<1> QED
  BY <1>3, StoreInvariance, PTL DEF Spec, OnlyAsked

=============================================================================
