------------------------- MODULE IptablesRulesProofs -------------------------
(***************************************************************************)
(* RulesInv is an inductive invariant of IptablesRules, and the five       *)
(* properties that its runs check follow from it, for every set of tunnels *)
(* and every bound on failures and deaths.                                 *)
(*                                                                         *)
(* The argument is about the programs: what is left of one is an end of    *)
(* Cleanup or of Apply (ProgramInv), so what somebody will still run can   *)
(* be read off it.  The first part writes the programs out, the second     *)
(* says what a command does, the third takes the parts of the invariant    *)
(* one by one.                                                             *)
(***************************************************************************)
EXTENDS IptablesRules, SequenceTheorems, TLAPS

(***************************************************************************)
(* Sequences: what is left when the first element is taken.                *)
(***************************************************************************)
LEMMA TailKeeps ==
  ASSUME NEW S, NEW s \in Seq(S), s # <<>>
  PROVE  /\ Tail(s) \in Seq(S) /\ Head(s) \in S /\ Head(s) \in ToSet(s)
         /\ Len(s) >= 1 /\ Len(Tail(s)) = Len(s) - 1
         /\ \A x \in ToSet(Tail(s)) : x \in ToSet(s)
         /\ \A x \in ToSet(s) : x = Head(s) \/ x \in ToSet(Tail(s))
<1>1. /\ Len(s) \in Nat /\ Len(s) >= 1 /\ DOMAIN s = 1 .. Len(s)
      /\ Tail(s) \in Seq(S) /\ Len(Tail(s)) = Len(s) - 1
      /\ Head(s) = s[1] /\ s[1] \in S
      /\ \A j \in 1 .. Len(s) - 1 : Tail(s)[j] = s[j + 1]
  BY HeadTailProperties
<1>2. DOMAIN Tail(s) = 1 .. Len(s) - 1
  BY <1>1
<1>3. ASSUME NEW j \in DOMAIN Tail(s)
      PROVE  Tail(s)[j] \in ToSet(s)
  <2>1. j + 1 \in DOMAIN s /\ Tail(s)[j] = s[j + 1]
    BY <1>1, <1>2
  <2> QED
    BY <2>1 DEF ToSet
<1>4. ASSUME NEW j \in DOMAIN s, j # 1
      PROVE  s[j] \in ToSet(Tail(s))
  <2>1. j - 1 \in DOMAIN Tail(s) /\ Tail(s)[j - 1] = s[j]
    BY <1>1, <1>2, <1>4
  <2> QED
    BY <2>1 DEF ToSet
<1>5. \A x \in ToSet(Tail(s)) : x \in ToSet(s)
  BY <1>3 DEF ToSet
<1>6. \A x \in ToSet(s) : x = Head(s) \/ x \in ToSet(Tail(s))
  <2> SUFFICES ASSUME NEW j \in DOMAIN s
               PROVE  s[j] = Head(s) \/ s[j] \in ToSet(Tail(s))
    BY DEF ToSet
  <2> QED
    BY <1>1, <1>4
<1>7. Head(s) \in ToSet(s)
  BY <1>1 DEF ToSet
<1> QED
  BY <1>1, <1>5, <1>6, <1>7

\* What comes before something else still does in the rest of a program.
LEMMA TailOrder ==
  ASSUME NEW S, NEW s \in Seq(S), s # <<>>, NEW x, NEW y
  PROVE  /\ Before(s, x, y) =>
              /\ Before(Tail(s), x, y)
              /\ x \in ToSet(s) => y \in ToSet(Tail(s))
         /\ NeverAfter(s, x, y) =>
              /\ NeverAfter(Tail(s), x, y)
              /\ Head(s) = x => y \notin ToSet(Tail(s))
<1>1. /\ Len(s) \in Nat /\ Len(s) >= 1 /\ DOMAIN s = 1 .. Len(s)
      /\ DOMAIN Tail(s) = 1 .. Len(s) - 1 /\ Head(s) = s[1]
      /\ \A j \in 1 .. Len(s) - 1 : Tail(s)[j] = s[j + 1]
  BY HeadTailProperties
<1>2. ASSUME Before(s, x, y), NEW j \in DOMAIN Tail(s), Tail(s)[j] = x
      PROVE  \E k \in DOMAIN Tail(s) : j < k /\ Tail(s)[k] = y
  <2>1. j + 1 \in DOMAIN s /\ s[j + 1] = x
    BY <1>1, <1>2
  <2>2. PICK k \in DOMAIN s : j + 1 < k /\ s[k] = y
    BY <2>1, <1>2 DEF Before
  <2>3. k - 1 \in DOMAIN Tail(s) /\ j < k - 1 /\ Tail(s)[k - 1] = y
    BY <2>2, <1>1
  <2> QED
    BY <2>3
<1>3. ASSUME Before(s, x, y), x \in ToSet(s)
      PROVE  y \in ToSet(Tail(s))
  <2>1. PICK j \in DOMAIN s : s[j] = x
    BY <1>3 DEF ToSet
  <2>2. PICK k \in DOMAIN s : j < k /\ s[k] = y
    BY <2>1, <1>3 DEF Before
  <2>3. k - 1 \in DOMAIN Tail(s) /\ Tail(s)[k - 1] = y
    BY <2>2, <1>1
  <2> QED
    BY <2>3 DEF ToSet
<1>4. ASSUME NeverAfter(s, x, y), NEW j \in DOMAIN Tail(s),
             NEW k \in DOMAIN Tail(s), j < k, Tail(s)[j] = x
      PROVE  Tail(s)[k] # y
  <2>1. /\ j + 1 \in DOMAIN s /\ k + 1 \in DOMAIN s /\ j + 1 < k + 1
        /\ Tail(s)[j] = s[j + 1] /\ Tail(s)[k] = s[k + 1]
    BY <1>1, <1>4
  <2> QED
    BY <2>1, <1>4 DEF NeverAfter
<1>5. ASSUME NeverAfter(s, x, y), Head(s) = x, NEW k \in DOMAIN Tail(s)
      PROVE  Tail(s)[k] # y
  <2>1. /\ 1 \in DOMAIN s /\ k + 1 \in DOMAIN s /\ 1 < k + 1
        /\ s[1] = x /\ Tail(s)[k] = s[k + 1]
    BY <1>1, <1>5
  <2> QED
    BY <2>1, <1>5 DEF NeverAfter
<1>6. Before(s, x, y) => Before(Tail(s), x, y)
  BY <1>2 DEF Before
<1>7. NeverAfter(s, x, y) => NeverAfter(Tail(s), x, y)
  BY <1>4 DEF NeverAfter
<1>8. NeverAfter(s, x, y) /\ Head(s) = x => y \notin ToSet(Tail(s))
  BY <1>5 DEF ToSet
<1> QED
  BY <1>3, <1>6, <1>7, <1>8

\* The last n commands of a program.
LEMMA RestIs ==
  ASSUME NEW S, NEW p \in Seq(S), NEW n \in 0 .. Len(p)
  PROVE  /\ Rest(p, n) \in Seq(S) /\ Len(Rest(p, n)) = n
         /\ n >= 1 => /\ Rest(p, n) # <<>>
                      /\ Head(Rest(p, n)) = p[Len(p) - n + 1]
                      /\ Tail(Rest(p, n)) = Rest(p, n - 1)
         /\ Rest(p, Len(p)) = p
         /\ \A x \in ToSet(Rest(p, n)) : x \in ToSet(p)
         /\ \A j \in 1 .. Len(p) : j > Len(p) - n => p[j] \in ToSet(Rest(p, n))
<1> DEFINE l == Len(p)
<1>1. l \in Nat /\ p \in [1 .. l -> S]
  OBVIOUS
<1>2. \A m \in 0 .. l : /\ Rest(p, m) \in Seq(S) /\ Len(Rest(p, m)) = m
                        /\ \A j \in 1 .. m : Rest(p, m)[j] = p[l - m + j]
  <2> SUFFICES ASSUME NEW m \in 0 .. l
               PROVE  /\ Rest(p, m) \in Seq(S) /\ Len(Rest(p, m)) = m
                      /\ \A j \in 1 .. m : Rest(p, m)[j] = p[l - m + j]
    OBVIOUS
  <2>1. l - m + 1 \in 1 .. l + 1
    BY <1>1
  <2>2. Rest(p, m) = SubSeq(p, l - m + 1, l)
    BY DEF Rest
  <2>3. /\ SubSeq(p, l - m + 1, l) \in Seq(S)
        /\ Len(SubSeq(p, l - m + 1, l)) = m
        /\ \A j \in 1 .. m : SubSeq(p, l - m + 1, l)[j] = p[l - m + j]
    BY <2>1, <1>1, SubSeqProperties
  <2> QED
    BY <2>2, <2>3
<1>3. ASSUME n >= 1
      PROVE  /\ Rest(p, n) # <<>>
             /\ Head(Rest(p, n)) = p[l - n + 1]
             /\ Tail(Rest(p, n)) = Rest(p, n - 1)
  <2>1. n - 1 \in 0 .. l
    BY <1>1, <1>3
  <2> DEFINE r == Rest(p, n)
             q == Rest(p, n - 1)
  <2>2. r \in Seq(S) /\ Len(r) = n /\ \A j \in 1 .. n : r[j] = p[l - n + j]
    BY <1>2
  <2>3. /\ q \in Seq(S) /\ Len(q) = n - 1
        /\ \A j \in 1 .. n - 1 : q[j] = p[l - (n - 1) + j]
    BY <1>2, <2>1
  <2> HIDE DEF r, q
  <2>4. r # <<>>
    BY <2>2, <1>3
  <2>5. /\ Tail(r) \in Seq(S) /\ Len(Tail(r)) = n - 1 /\ Head(r) = r[1]
        /\ \A j \in 1 .. n - 1 : Tail(r)[j] = r[j + 1]
    BY <2>2, <2>4, HeadTailProperties
  <2>6. Tail(r) = q
    <3>1. \A j \in 1 .. n - 1 : Tail(r)[j] = q[j]
      BY <2>2, <2>3, <2>5, <1>1
    <3> QED
      BY <3>1, <2>3, <2>5, SeqEqual
  <2> QED
    BY <2>2, <2>4, <2>5, <2>6, <1>1, <1>3 DEF r, q
<1>4. Rest(p, l) = p
  <2>1. l \in 0 .. l /\ \A j \in 1 .. l : l - l + j = j
    BY <1>1
  <2>2. /\ Rest(p, l) \in Seq(S) /\ Len(Rest(p, l)) = l
        /\ \A j \in 1 .. l : Rest(p, l)[j] = p[l - l + j]
    BY <1>2, <2>1
  <2>3. \A j \in 1 .. l : Rest(p, l)[j] = p[j]
    BY <2>1, <2>2
  <2> QED
    BY <2>2, <2>3, SeqEqual
<1>5. ASSUME NEW x \in ToSet(Rest(p, n)) PROVE x \in ToSet(p)
  <2>1. /\ Rest(p, n) \in Seq(S) /\ Len(Rest(p, n)) = n
        /\ \A j \in 1 .. n : Rest(p, n)[j] = p[l - n + j]
    BY <1>2
  <2>2. PICK j \in 1 .. n : Rest(p, n)[j] = x
    BY <2>1 DEF ToSet
  <2>3. l - n + j \in DOMAIN p /\ x = p[l - n + j]
    BY <1>1, <2>1, <2>2
  <2> QED
    BY <2>3 DEF ToSet
<1>6. ASSUME NEW j \in 1 .. l, j > l - n PROVE p[j] \in ToSet(Rest(p, n))
  <2>1. /\ Rest(p, n) \in Seq(S) /\ Len(Rest(p, n)) = n
        /\ \A k \in 1 .. n : Rest(p, n)[k] = p[l - n + k]
    BY <1>2
  <2>2. j - (l - n) \in 1 .. n /\ l - n + (j - (l - n)) = j
    BY <1>1, <1>6
  <2>3. Rest(p, n)[j - (l - n)] = p[j]
    BY <2>1, <2>2
  <2>4. j - (l - n) \in DOMAIN Rest(p, n)
    BY <2>1, <2>2
  <2> QED
    BY <2>3, <2>4 DEF ToSet
<1> QED
  BY <1>2, <1>3, <1>4, <1>5, <1>6

(***************************************************************************)
(* Joining two lists of commands.                                          *)
(***************************************************************************)
LEMMA Joined ==
  ASSUME NEW S, NEW s \in Seq(S), NEW u \in Seq(S), NEW v \in Seq(S),
         Len(v) = Len(s) + Len(u),
         \A j \in 1 .. Len(s) : v[j] = s[j],
         \A j \in 1 .. Len(u) : v[Len(s) + j] = u[j]
  PROVE  s \o u = v
<1>1. /\ s \o u \in Seq(S) /\ Len(s \o u) = Len(s) + Len(u)
      /\ \A j \in 1 .. Len(s) + Len(u) :
           (s \o u)[j] = IF j <= Len(s) THEN s[j] ELSE u[j - Len(s)]
  BY ConcatProperties
<1>2. ASSUME NEW j \in 1 .. Len(s) + Len(u)
      PROVE  (s \o u)[j] = v[j]
  <2>1. CASE j <= Len(s)
    BY <1>1, <2>1
  <2>2. CASE j > Len(s)
    <3>1. j - Len(s) \in 1 .. Len(u) /\ Len(s) + (j - Len(s)) = j
      BY <2>2
    <3>2. v[j] = u[j - Len(s)]
      BY <3>1
    <3> QED
      BY <1>1, <2>2, <3>2
  <2> QED
    BY <2>1, <2>2
<1> QED
  BY <1>1, <1>2, SeqEqual

(***************************************************************************)
(* The programs, command by command.                                       *)
(***************************************************************************)
LEMMA Typed ==
  /\ \A h \in Hooks : Cmd("-D", h) \in Commands /\ Cmd("-I", h) \in Commands
  /\ \A c \in Chains : /\ Cmd("-F", c) \in Commands /\ Cmd("-X", c) \in Commands
                       /\ Cmd("-N", c) \in Commands
  /\ \A c \in Chains, r \in Rules : Cmd("-A", <<c, r>>) \in Commands
  /\ Cmd("-D FORWARD", Nil) \in Commands /\ Cmd("-I FORWARD", Nil) \in Commands
  /\ \A c \in {"OUTPUT", "PROXY"} : OutputJump(c) \in Hooks
  /\ \A i \in Ifaces : <<i, "PREROUTING">> \in Hooks
<1> DEFINE Jump == {Cmd(op, h) : op \in {"-D", "-I"}, h \in Hooks}
           Whole == {Cmd(op, c) : op \in {"-F", "-X", "-N"}, c \in Chains}
           Add == {Cmd("-A", a) : a \in Chains \X Rules}
           Accept == {Cmd(op, Nil) : op \in {"-D FORWARD", "-I FORWARD"}}
<1>1. Commands = Jump \cup Whole \cup Add \cup Accept
  BY DEF Commands
<1>2. \A h \in Hooks : Cmd("-D", h) \in Jump /\ Cmd("-I", h) \in Jump
  OBVIOUS
<1>3. \A c \in Chains : /\ Cmd("-F", c) \in Whole /\ Cmd("-X", c) \in Whole
                        /\ Cmd("-N", c) \in Whole
  OBVIOUS
<1>4. \A c \in Chains, r \in Rules : Cmd("-A", <<c, r>>) \in Add
  <2> SUFFICES ASSUME NEW c \in Chains, NEW r \in Rules
               PROVE  Cmd("-A", <<c, r>>) \in Add
    OBVIOUS
  <2>1. <<c, r>> \in Chains \X Rules
    OBVIOUS
  <2> QED
    BY <2>1
<1>5. Cmd("-D FORWARD", Nil) \in Accept /\ Cmd("-I FORWARD", Nil) \in Accept
  OBVIOUS
<1>6. \A c \in {"OUTPUT", "PROXY"} : OutputJump(c) \in Hooks
  BY DEF OutputJump, Hooks
<1>7. \A i \in Ifaces : <<i, "PREROUTING">> \in Hooks
  BY DEF Hooks
<1> HIDE DEF Jump, Whole, Add, Accept
<1> QED
  BY <1>1, <1>2, <1>3, <1>4, <1>5, <1>6, <1>7

CleanupOf(i) ==
    <<Cmd("-D", OutputJump("OUTPUT")), Cmd("-D", <<i, "PREROUTING">>),
      Cmd("-D", OutputJump("PROXY")),
      Cmd("-F", "OUTPUT"), Cmd("-X", "OUTPUT"), Cmd("-F", "PREROUTING"),
      Cmd("-X", "PREROUTING"), Cmd("-F", "PROXY"), Cmd("-X", "PROXY"),
      Cmd("-D FORWARD", Nil)>>

\* The ten commands of a Cleanup of one interface, written out.
LEMMA CleanupIs ==
  ASSUME NEW i \in Ifaces
  PROVE  Cleanup(<<i>>) = CleanupOf(i)
<1> DEFINE U(c) == Unhooks(c, <<i>>)
           d1 == Cmd("-D", OutputJump("OUTPUT"))
           d2 == Cmd("-D", <<i, "PREROUTING">>)
           d3 == Cmd("-D", OutputJump("PROXY"))
           F(c) == Cmd("-F", c)
           X(c) == Cmd("-X", c)
           z == Cmd("-D FORWARD", Nil)
<1>1. /\ d1 \in Commands /\ d2 \in Commands /\ d3 \in Commands
      /\ z \in Commands
      /\ F("OUTPUT") \in Commands /\ X("OUTPUT") \in Commands
      /\ F("PREROUTING") \in Commands /\ X("PREROUTING") \in Commands
      /\ F("PROXY") \in Commands /\ X("PROXY") \in Commands
  BY Typed DEF Chains
<1>2. U("OUTPUT") = <<d1>> /\ U("PROXY") = <<d3>>
  BY DEF Unhooks, OutputJump
<1>3. U("PREROUTING") = <<d2>>
  BY DEF Unhooks
<1>4. Cleanup(<<i>>) =
        ((U("OUTPUT") \o U("PREROUTING") \o U("PROXY"))
         \o (Removes("OUTPUT") \o Removes("PREROUTING") \o Removes("PROXY")))
        \o <<z>>
  BY DEF Cleanup, EachChain
<1>5. \A c : Removes(c) = <<F(c), X(c)>>
  BY DEF Removes
<1> HIDE DEF U, d1, d2, d3, F, X, z
<1> DEFINE fo == F("OUTPUT")
           xo == X("OUTPUT")
           fp == F("PREROUTING")
           xp == X("PREROUTING")
           fy == F("PROXY")
           xy == X("PROXY")
<1>6. /\ Removes("OUTPUT") = <<fo, xo>> /\ Removes("PREROUTING") = <<fp, xp>>
      /\ Removes("PROXY") = <<fy, xy>>
      /\ fo \in Commands /\ xo \in Commands /\ fp \in Commands
      /\ xp \in Commands /\ fy \in Commands /\ xy \in Commands
  BY <1>1, <1>5
<1> HIDE DEF fo, xo, fp, xp, fy, xy
<1>7. <<d1>>
       \o <<d2>> =
         <<d1, d2>>
  <2> DEFINE left == <<d1>>
             right == <<d2>>
             whole == <<d1, d2>>
  <2>1. /\ left \in Seq(Commands) /\ right \in Seq(Commands)
        /\ whole \in Seq(Commands)
    BY <1>1
  <2>2. Len(whole) = Len(left) + Len(right)
    OBVIOUS
  <2>3. \A x \in 1 .. Len(left) : whole[x] = left[x]
    OBVIOUS
  <2>4. \A x \in 1 .. Len(right) : whole[Len(left) + x] = right[x]
    OBVIOUS
  <2> HIDE DEF left, right, whole
  <2>5. left \o right = whole
    BY <2>1, <2>2, <2>3, <2>4, Joined
  <2> QED
    BY <2>5 DEF left, right, whole
<1>8. <<d1, d2>>
       \o <<d3>> =
         <<d1, d2, d3>>
  <2> DEFINE left == <<d1, d2>>
             right == <<d3>>
             whole == <<d1, d2, d3>>
  <2>1. /\ left \in Seq(Commands) /\ right \in Seq(Commands)
        /\ whole \in Seq(Commands)
    BY <1>1
  <2>2. Len(whole) = Len(left) + Len(right)
    OBVIOUS
  <2>3. \A x \in 1 .. Len(left) : whole[x] = left[x]
    OBVIOUS
  <2>4. \A x \in 1 .. Len(right) : whole[Len(left) + x] = right[x]
    OBVIOUS
  <2> HIDE DEF left, right, whole
  <2>5. left \o right = whole
    BY <2>1, <2>2, <2>3, <2>4, Joined
  <2> QED
    BY <2>5 DEF left, right, whole
<1>9. <<fo, xo>>
       \o <<fp, xp>> =
         <<fo, xo, fp, xp>>
  <2> DEFINE left == <<fo, xo>>
             right == <<fp, xp>>
             whole == <<fo, xo, fp, xp>>
  <2>1. /\ left \in Seq(Commands) /\ right \in Seq(Commands)
        /\ whole \in Seq(Commands)
    BY <1>6
  <2>2. Len(whole) = Len(left) + Len(right)
    OBVIOUS
  <2>3. \A x \in 1 .. Len(left) : whole[x] = left[x]
    OBVIOUS
  <2>4. \A x \in 1 .. Len(right) : whole[Len(left) + x] = right[x]
    OBVIOUS
  <2> HIDE DEF left, right, whole
  <2>5. left \o right = whole
    BY <2>1, <2>2, <2>3, <2>4, Joined
  <2> QED
    BY <2>5 DEF left, right, whole
<1>10. <<fo, xo, fp, xp>>
       \o <<fy, xy>> =
         <<fo, xo, fp, xp, fy, xy>>
  <2> DEFINE left == <<fo, xo, fp, xp>>
             right == <<fy, xy>>
             whole == <<fo, xo, fp, xp, fy, xy>>
  <2>1. /\ left \in Seq(Commands) /\ right \in Seq(Commands)
        /\ whole \in Seq(Commands)
    BY <1>6
  <2>2. Len(whole) = Len(left) + Len(right)
    OBVIOUS
  <2>3. \A x \in 1 .. Len(left) : whole[x] = left[x]
    OBVIOUS
  <2>4. \A x \in 1 .. Len(right) : whole[Len(left) + x] = right[x]
    OBVIOUS
  <2> HIDE DEF left, right, whole
  <2>5. left \o right = whole
    BY <2>1, <2>2, <2>3, <2>4, Joined
  <2> QED
    BY <2>5 DEF left, right, whole
<1>11. <<d1, d2, d3>>
       \o <<fo, xo, fp, xp, fy, xy>> =
         <<d1, d2, d3, fo, xo, fp, xp, fy, xy>>
  <2> DEFINE left == <<d1, d2, d3>>
             right == <<fo, xo, fp, xp, fy, xy>>
             whole == <<d1, d2, d3, fo, xo, fp, xp, fy, xy>>
  <2>1. /\ left \in Seq(Commands) /\ right \in Seq(Commands)
        /\ whole \in Seq(Commands)
    BY <1>1, <1>6
  <2>2. Len(whole) = Len(left) + Len(right)
    OBVIOUS
  <2>3. \A x \in 1 .. Len(left) : whole[x] = left[x]
    OBVIOUS
  <2>4. \A x \in 1 .. Len(right) : whole[Len(left) + x] = right[x]
    OBVIOUS
  <2> HIDE DEF left, right, whole
  <2>5. left \o right = whole
    BY <2>1, <2>2, <2>3, <2>4, Joined
  <2> QED
    BY <2>5 DEF left, right, whole
<1>12. <<d1, d2, d3, fo, xo, fp, xp, fy, xy>>
       \o <<z>> =
         <<d1, d2, d3, fo, xo, fp, xp, fy, xy, z>>
  <2> DEFINE left == <<d1, d2, d3, fo, xo, fp, xp, fy, xy>>
             right == <<z>>
             whole == <<d1, d2, d3, fo, xo, fp, xp, fy, xy, z>>
  <2>1. /\ left \in Seq(Commands) /\ right \in Seq(Commands)
        /\ whole \in Seq(Commands)
    BY <1>1, <1>6
  <2>2. Len(whole) = Len(left) + Len(right)
    OBVIOUS
  <2>3. \A x \in 1 .. Len(left) : whole[x] = left[x]
    OBVIOUS
  <2>4. \A x \in 1 .. Len(right) : whole[Len(left) + x] = right[x]
    OBVIOUS
  <2> HIDE DEF left, right, whole
  <2>5. left \o right = whole
    BY <2>1, <2>2, <2>3, <2>4, Joined
  <2> QED
    BY <2>5 DEF left, right, whole
<1>13. Cleanup(<<i>>) = <<d1, d2, d3, fo, xo, fp, xp, fy, xy, z>>
  BY <1>2, <1>3, <1>4, <1>6, <1>7, <1>8, <1>9, <1>10, <1>11, <1>12
<1> QED
  BY <1>13 DEF CleanupOf, d1, d2, d3, F, X, z, fo, xo, fp, xp, fy, xy

BuildOf ==
    <<Cmd("-N", "OUTPUT"), Cmd("-F", "OUTPUT"), Cmd("-N", "PREROUTING"),
      Cmd("-F", "PREROUTING"), Cmd("-A", <<"OUTPUT", "uid 0 RETURN">>),
      Cmd("-A", <<"OUTPUT", "RETURN">>), Cmd("-A", <<"OUTPUT", "REDIRECT">>),
      Cmd("-A", <<"PREROUTING", "RETURN">>),
      Cmd("-A", <<"PREROUTING", "REDIRECT">>),
      Cmd("-I", OutputJump("OUTPUT"))>>
SharingOf(i) ==
    <<Cmd("-N", "OUTPUT"), Cmd("-F", "OUTPUT"), Cmd("-N", "PREROUTING"),
      Cmd("-F", "PREROUTING"), Cmd("-A", <<"OUTPUT", "uid 0 RETURN">>),
      Cmd("-A", <<"OUTPUT", "RETURN">>), Cmd("-A", <<"OUTPUT", "REDIRECT">>),
      Cmd("-A", <<"PREROUTING", "RETURN">>),
      Cmd("-A", <<"PREROUTING", "REDIRECT">>),
      Cmd("-I", OutputJump("OUTPUT")), Cmd("-I", <<i, "PREROUTING">>),
      Cmd("-I FORWARD", Nil)>>

\* A configuration names one interface.
LEMMA ConfigIs ==
  ASSUME NEW k \in Configs
  PROVE  \E i \in Ifaces : k.ifaces = <<i>>
BY ConfigsAssumption DEF Ifaces

\* The rules of the two chains, as the commands that append them.
LEMMA FillIs ==
  /\ Fill("OUTPUT") = <<Cmd("-A", <<"OUTPUT", "uid 0 RETURN">>),
                        Cmd("-A", <<"OUTPUT", "RETURN">>),
                        Cmd("-A", <<"OUTPUT", "REDIRECT">>)>>
  /\ Fill("PREROUTING") = <<Cmd("-A", <<"PREROUTING", "RETURN">>),
                            Cmd("-A", <<"PREROUTING", "REDIRECT">>)>>
<1> DEFINE b == Bypasses("OUTPUT")
           d == Bypasses("PREROUTING")
           A(x) == Cmd("-A", <<"OUTPUT", x>>)
           B(x) == Cmd("-A", <<"PREROUTING", x>>)
           f == [x \in DOMAIN b |-> A(b[x])]
           g == [x \in DOMAIN d |-> B(d[x])]
           u == "uid 0 RETURN"
           r == "RETURN"
           e == "REDIRECT"
<1>1. b = <<u, r, e>> /\ d = <<r, e>>
  BY DEF Bypasses
<1>2. Fill("OUTPUT") = f /\ Fill("PREROUTING") = g
  BY DEF Fill
<1>3. /\ A(u) \in Commands /\ A(r) \in Commands /\ A(e) \in Commands
      /\ B(r) \in Commands /\ B(e) \in Commands
  BY Typed DEF Chains, Rules
<1> HIDE DEF b, d, A, B, u, r, e
<1> DEFINE v == <<A(u), A(r), A(e)>>
           w == <<B(r), B(e)>>
<1>4. /\ f \in Seq(Commands) /\ Len(f) = 3
      /\ f[1] = A(u) /\ f[2] = A(r) /\ f[3] = A(e)
  BY <1>1, <1>3
<1>5. /\ v \in Seq(Commands) /\ Len(v) = 3
      /\ v[1] = A(u) /\ v[2] = A(r) /\ v[3] = A(e)
  BY <1>3
<1>6. /\ g \in Seq(Commands) /\ Len(g) = 2 /\ g[1] = B(r) /\ g[2] = B(e)
  BY <1>1, <1>3
<1>7. /\ w \in Seq(Commands) /\ Len(w) = 2 /\ w[1] = B(r) /\ w[2] = B(e)
  BY <1>3
<1> HIDE DEF f, g, v, w
<1>8. f = v
  BY <1>4, <1>5, SeqEqual
<1>9. g = w
  BY <1>6, <1>7, SeqEqual
<1> QED
  BY <1>2, <1>8, <1>9 DEF v, w, A, B, u, r, e

\* The commands of Apply after its Cleanup, written out.
LEMMA BuildIs ==
  ASSUME NEW k \in Configs, NEW i \in Ifaces, k.ifaces = <<i>>
  PROVE  Build(k) = IF k.hotspot THEN SharingOf(i) ELSE BuildOf
<1> DEFINE n1 == Cmd("-N", "OUTPUT")
           f1 == Cmd("-F", "OUTPUT")
           n2 == Cmd("-N", "PREROUTING")
           f2 == Cmd("-F", "PREROUTING")
           a1 == Cmd("-A", <<"OUTPUT", "uid 0 RETURN">>)
           a2 == Cmd("-A", <<"OUTPUT", "RETURN">>)
           a3 == Cmd("-A", <<"OUTPUT", "REDIRECT">>)
           b1 == Cmd("-A", <<"PREROUTING", "RETURN">>)
           b2 == Cmd("-A", <<"PREROUTING", "REDIRECT">>)
           j == Cmd("-I", OutputJump("OUTPUT"))
           s == Cmd("-I", <<i, "PREROUTING">>)
           z == Cmd("-I FORWARD", Nil)
<1>1. /\ n1 \in Commands /\ f1 \in Commands /\ n2 \in Commands
      /\ f2 \in Commands /\ a1 \in Commands /\ a2 \in Commands
      /\ a3 \in Commands /\ b1 \in Commands /\ b2 \in Commands
      /\ j \in Commands /\ s \in Commands /\ z \in Commands
  BY Typed DEF Chains, Rules
<1>2. Create("OUTPUT") = <<n1, f1>> /\ Create("PREROUTING") = <<n2, f2>>
  BY DEF Create
<1>3. Fill("OUTPUT") = <<a1, a2, a3>>
  BY FillIs
<1>4. Fill("PREROUTING") = <<b1, b2>>
  BY FillIs
<1>5. Share(k) = IF k.hotspot THEN <<s>> \o <<z>> ELSE <<>>
  <2>1. [x \in DOMAIN k.ifaces |-> Cmd("-I", <<k.ifaces[x], "PREROUTING">>)]
          = <<s>>
    OBVIOUS
  <2> QED
    BY <2>1 DEF Share
<1>6. Build(k) =
        ((((Create("OUTPUT") \o Create("PREROUTING")) \o Fill("OUTPUT"))
         \o Fill("PREROUTING")) \o <<j>>) \o Share(k)
  BY DEF Build, OutputJump
<1> HIDE DEF n1, f1, n2, f2, a1, a2, a3, b1, b2, j, s, z
<1>7. <<n1, f1>>
       \o <<n2, f2>> =
         <<n1, f1, n2, f2>>
  <2> DEFINE left == <<n1, f1>>
             right == <<n2, f2>>
             whole == <<n1, f1, n2, f2>>
  <2>1. /\ left \in Seq(Commands) /\ right \in Seq(Commands)
        /\ whole \in Seq(Commands)
    BY <1>1
  <2>2. Len(whole) = Len(left) + Len(right)
    OBVIOUS
  <2>3. \A x \in 1 .. Len(left) : whole[x] = left[x]
    OBVIOUS
  <2>4. \A x \in 1 .. Len(right) : whole[Len(left) + x] = right[x]
    OBVIOUS
  <2> HIDE DEF left, right, whole
  <2>5. left \o right = whole
    BY <2>1, <2>2, <2>3, <2>4, Joined
  <2> QED
    BY <2>5 DEF left, right, whole
<1>8. <<n1, f1, n2, f2>>
       \o <<a1, a2, a3>> =
         <<n1, f1, n2, f2, a1, a2, a3>>
  <2> DEFINE left == <<n1, f1, n2, f2>>
             right == <<a1, a2, a3>>
             whole == <<n1, f1, n2, f2, a1, a2, a3>>
  <2>1. /\ left \in Seq(Commands) /\ right \in Seq(Commands)
        /\ whole \in Seq(Commands)
    BY <1>1
  <2>2. Len(whole) = Len(left) + Len(right)
    OBVIOUS
  <2>3. \A x \in 1 .. Len(left) : whole[x] = left[x]
    OBVIOUS
  <2>4. \A x \in 1 .. Len(right) : whole[Len(left) + x] = right[x]
    OBVIOUS
  <2> HIDE DEF left, right, whole
  <2>5. left \o right = whole
    BY <2>1, <2>2, <2>3, <2>4, Joined
  <2> QED
    BY <2>5 DEF left, right, whole
<1>9. <<n1, f1, n2, f2, a1, a2, a3>>
       \o <<b1, b2>> =
         <<n1, f1, n2, f2, a1, a2, a3, b1, b2>>
  <2> DEFINE left == <<n1, f1, n2, f2, a1, a2, a3>>
             right == <<b1, b2>>
             whole == <<n1, f1, n2, f2, a1, a2, a3, b1, b2>>
  <2>1. /\ left \in Seq(Commands) /\ right \in Seq(Commands)
        /\ whole \in Seq(Commands)
    BY <1>1
  <2>2. Len(whole) = Len(left) + Len(right)
    OBVIOUS
  <2>3. \A x \in 1 .. Len(left) : whole[x] = left[x]
    OBVIOUS
  <2>4. \A x \in 1 .. Len(right) : whole[Len(left) + x] = right[x]
    OBVIOUS
  <2> HIDE DEF left, right, whole
  <2>5. left \o right = whole
    BY <2>1, <2>2, <2>3, <2>4, Joined
  <2> QED
    BY <2>5 DEF left, right, whole
<1>10. <<n1, f1, n2, f2, a1, a2, a3, b1, b2>>
       \o <<j>> =
         <<n1, f1, n2, f2, a1, a2, a3, b1, b2, j>>
  <2> DEFINE left == <<n1, f1, n2, f2, a1, a2, a3, b1, b2>>
             right == <<j>>
             whole == <<n1, f1, n2, f2, a1, a2, a3, b1, b2, j>>
  <2>1. /\ left \in Seq(Commands) /\ right \in Seq(Commands)
        /\ whole \in Seq(Commands)
    BY <1>1
  <2>2. Len(whole) = Len(left) + Len(right)
    OBVIOUS
  <2>3. \A x \in 1 .. Len(left) : whole[x] = left[x]
    OBVIOUS
  <2>4. \A x \in 1 .. Len(right) : whole[Len(left) + x] = right[x]
    OBVIOUS
  <2> HIDE DEF left, right, whole
  <2>5. left \o right = whole
    BY <2>1, <2>2, <2>3, <2>4, Joined
  <2> QED
    BY <2>5 DEF left, right, whole
<1>11. Build(k) = <<n1, f1, n2, f2, a1, a2, a3, b1, b2, j>> \o Share(k)
  BY <1>2, <1>3, <1>4, <1>6, <1>7, <1>8, <1>9, <1>10
<1>12. CASE k.hotspot
  <2>1. <<s>>
         \o <<z>> =
           <<s, z>>
    <3> DEFINE left == <<s>>
               right == <<z>>
               whole == <<s, z>>
    <3>1. /\ left \in Seq(Commands) /\ right \in Seq(Commands)
          /\ whole \in Seq(Commands)
      BY <1>1
    <3>2. Len(whole) = Len(left) + Len(right)
      OBVIOUS
    <3>3. \A x \in 1 .. Len(left) : whole[x] = left[x]
      OBVIOUS
    <3>4. \A x \in 1 .. Len(right) : whole[Len(left) + x] = right[x]
      OBVIOUS
    <3> HIDE DEF left, right, whole
    <3>5. left \o right = whole
      BY <3>1, <3>2, <3>3, <3>4, Joined
    <3> QED
      BY <3>5 DEF left, right, whole
  <2>2. <<n1, f1, n2, f2, a1, a2, a3, b1, b2, j>>
         \o <<s, z>> =
           <<n1, f1, n2, f2, a1, a2, a3, b1, b2, j, s, z>>
    <3> DEFINE left == <<n1, f1, n2, f2, a1, a2, a3, b1, b2, j>>
               right == <<s, z>>
               whole == <<n1, f1, n2, f2, a1, a2, a3, b1, b2, j, s, z>>
    <3>1. /\ left \in Seq(Commands) /\ right \in Seq(Commands)
          /\ whole \in Seq(Commands)
      BY <1>1
    <3>2. Len(whole) = Len(left) + Len(right)
      OBVIOUS
    <3>3. \A x \in 1 .. Len(left) : whole[x] = left[x]
      OBVIOUS
    <3>4. \A x \in 1 .. Len(right) : whole[Len(left) + x] = right[x]
      OBVIOUS
    <3> HIDE DEF left, right, whole
    <3>5. left \o right = whole
      BY <3>1, <3>2, <3>3, <3>4, Joined
    <3> QED
      BY <3>5 DEF left, right, whole
  <2>3. Build(k) = <<n1, f1, n2, f2, a1, a2, a3, b1, b2, j, s, z>>
    BY <1>5, <1>11, <1>12, <2>1, <2>2
  <2> QED
    BY <1>12, <2>3
       DEF SharingOf, n1, f1, n2, f2, a1, a2, a3, b1, b2, j, s, z
<1>13. CASE ~k.hotspot
  <2>1. <<n1, f1, n2, f2, a1, a2, a3, b1, b2, j>> \in Seq(Commands)
    BY <1>1
  <2>2. Build(k) = <<n1, f1, n2, f2, a1, a2, a3, b1, b2, j>>
    BY <1>5, <1>11, <1>13, <2>1, ConcatEmptySeq
  <2> QED
    BY <1>13, <2>2 DEF BuildOf, n1, f1, n2, f2, a1, a2, a3, b1, b2, j
<1> QED
  BY <1>12, <1>13

(***************************************************************************)
(* What is in a program, and in which order.                               *)
(***************************************************************************)
LEMMA CmdIs ==
  ASSUME NEW o, NEW x, NEW p, NEW y
  PROVE  /\ Cmd(o, x) = Cmd(p, y) <=> o = p /\ x = y
         /\ Cmd(o, x).op = o /\ Cmd(o, x).arg = x
BY DEF Cmd

\* A pair is its two parts.
LEMMA PairIs ==
  ASSUME NEW S, NEW T, NEW h \in S \X T
  PROVE  h = <<h[1], h[2]>>
OBVIOUS

\* The jumps: two from OUTPUT, and one for an interface.
LEMMA HooksAre ==
  /\ \A h \in Hooks : \/ h = OutputJump("OUTPUT") \/ h = OutputJump("PROXY")
                      \/ \E i \in Ifaces : h = <<i, "PREROUTING">>
  /\ \A h \in Hooks : h[2] \in Chains
<1>1. ASSUME NEW h \in {"nat OUTPUT"} \X {"OUTPUT", "PROXY"}
      PROVE  /\ h = OutputJump("OUTPUT") \/ h = OutputJump("PROXY")
             /\ h[2] \in Chains
  <2>1. h = <<h[1], h[2]>>
    BY PairIs, Zenon
  <2>2. h[1] = "nat OUTPUT" /\ h[2] \in {"OUTPUT", "PROXY"}
    OBVIOUS
  <2>3. h = OutputJump(h[2])
    BY <2>1, <2>2 DEF OutputJump
  <2>4. h[2] = "OUTPUT" \/ h[2] = "PROXY"
    BY <2>2
  <2> QED
    BY <2>3, <2>4 DEF Chains
<1>2. ASSUME NEW h \in Ifaces \X {"PREROUTING"}
      PROVE  /\ \E i \in Ifaces : h = <<i, "PREROUTING">>
             /\ h[2] \in Chains
  <2>1. PICK i \in Ifaces : h = <<i, "PREROUTING">>
    OBVIOUS
  <2> QED
    BY <2>1 DEF Chains
<1> QED
  BY <1>1, <1>2 DEF Hooks

\* The command that deletes a jump, and the one that makes it, tell which jump
\* it is, and are no command on a chain.
LEMMA DelIs ==
  ASSUME NEW x \in Jumps, NEW y \in Jumps
  PROVE  /\ Del(x) = Del(y) <=> x = y
         /\ Ins(x) = Ins(y) <=> x = y
         /\ Del(x) # Ins(y)
         /\ Del(x) \in Commands /\ Ins(x) \in Commands
         /\ Del(x).op \in Removing /\ Ins(x).op \notin Removing
         /\ \A o \in {"-F", "-X", "-N", "-A"} : \A z :
              Del(x) # Cmd(o, z) /\ Ins(x) # Cmd(o, z)
<1>1. /\ Del(x).op = IF x = Nil THEN "-D FORWARD" ELSE "-D"
      /\ Ins(x).op = IF x = Nil THEN "-I FORWARD" ELSE "-I"
      /\ Ins(y).op = IF y = Nil THEN "-I FORWARD" ELSE "-I"
      /\ Del(x).arg = x /\ Ins(x).arg = x
      /\ Del(y).arg = y /\ Ins(y).arg = y
  BY CmdIs DEF Del, Ins
<1>2. Del(x) \in Commands /\ Ins(x) \in Commands
  BY Typed DEF Jumps, Del, Ins
<1>3. \A o, z : Cmd(o, z).op = o
  BY CmdIs
<1>4. \A o \in {"-F", "-X", "-N", "-A"} : \A z :
              Del(x) # Cmd(o, z) /\ Ins(x) # Cmd(o, z)
  <2> SUFFICES ASSUME NEW o \in {"-F", "-X", "-N", "-A"}, NEW z
               PROVE  Del(x) # Cmd(o, z) /\ Ins(x) # Cmd(o, z)
    OBVIOUS
  <2>1. Cmd(o, z).op = o
    BY <1>3
  <2>2. Del(x).op # o /\ Ins(x).op # o
    BY <1>1
  <2> QED
    BY <2>1, <2>2
<1>5. Del(x).op \in Removing /\ Ins(x).op \notin Removing
  BY <1>1 DEF Removing
<1>6. Del(x) # Ins(y)
  BY <1>1
<1> QED
  BY <1>1, <1>2, <1>4, <1>5, <1>6

\* The commands of Cleanup, one by one.
LEMMA CleanupAt ==
  ASSUME NEW i \in Ifaces
  PROVE  LET s == Cleanup(<<i>>)
         IN  /\ s \in Seq(Commands) /\ Len(s) = 10
             /\ s[1] = Del(OutputJump("OUTPUT"))
             /\ s[2] = Del(<<i, "PREROUTING">>)
             /\ s[3] = Del(OutputJump("PROXY"))
             /\ s[4] = Cmd("-F", "OUTPUT") /\ s[5] = Cmd("-X", "OUTPUT")
             /\ s[6] = Cmd("-F", "PREROUTING")
             /\ s[7] = Cmd("-X", "PREROUTING")
             /\ s[8] = Cmd("-F", "PROXY") /\ s[9] = Cmd("-X", "PROXY")
             /\ s[10] = Del(Nil)
<1> DEFINE d1 == Cmd("-D", OutputJump("OUTPUT"))
           d2 == Cmd("-D", <<i, "PREROUTING">>)
           d3 == Cmd("-D", OutputJump("PROXY"))
           fo == Cmd("-F", "OUTPUT")
           xo == Cmd("-X", "OUTPUT")
           fp == Cmd("-F", "PREROUTING")
           xp == Cmd("-X", "PREROUTING")
           fy == Cmd("-F", "PROXY")
           xy == Cmd("-X", "PROXY")
           z == Cmd("-D FORWARD", Nil)
<1>1. /\ d1 \in Commands /\ d2 \in Commands /\ d3 \in Commands
      /\ fo \in Commands /\ xo \in Commands /\ fp \in Commands
      /\ xp \in Commands /\ fy \in Commands /\ xy \in Commands
      /\ z \in Commands
  BY Typed DEF Chains
<1>2. /\ OutputJump("OUTPUT") # Nil /\ OutputJump("PROXY") # Nil
      /\ <<i, "PREROUTING">> # Nil
  BY Typed, ValuesAssumption
<1>3. /\ d1 = Del(OutputJump("OUTPUT")) /\ d2 = Del(<<i, "PREROUTING">>)
      /\ d3 = Del(OutputJump("PROXY")) /\ z = Del(Nil)
  BY <1>2 DEF Del
<1>4. Cleanup(<<i>>) = <<d1, d2, d3, fo, xo, fp, xp, fy, xy, z>>
  BY CleanupIs DEF CleanupOf
<1> HIDE DEF d1, d2, d3, fo, xo, fp, xp, fy, xy, z
<1> DEFINE s == <<d1, d2, d3, fo, xo, fp, xp, fy, xy, z>>
<1>5. s \in Seq(Commands) /\ Len(s) = 10
  BY <1>1
<1>6. /\ s[1] = d1 /\ s[2] = d2 /\ s[3] = d3 /\ s[4] = fo /\ s[5] = xo
      /\ s[6] = fp /\ s[7] = xp /\ s[8] = fy /\ s[9] = xy /\ s[10] = z
  OBVIOUS
<1> HIDE DEF s
<1> QED
  BY <1>3, <1>4, <1>5, <1>6 DEF s, fo, xo, fp, xp, fy, xy

\* What Cleanup contains, and that it is in order.
LEMMA CleanupHas ==
  ASSUME NEW i \in Ifaces
  PROVE  LET s == Cleanup(<<i>>)
         IN  /\ s \in Seq(Commands)
             /\ \A cmd \in ToSet(s) : cmd.op \in Removing
             /\ CleansInOrder(s)
             /\ \A c \in Chains : /\ Cmd("-F", c) \in ToSet(s)
                                  /\ Cmd("-X", c) \in ToSet(s)
             /\ \A c \in {"OUTPUT", "PROXY"} : Del(OutputJump(c)) \in ToSet(s)
             /\ Del(<<i, "PREROUTING">>) \in ToSet(s)
             /\ Del(Nil) \in ToSet(s)
<1> DEFINE s == Cleanup(<<i>>)
           jo == OutputJump("OUTPUT")
           jy == OutputJump("PROXY")
           ji == <<i, "PREROUTING">>
<1>1. /\ s \in Seq(Commands) /\ Len(s) = 10
      /\ s[1] = Del(jo) /\ s[2] = Del(ji) /\ s[3] = Del(jy)
      /\ s[4] = Cmd("-F", "OUTPUT") /\ s[5] = Cmd("-X", "OUTPUT")
      /\ s[6] = Cmd("-F", "PREROUTING") /\ s[7] = Cmd("-X", "PREROUTING")
      /\ s[8] = Cmd("-F", "PROXY") /\ s[9] = Cmd("-X", "PROXY")
      /\ s[10] = Del(Nil)
  BY CleanupAt
<1>2. jo \in Hooks /\ jy \in Hooks /\ ji \in Hooks
  BY Typed
<1>3. jo[2] = "OUTPUT" /\ jy[2] = "PROXY" /\ ji[2] = "PREROUTING"
  BY DEF OutputJump
<1> HIDE DEF s, jo, jy, ji
<1>4. DOMAIN s = 1 .. 10
  BY <1>1
<1>5. ToSet(s) = {Del(jo), Del(ji), Del(jy), Cmd("-F", "OUTPUT"),
                  Cmd("-X", "OUTPUT"), Cmd("-F", "PREROUTING"),
                  Cmd("-X", "PREROUTING"), Cmd("-F", "PROXY"),
                  Cmd("-X", "PROXY"), Del(Nil)}
  BY <1>1, <1>4 DEF ToSet
<1>6. \A x \in Jumps : Del(x).op \in Removing
  BY DelIs
<1>7. \A c : Cmd("-F", c).op \in Removing /\ Cmd("-X", c).op \in Removing
  <2>1. \A c : Cmd("-F", c).op = "-F" /\ Cmd("-X", c).op = "-X"
    BY CmdIs
  <2> QED
    BY <2>1 DEF Removing
<1>8. \A cmd \in ToSet(s) : cmd.op \in Removing
  BY <1>2, <1>5, <1>6, <1>7 DEF Jumps
<1>9. \A c \in Chains : Before(s, Cmd("-F", c), Cmd("-X", c))
  <2> SUFFICES ASSUME NEW c \in Chains, NEW j \in DOMAIN s,
                      s[j] = Cmd("-F", c)
               PROVE  \E k \in DOMAIN s : j < k /\ s[k] = Cmd("-X", c)
    BY DEF Before
  <2>1. \A x \in Jumps : Del(x) # Cmd("-F", c)
    BY DelIs
  <2>2. /\ s[1] # s[j] /\ s[2] # s[j] /\ s[3] # s[j] /\ s[10] # s[j]
    BY <1>1, <1>2, <2>1 DEF Jumps
  <2>3. /\ \A d : Cmd("-X", d) # Cmd("-F", c)
        /\ \A d : Cmd("-F", d) = Cmd("-F", c) => d = c
    BY CmdIs
  <2>4. s[5] # s[j] /\ s[7] # s[j] /\ s[9] # s[j]
    BY <1>1, <2>3
  <2>5. j = 4 \/ j = 6 \/ j = 8
    BY <1>4, <2>2, <2>4
  <2>6. CASE j = 4
    <3>1. Cmd("-F", "OUTPUT") = Cmd("-F", c)
      BY <1>1, <2>6
    <3> QED
      BY <1>1, <1>4, <2>3, <2>6, <3>1
  <2>7. CASE j = 6
    <3>1. Cmd("-F", "PREROUTING") = Cmd("-F", c)
      BY <1>1, <2>7
    <3> QED
      BY <1>1, <1>4, <2>3, <2>7, <3>1
  <2>8. CASE j = 8
    <3>1. Cmd("-F", "PROXY") = Cmd("-F", c)
      BY <1>1, <2>8
    <3> QED
      BY <1>1, <1>4, <2>3, <2>8, <3>1
  <2> QED
    BY <2>5, <2>6, <2>7, <2>8
<1>10. \A h \in Hooks : Before(s, Del(h), Cmd("-X", h[2]))
  <2> SUFFICES ASSUME NEW h \in Hooks, NEW j \in DOMAIN s, s[j] = Del(h)
               PROVE  \E k \in DOMAIN s : j < k /\ s[k] = Cmd("-X", h[2])
    BY DEF Before
  <2>1. \A c : Cmd("-F", c) # Del(h) /\ Cmd("-X", c) # Del(h)
    BY DelIs DEF Jumps
  <2>2. \A x \in Jumps : Del(x) = Del(h) => x = h
    BY DelIs DEF Jumps
  <2>3. h # Nil
    BY ValuesAssumption
  <2>4. /\ s[4] # s[j] /\ s[5] # s[j] /\ s[6] # s[j] /\ s[7] # s[j]
        /\ s[8] # s[j] /\ s[9] # s[j]
    BY <1>1, <2>1
  <2>5. s[10] # s[j]
    BY <1>1, <2>2, <2>3 DEF Jumps
  <2>6. j = 1 \/ j = 2 \/ j = 3
    BY <1>4, <2>4, <2>5
  <2>7. CASE j = 1
    <3>1. Del(jo) = Del(h)
      BY <1>1, <2>7
    <3> QED
      BY <1>1, <1>2, <1>3, <1>4, <2>2, <2>7, <3>1 DEF Jumps
  <2>8. CASE j = 2
    <3>1. Del(ji) = Del(h)
      BY <1>1, <2>8
    <3> QED
      BY <1>1, <1>2, <1>3, <1>4, <2>2, <2>8, <3>1 DEF Jumps
  <2>9. CASE j = 3
    <3>1. Del(jy) = Del(h)
      BY <1>1, <2>9
    <3> QED
      BY <1>1, <1>2, <1>3, <1>4, <2>2, <2>9, <3>1 DEF Jumps
  <2> QED
    BY <2>6, <2>7, <2>8, <2>9
<1>11. /\ \A c \in Chains : /\ Cmd("-F", c) \in ToSet(s)
                            /\ Cmd("-X", c) \in ToSet(s)
       /\ \A c \in {"OUTPUT", "PROXY"} : Del(OutputJump(c)) \in ToSet(s)
       /\ Del(ji) \in ToSet(s) /\ Del(Nil) \in ToSet(s)
  BY <1>5 DEF Chains, jo, jy
<1> QED
  BY <1>1, <1>8, <1>9, <1>10, <1>11 DEF s, ji, CleansInOrder

\* The commands of Apply after its Cleanup, one by one.
LEMMA BuildAt ==
  ASSUME NEW k \in Configs, NEW i \in Ifaces, k.ifaces = <<i>>
  PROVE  LET s == Build(k)
         IN  /\ s \in Seq(Commands)
             /\ Len(s) = IF k.hotspot THEN 12 ELSE 10
             /\ s[1] = Cmd("-N", "OUTPUT") /\ s[2] = Cmd("-F", "OUTPUT")
             /\ s[3] = Cmd("-N", "PREROUTING") /\ s[4] = Cmd("-F", "PREROUTING")
             /\ s[5] = Cmd("-A", <<"OUTPUT", "uid 0 RETURN">>)
             /\ s[6] = Cmd("-A", <<"OUTPUT", "RETURN">>)
             /\ s[7] = Cmd("-A", <<"OUTPUT", "REDIRECT">>)
             /\ s[8] = Cmd("-A", <<"PREROUTING", "RETURN">>)
             /\ s[9] = Cmd("-A", <<"PREROUTING", "REDIRECT">>)
             /\ s[10] = Ins(OutputJump("OUTPUT"))
             /\ k.hotspot => /\ s[11] = Ins(<<i, "PREROUTING">>)
                             /\ s[12] = Ins(Nil)
<1> DEFINE n1 == Cmd("-N", "OUTPUT")
           f1 == Cmd("-F", "OUTPUT")
           n2 == Cmd("-N", "PREROUTING")
           f2 == Cmd("-F", "PREROUTING")
           a1 == Cmd("-A", <<"OUTPUT", "uid 0 RETURN">>)
           a2 == Cmd("-A", <<"OUTPUT", "RETURN">>)
           a3 == Cmd("-A", <<"OUTPUT", "REDIRECT">>)
           b1 == Cmd("-A", <<"PREROUTING", "RETURN">>)
           b2 == Cmd("-A", <<"PREROUTING", "REDIRECT">>)
           jo == Cmd("-I", OutputJump("OUTPUT"))
           ji == Cmd("-I", <<i, "PREROUTING">>)
           z == Cmd("-I FORWARD", Nil)
<1>1. /\ n1 \in Commands /\ f1 \in Commands /\ n2 \in Commands
      /\ f2 \in Commands /\ a1 \in Commands /\ a2 \in Commands
      /\ a3 \in Commands /\ b1 \in Commands /\ b2 \in Commands
      /\ jo \in Commands /\ ji \in Commands /\ z \in Commands
  BY Typed DEF Chains, Rules
<1>2. OutputJump("OUTPUT") # Nil /\ <<i, "PREROUTING">> # Nil
  BY Typed, ValuesAssumption
<1>3. /\ jo = Ins(OutputJump("OUTPUT")) /\ ji = Ins(<<i, "PREROUTING">>)
      /\ z = Ins(Nil)
  BY <1>2 DEF Ins
<1>4. Build(k) = IF k.hotspot
                 THEN <<n1, f1, n2, f2, a1, a2, a3, b1, b2, jo, ji, z>>
                 ELSE <<n1, f1, n2, f2, a1, a2, a3, b1, b2, jo>>
  BY BuildIs DEF BuildOf, SharingOf
<1> HIDE DEF n1, f1, n2, f2, a1, a2, a3, b1, b2, jo, ji, z
<1> DEFINE s == <<n1, f1, n2, f2, a1, a2, a3, b1, b2, jo>>
           u == <<n1, f1, n2, f2, a1, a2, a3, b1, b2, jo, ji, z>>
<1>5. s \in Seq(Commands) /\ Len(s) = 10
  BY <1>1
<1>6. u \in Seq(Commands) /\ Len(u) = 12
  BY <1>1
<1>7. /\ s[1] = n1 /\ s[2] = f1 /\ s[3] = n2 /\ s[4] = f2 /\ s[5] = a1
      /\ s[6] = a2 /\ s[7] = a3 /\ s[8] = b1 /\ s[9] = b2 /\ s[10] = jo
  OBVIOUS
<1>8. /\ u[1] = n1 /\ u[2] = f1 /\ u[3] = n2 /\ u[4] = f2 /\ u[5] = a1
      /\ u[6] = a2 /\ u[7] = a3 /\ u[8] = b1 /\ u[9] = b2 /\ u[10] = jo
      /\ u[11] = ji /\ u[12] = z
  OBVIOUS
<1>9. Build(k) = IF k.hotspot THEN u ELSE s
  BY <1>4
<1> HIDE DEF s, u
<1>10. /\ n1 = Cmd("-N", "OUTPUT") /\ f1 = Cmd("-F", "OUTPUT")
       /\ n2 = Cmd("-N", "PREROUTING") /\ f2 = Cmd("-F", "PREROUTING")
       /\ a1 = Cmd("-A", <<"OUTPUT", "uid 0 RETURN">>)
       /\ a2 = Cmd("-A", <<"OUTPUT", "RETURN">>)
       /\ a3 = Cmd("-A", <<"OUTPUT", "REDIRECT">>)
       /\ b1 = Cmd("-A", <<"PREROUTING", "RETURN">>)
       /\ b2 = Cmd("-A", <<"PREROUTING", "REDIRECT">>)
  BY DEF n1, f1, n2, f2, a1, a2, a3, b1, b2
<1>11. CASE k.hotspot
  <2>1. Build(k) = u
    BY <1>9, <1>11
  <2> QED
    BY <1>3, <1>6, <1>8, <1>10, <1>11, <2>1
<1>12. CASE ~k.hotspot
  <2>1. Build(k) = s
    BY <1>9, <1>12
  <2> QED
    BY <1>3, <1>5, <1>7, <1>10, <1>12, <2>1
<1> QED
  BY <1>11, <1>12

\* Where in Apply its commands are.
LEMMA ApplyAt ==
  ASSUME NEW k \in Configs
  PROVE  LET p == Apply(k)
             n == Len(Build(k))
         IN  /\ p \in Seq(Commands) /\ Build(k) \in Seq(Commands)
             /\ n \in {10, 12} /\ Len(p) = 10 + n
             /\ n = 12 <=> k.hotspot
             /\ \A j \in 1 .. 10 : p[j] = Cleanup(k.ifaces)[j]
             /\ \A j \in 1 .. n : p[10 + j] = Build(k)[j]
             /\ Cleanup(k.ifaces) \in Seq(Commands)
             /\ Len(Cleanup(k.ifaces)) = 10
<1>1. PICK i \in Ifaces : k.ifaces = <<i>>
  BY ConfigIs
<1> DEFINE s == Cleanup(k.ifaces)
           u == Build(k)
<1>2. s \in Seq(Commands) /\ Len(s) = 10
  BY <1>1, CleanupAt
<1>3. u \in Seq(Commands) /\ Len(u) = IF k.hotspot THEN 12 ELSE 10
  BY <1>1, BuildAt
<1>4. Apply(k) = s \o u
  BY DEF Apply
<1> HIDE DEF s, u
<1>5. /\ s \o u \in Seq(Commands) /\ Len(s \o u) = Len(s) + Len(u)
      /\ \A j \in 1 .. Len(s) + Len(u) :
           (s \o u)[j] = IF j <= Len(s) THEN s[j] ELSE u[j - Len(s)]
  BY <1>2, <1>3, ConcatProperties
<1>6. Len(u) \in {10, 12} /\ (Len(u) = 12 <=> k.hotspot)
  BY <1>3
<1>7. Len(s \o u) = 10 + Len(u)
  BY <1>2, <1>5
<1>8. \A j \in 1 .. 10 : (s \o u)[j] = s[j]
  BY <1>2, <1>3, <1>5
<1>9. \A j \in 1 .. Len(u) : (s \o u)[10 + j] = u[j]
  <2> SUFFICES ASSUME NEW j \in 1 .. Len(u)
               PROVE  (s \o u)[10 + j] = u[j]
    OBVIOUS
  <2>1. 10 + j \in 1 .. Len(s) + Len(u) /\ ~(10 + j <= Len(s))
        /\ 10 + j - Len(s) = j
    BY <1>2, <1>3
  <2> QED
    BY <2>1, <1>5
<1> QED
  BY <1>2, <1>3, <1>4, <1>5, <1>6, <1>7, <1>8, <1>9 DEF s, u

\* A jump is made in Apply once, and deleted before; it is one the Cleanup of
\* the same list of interfaces deletes.
LEMMA ApplyHas ==
  ASSUME NEW k \in Configs
  PROVE  LET p == Apply(k)
         IN  /\ JumpsOnce(p)
             /\ \A x \in Jumps : Ins(x) \in ToSet(p) =>
                  /\ Del(x) \in ToSet(Cleanup(k.ifaces))
                  /\ x # OutputJump("PROXY")
                  /\ \A i \in Ifaces :
                       x = <<i, "PREROUTING">> => k.ifaces = <<i>>
             /\ \A cmd \in ToSet(Cleanup(k.ifaces)) : cmd \in ToSet(p)
<1> DEFINE p == Apply(k)
           n == Len(Build(k))
           jo == OutputJump("OUTPUT")
<1>1. PICK i \in Ifaces : k.ifaces = <<i>>
  BY ConfigIs
<1> DEFINE ji == <<i, "PREROUTING">>
           c == Cleanup(<<i>>)
<1>2. /\ p \in Seq(Commands) /\ n \in {10, 12} /\ Len(p) = 10 + n
      /\ \A j \in 1 .. 10 : p[j] = c[j]
      /\ \A j \in 1 .. n : p[10 + j] = Build(k)[j]
      /\ c \in Seq(Commands) /\ Len(c) = 10
  <2>1. /\ Apply(k) \in Seq(Commands) /\ Len(Build(k)) \in {10, 12}
        /\ Len(Apply(k)) = 10 + Len(Build(k))
        /\ \A j \in 1 .. 10 : Apply(k)[j] = Cleanup(k.ifaces)[j]
        /\ \A j \in 1 .. Len(Build(k)) : Apply(k)[10 + j] = Build(k)[j]
        /\ Cleanup(k.ifaces) \in Seq(Commands)
        /\ Len(Cleanup(k.ifaces)) = 10
    BY ApplyAt
  <2> HIDE DEF p, n, c
  <2>2. p = Apply(k) /\ n = Len(Build(k)) /\ c = Cleanup(k.ifaces)
    BY <1>1 DEF p, n, c
  <2> QED
    BY <2>1, <2>2
<1>3. /\ \A cmd \in ToSet(c) : cmd.op \in Removing
      /\ Del(jo) \in ToSet(c) /\ Del(ji) \in ToSet(c) /\ Del(Nil) \in ToSet(c)
  BY CleanupHas
<1>4. /\ Build(k)[1] = Cmd("-N", "OUTPUT") /\ Build(k)[2] = Cmd("-F", "OUTPUT")
      /\ Build(k)[3] = Cmd("-N", "PREROUTING")
      /\ Build(k)[4] = Cmd("-F", "PREROUTING")
      /\ Build(k)[5] = Cmd("-A", <<"OUTPUT", "uid 0 RETURN">>)
      /\ Build(k)[6] = Cmd("-A", <<"OUTPUT", "RETURN">>)
      /\ Build(k)[7] = Cmd("-A", <<"OUTPUT", "REDIRECT">>)
      /\ Build(k)[8] = Cmd("-A", <<"PREROUTING", "RETURN">>)
      /\ Build(k)[9] = Cmd("-A", <<"PREROUTING", "REDIRECT">>)
      /\ Build(k)[10] = Ins(jo)
      /\ n = 12 => Build(k)[11] = Ins(ji) /\ Build(k)[12] = Ins(Nil)
  <2>1. n = 12 <=> k.hotspot
    BY ApplyAt
  <2> HIDE DEF n
  <2> QED
    BY <1>1, <2>1, BuildAt
<1>5. jo \in Jumps /\ ji \in Jumps /\ Nil \in Jumps
  BY Typed DEF Jumps
<1>6. jo # ji /\ jo # Nil /\ ji # Nil /\ jo # OutputJump("PROXY")
      /\ ji # OutputJump("PROXY") /\ Nil # OutputJump("PROXY")
  <2>1. jo \in Hooks /\ ji \in Hooks /\ OutputJump("PROXY") \in Hooks
    BY Typed
  <2>2. jo[2] = "OUTPUT" /\ ji[2] = "PREROUTING" /\ OutputJump("PROXY")[2] = "PROXY"
    BY DEF OutputJump
  <2> QED
    BY <2>1, <2>2, ValuesAssumption
<1>7. \A h \in Ifaces : /\ <<h, "PREROUTING">> # jo /\ <<h, "PREROUTING">> # Nil
                        /\ <<h, "PREROUTING">> = ji => h = i
  <2> SUFFICES ASSUME NEW h \in Ifaces
               PROVE  /\ <<h, "PREROUTING">> # jo /\ <<h, "PREROUTING">> # Nil
                      /\ <<h, "PREROUTING">> = ji => h = i
    OBVIOUS
  <2>1. <<h, "PREROUTING">> \in Hooks
    BY Typed
  <2>2. jo[2] = "OUTPUT" /\ <<h, "PREROUTING">>[2] = "PREROUTING"
    BY DEF OutputJump
  <2> QED
    BY <2>1, <2>2, ValuesAssumption
<1> HIDE DEF jo, ji, p, n, c
<1>8. /\ p[20] = Ins(jo)
      /\ n = 12 => p[21] = Ins(ji) /\ p[22] = Ins(Nil)
  <2>1. 10 \in 1 .. n /\ 10 + 10 = 20
    BY <1>2
  <2>2. n = 12 => 11 \in 1 .. n /\ 12 \in 1 .. n /\ 10 + 11 = 21 /\ 10 + 12 = 22
    OBVIOUS
  <2>3. \A j \in 1 .. n : p[10 + j] = Build(k)[j]
    BY <1>2
  <2>4. p[10 + 10] = Build(k)[10] /\ Build(k)[10] = Ins(jo)
    BY <1>4, <2>1, <2>3
  <2>5. ASSUME n = 12
        PROVE  p[21] = Ins(ji) /\ p[22] = Ins(Nil)
    <3>1. Build(k)[11] = Ins(ji) /\ Build(k)[12] = Ins(Nil)
      BY <1>4, <2>5
    <3>2. p[10 + 11] = Build(k)[11] /\ p[10 + 12] = Build(k)[12]
      BY <2>2, <2>3, <2>5
    <3> QED
      BY <2>2, <2>5, <3>1, <3>2
  <2> QED
    BY <2>1, <2>4, <2>5
\* A jump is made nowhere else.
<1>9. ASSUME NEW x \in Jumps, NEW j \in 1 .. Len(p), p[j] = Ins(x)
      PROVE  \/ j = 20 /\ x = jo
             \/ n = 12 /\ j = 21 /\ x = ji
             \/ n = 12 /\ j = 22 /\ x = Nil
  <2>1. \A o \in {"-F", "-N", "-A"} : \A z : Ins(x) # Cmd(o, z)
    BY DelIs
  <2>2. ~(j \in 1 .. 10)
    <3>1. Ins(x).op \notin Removing
      BY DelIs
    <3>2. DOMAIN c = 1 .. 10
      BY <1>2
    <3>3. j \in 1 .. 10 => c[j] \in ToSet(c)
      BY <3>2 DEF ToSet
    <3> QED
      BY <1>2, <1>3, <1>9, <3>1, <3>3
  <2>3. j - 10 \in 1 .. n /\ p[j] = Build(k)[j - 10]
    <3>1. j - 10 \in 1 .. n /\ 10 + (j - 10) = j
      <4>1. Len(p) = 10 + n /\ n \in {10, 12}
        BY <1>2
      <4> QED
        BY <2>2, <4>1
    <3>2. \A d \in 1 .. n : p[10 + d] = Build(k)[d]
      BY <1>2
    <3>3. p[10 + (j - 10)] = Build(k)[j - 10]
      BY <3>1, <3>2, Zenon
    <3> QED
      BY <3>1, <3>3
  <2>4. j - 10 \notin 1 .. 9
    <3>1. ASSUME NEW d \in 1 .. 9 PROVE Build(k)[d] # Ins(x)
      <4>1. \/ d = 1 \/ d = 2 \/ d = 3 \/ d = 4 \/ d = 5 \/ d = 6 \/ d = 7
            \/ d = 8 \/ d = 9
        OBVIOUS
      <4> QED
        BY <1>4, <2>1, <4>1
    <3> QED
      BY <1>9, <2>3, <3>1
  <2>5. j = 20 \/ (n = 12 /\ (j = 21 \/ j = 22))
    BY <1>2, <2>3, <2>4
  <2>6. /\ Ins(x) = Ins(jo) => x = jo
        /\ Ins(x) = Ins(ji) => x = ji
        /\ Ins(x) = Ins(Nil) => x = Nil
    BY <1>5, DelIs
  <2> QED
    BY <1>8, <1>9, <2>5, <2>6
<1>10. ASSUME NEW x \in Jumps, NEW j \in 1 .. Len(p), p[j] = Del(x)
       PROVE  j \in 1 .. 10
  <2>1. \A o \in {"-F", "-N", "-A"} : \A z : Del(x) # Cmd(o, z)
    BY DelIs
  <2>2. Del(x) # Ins(jo) /\ Del(x) # Ins(ji) /\ Del(x) # Ins(Nil)
    BY <1>5, DelIs
  <2>3. SUFFICES ASSUME j \notin 1 .. 10 PROVE FALSE
    OBVIOUS
  <2>4. j - 10 \in 1 .. n /\ p[j] = Build(k)[j - 10]
    <3>1. j - 10 \in 1 .. n /\ 10 + (j - 10) = j
      <4>1. Len(p) = 10 + n /\ n \in {10, 12}
        BY <1>2
      <4> QED
        BY <2>3, <4>1
    <3>2. \A d \in 1 .. n : p[10 + d] = Build(k)[d]
      BY <1>2
    <3>3. p[10 + (j - 10)] = Build(k)[j - 10]
      BY <3>1, <3>2, Zenon
    <3> QED
      BY <3>1, <3>3
  <2>5. ASSUME NEW d \in 1 .. 10 PROVE Build(k)[d] # Del(x)
    <3>1. \/ d = 1 \/ d = 2 \/ d = 3 \/ d = 4 \/ d = 5 \/ d = 6 \/ d = 7
          \/ d = 8 \/ d = 9 \/ d = 10
      OBVIOUS
    <3> QED
      BY <1>4, <2>1, <2>2, <3>1
  <2>6. j - 10 \notin 1 .. 10
    BY <1>10, <2>4, <2>5
  <2>7. n = 12 /\ (j = 21 \/ j = 22)
    BY <1>2, <2>4, <2>6
  <2> QED
    BY <1>8, <1>10, <2>2, <2>7
<1>11. DOMAIN p = 1 .. Len(p)
  BY <1>2
<1>12. JumpsOnce(p)
  <2> SUFFICES ASSUME NEW x \in Jumps
               PROVE  /\ NeverAfter(p, Ins(x), Del(x))
                      /\ NeverAfter(p, Ins(x), Ins(x))
    BY DEF JumpsOnce
  <2>1. ASSUME NEW j \in 1 .. Len(p), NEW d \in 1 .. Len(p), j < d,
               p[j] = Ins(x)
        PROVE  p[d] # Del(x)
    <3>1. j \in {20, 21, 22}
      BY <1>9, <2>1
    <3> QED
      BY <1>10, <2>1, <3>1
  <2>2. ASSUME NEW j \in 1 .. Len(p), NEW d \in 1 .. Len(p), j < d,
               p[j] = Ins(x), p[d] = Ins(x)
        PROVE  FALSE
    <3>1. \/ j = 20 /\ x = jo
          \/ n = 12 /\ j = 21 /\ x = ji
          \/ n = 12 /\ j = 22 /\ x = Nil
      BY <1>9, <2>2
    <3>2. \/ d = 20 /\ x = jo
          \/ n = 12 /\ d = 21 /\ x = ji
          \/ n = 12 /\ d = 22 /\ x = Nil
      BY <1>9, <2>2
    <3> QED
      BY <1>6, <2>2, <3>1, <3>2
  <2> QED
    BY <1>11, <2>1, <2>2 DEF NeverAfter
<1>13. ASSUME NEW x \in Jumps, Ins(x) \in ToSet(p)
       PROVE  /\ Del(x) \in ToSet(c)
              /\ x # OutputJump("PROXY")
              /\ \A h \in Ifaces : x = <<h, "PREROUTING">> => k.ifaces = <<h>>
  <2>1. PICK j \in 1 .. Len(p) : p[j] = Ins(x)
    BY <1>11, <1>13 DEF ToSet
  <2>2. x = jo \/ x = ji \/ x = Nil
    BY <1>9, <2>1
  <2> QED
    BY <1>1, <1>3, <1>6, <1>7, <2>2
<1>14. ASSUME NEW cmd \in ToSet(c) PROVE cmd \in ToSet(p)
  <2> DOMAIN c = 1 .. 10
    BY <1>2
  <2>1. PICK j \in 1 .. 10 : c[j] = cmd
    BY <1>14, Zenon DEF ToSet
  <2>2. j \in DOMAIN p /\ p[j] = cmd
    <3>1. Len(p) = 10 + n /\ n \in {10, 12}
      BY <1>2
    <3>2. j \in 1 .. Len(p)
      BY <3>1
    <3>3. \A d \in 1 .. 10 : p[d] = c[d]
      BY <1>2
    <3> QED
      BY <1>11, <2>1, <3>2, <3>3, Zenon
  <2> QED
    BY <2>2 DEF ToSet
<1> QED
  BY <1>1, <1>12, <1>13, <1>14 DEF p, c

\* A Cleanup makes no jump.
LEMMA CleanupOnce ==
  ASSUME NEW i \in Ifaces
  PROVE  JumpsOnce(Cleanup(<<i>>))
<1> DEFINE s == Cleanup(<<i>>)
<1>1. s \in Seq(Commands) /\ \A cmd \in ToSet(s) : cmd.op \in Removing
  BY CleanupHas
<1> HIDE DEF s
<1>2. \A x \in Jumps : Ins(x) \notin ToSet(s)
  BY <1>1, DelIs
<1>3. \A x \in Jumps : \A y : NeverAfter(s, Ins(x), y)
  BY <1>2 DEF NeverAfter, ToSet
<1> QED
  BY <1>3 DEF JumpsOnce, s

(***************************************************************************)
(* What a command does.                                                    *)
(***************************************************************************)
LEMMA CommandIs ==
  \A cmd \in Commands :
         \/ \E x \in Jumps : cmd = Del(x) \/ cmd = Ins(x)
         \/ \E c \in Chains : \/ cmd = Cmd("-F", c) \/ cmd = Cmd("-X", c)
                              \/ cmd = Cmd("-N", c)
         \/ \E c \in Chains, r \in Rules : cmd = Cmd("-A", <<c, r>>)
<1> DEFINE Jump == {Cmd(op, h) : op \in {"-D", "-I"}, h \in Hooks}
           Whole == {Cmd(op, c) : op \in {"-F", "-X", "-N"}, c \in Chains}
           Add == {Cmd("-A", a) : a \in Chains \X Rules}
           Accept == {Cmd(op, Nil) : op \in {"-D FORWARD", "-I FORWARD"}}
<1>1. Commands = Jump \cup Whole \cup Add \cup Accept
  BY DEF Commands
<1> SUFFICES ASSUME NEW cmd \in Commands
             PROVE  \/ \E x \in Jumps : cmd = Del(x) \/ cmd = Ins(x)
                    \/ \E c \in Chains : \/ cmd = Cmd("-F", c)
                                         \/ cmd = Cmd("-X", c)
                                         \/ cmd = Cmd("-N", c)
                    \/ \E c \in Chains, r \in Rules : cmd = Cmd("-A", <<c, r>>)
  OBVIOUS
<1>2. ASSUME cmd \in Jump PROVE \E x \in Jumps : cmd = Del(x) \/ cmd = Ins(x)
  <2>1. PICK op \in {"-D", "-I"}, h \in Hooks : cmd = Cmd(op, h)
    BY <1>2
  <2>2. h # Nil /\ h \in Jumps
    BY ValuesAssumption DEF Jumps
  <2> QED
    BY <2>1, <2>2 DEF Del, Ins
<1>3. ASSUME cmd \in Whole
      PROVE  \E c \in Chains : \/ cmd = Cmd("-F", c) \/ cmd = Cmd("-X", c)
                               \/ cmd = Cmd("-N", c)
  BY <1>3
<1>4. ASSUME cmd \in Add
      PROVE  \E c \in Chains, r \in Rules : cmd = Cmd("-A", <<c, r>>)
  <2>1. PICK a \in Chains \X Rules : cmd = Cmd("-A", a)
    BY <1>4
  <2>2. a = <<a[1], a[2]>> /\ a[1] \in Chains /\ a[2] \in Rules
    BY PairIs
  <2> QED
    BY <2>1, <2>2
<1>5. ASSUME cmd \in Accept
      PROVE  \E x \in Jumps : cmd = Del(x) \/ cmd = Ins(x)
  <2>1. cmd = Del(Nil) \/ cmd = Ins(Nil)
    BY <1>5 DEF Del, Ins
  <2> QED
    BY <2>1 DEF Jumps
<1> HIDE DEF Jump, Whole, Add, Accept
<1> QED
  BY <1>1, <1>2, <1>3, <1>4, <1>5

\* The number of jumps is a natural number.
LEMMA Counts ==
  ASSUME TypeOK
  PROVE  \A x \in Jumps : Count(x) \in Nat
BY ValuesAssumption DEF TypeOK, Jumps, Count

\* What the deletion of a jump does.
LEMMA DelRuns ==
  ASSUME TypeOK, NEW x \in Jumps
  PROVE  /\ Refused(Del(x)) <=> Count(x) = 0
         /\ Effect(Del(x)) =>
              /\ chain' = chain
              /\ \A y \in Jumps :
                   Count(y)' = IF y = x THEN Count(y) - 1 ELSE Count(y)
         /\ Effect(Del(x)) /\ Count(x) # 0 =>
              hooks' \in [Hooks -> Nat] /\ forward' \in Nat
<1>1. CASE x = Nil
  <2> DEFINE cmd == Del(x)
  <2>1. cmd.op = "-D FORWARD"
    BY <1>1 DEF Del, Cmd
  <2>2. Refused(cmd) <=> forward = 0
    BY <2>1 DEF Refused
  <2>3. Effect(cmd) => forward' = forward - 1 /\ chain' = chain /\ hooks' = hooks
    BY <2>1 DEF Effect
  <2> HIDE DEF cmd
  <2> QED
    BY <1>1, <2>2, <2>3 DEF cmd, Count, TypeOK, Jumps
<1>2. CASE x # Nil
  <2> DEFINE cmd == Del(x)
  <2>1. cmd.op = "-D" /\ cmd.arg = x /\ x \in Hooks
    BY <1>2 DEF Del, Cmd, Jumps
  <2>2. Refused(cmd) <=> hooks[x] = 0
    BY <2>1 DEF Refused
  <2>3. Effect(cmd) => /\ hooks' = [hooks EXCEPT ![x] = @ - 1]
                       /\ chain' = chain /\ forward' = forward
    BY <2>1 DEF Effect
  <2> HIDE DEF cmd
  <2>4. Effect(cmd) => \A y \in Jumps :
                   Count(y)' = IF y = x THEN Count(y) - 1 ELSE Count(y)
    BY <1>2, <2>1, <2>3 DEF Count, TypeOK, Jumps
  <2>5. hooks \in [Hooks -> Nat] /\ forward \in Nat
    BY DEF TypeOK
  <2>6. Effect(cmd) /\ Count(x) # 0
        => hooks' \in [Hooks -> Nat] /\ forward' \in Nat
    BY <1>2, <2>1, <2>3, <2>5 DEF Count
  <2> QED
    BY <1>2, <2>2, <2>3, <2>4, <2>6 DEF cmd, Count
<1> QED
  BY <1>1, <1>2

\* What the making of a jump does.
LEMMA InsRuns ==
  ASSUME TypeOK, NEW x \in Jumps
  PROVE  /\ Refused(Ins(x)) <=> x # Nil /\ chain[x[2]] = Absent
         /\ Effect(Ins(x)) =>
              /\ chain' = chain
              /\ \A y \in Jumps :
                   Count(y)' = IF y = x THEN Count(y) + 1 ELSE Count(y)
              /\ hooks' \in [Hooks -> Nat] /\ forward' \in Nat
<1>1. CASE x = Nil
  <2> DEFINE cmd == Ins(x)
  <2>1. cmd.op = "-I FORWARD"
    BY <1>1 DEF Ins, Cmd
  <2>2. ~Refused(cmd)
    BY <2>1 DEF Refused
  <2>3. Effect(cmd) => forward' = forward + 1 /\ chain' = chain /\ hooks' = hooks
    BY <2>1 DEF Effect
  <2> HIDE DEF cmd
  <2> QED
    BY <1>1, <2>2, <2>3 DEF cmd, Count, TypeOK, Jumps
<1>2. CASE x # Nil
  <2> DEFINE cmd == Ins(x)
  <2>1. cmd.op = "-I" /\ cmd.arg = x /\ x \in Hooks
    BY <1>2 DEF Ins, Cmd, Jumps
  <2>2. Refused(cmd) <=> chain[x[2]] = Absent
    BY <2>1 DEF Refused
  <2>3. Effect(cmd) => /\ hooks' = [hooks EXCEPT ![x] = @ + 1]
                       /\ chain' = chain /\ forward' = forward
    BY <2>1 DEF Effect
  <2> HIDE DEF cmd
  <2>4. Effect(cmd) => \A y \in Jumps :
                   Count(y)' = IF y = x THEN Count(y) + 1 ELSE Count(y)
    BY <1>2, <2>1, <2>3 DEF Count, TypeOK, Jumps
  <2>5. hooks \in [Hooks -> Nat] /\ forward \in Nat
    BY DEF TypeOK
  <2>6. Effect(cmd) => hooks' \in [Hooks -> Nat] /\ forward' \in Nat
    BY <2>1, <2>3, <2>5
  <2> QED
    BY <1>2, <2>2, <2>3, <2>4, <2>6 DEF cmd
<1> QED
  BY <1>1, <1>2

\* The commands about chains leave the jumps alone.
LEMMA ChainRuns ==
  ASSUME TypeOK, NEW c \in Chains
  PROVE  /\ Refused(Cmd("-F", c)) <=> chain[c] = Absent
         /\ Refused(Cmd("-N", c)) <=> chain[c] # Absent
         /\ Refused(Cmd("-X", c)) <=> chain[c] # <<>> \/ Referenced(c)
         /\ \A o \in {"-F", "-N", "-X"} : Effect(Cmd(o, c)) =>
              /\ chain' = [chain EXCEPT ![c] = IF o = "-X" THEN Absent ELSE <<>>]
              /\ hooks' = hooks /\ forward' = forward
<1>1. ASSUME NEW o \in {"-F", "-N", "-X"}
      PROVE  Cmd(o, c).op = o /\ Cmd(o, c).arg = c
  BY CmdIs
<1>2. Refused(Cmd("-F", c)) <=> chain[c] = Absent
  BY <1>1 DEF Refused
<1>3. Refused(Cmd("-N", c)) <=> chain[c] # Absent
  BY <1>1 DEF Refused
<1>4. Refused(Cmd("-X", c)) <=> chain[c] # <<>> \/ Referenced(c)
  BY <1>1 DEF Refused
<1>5. ASSUME NEW o \in {"-F", "-N", "-X"}, Effect(Cmd(o, c))
      PROVE  /\ chain' = [chain EXCEPT ![c] = IF o = "-X" THEN Absent ELSE <<>>]
             /\ hooks' = hooks /\ forward' = forward
  <2> DEFINE cmd == Cmd(o, c)
  <2>1. cmd.op = o /\ cmd.arg = c
    BY <1>1
  <2>2. Effect(cmd)
    BY <1>5
  <2> HIDE DEF cmd
  <2>3. CASE o = "-X"
    BY <2>1, <2>2, <2>3 DEF Effect
  <2>4. CASE o # "-X"
    BY <2>1, <2>2, <2>4 DEF Effect
  <2> QED
    BY <2>3, <2>4
<1> QED
  BY <1>2, <1>3, <1>4, <1>5

\* What the append of a rule does.
LEMMA AddRuns ==
  ASSUME TypeOK, NEW c \in Chains, NEW r \in Rules
  PROVE  /\ Refused(Cmd("-A", <<c, r>>)) <=> chain[c] = Absent
         /\ Effect(Cmd("-A", <<c, r>>)) =>
              /\ chain' = [chain EXCEPT ![c] = Append(chain[c], r)]
              /\ hooks' = hooks /\ forward' = forward
<1> DEFINE cmd == Cmd("-A", <<c, r>>)
<1>1. cmd.op = "-A" /\ cmd.arg = <<c, r>>
  BY CmdIs
<1>2. cmd.arg[1] = c /\ cmd.arg[2] = r
  BY <1>1
<1> HIDE DEF cmd
<1>3. Refused(cmd) <=> chain[c] = Absent
  BY <1>1, <1>2 DEF Refused
<1>4. Effect(cmd) => /\ chain' = [chain EXCEPT ![c] = Append(chain[c], r)]
                     /\ hooks' = hooks /\ forward' = forward
  BY <1>1, <1>2 DEF Effect
<1> QED
  BY <1>3, <1>4 DEF cmd

\* One step of a program: the command is done, refused or fails.
LEMMA RunIs ==
  ASSUME TypeOK, NEW a \in Actors, Run(a)
  PROVE  LET cmd == Head(todo[a])
         IN  /\ todo[a] # <<>> /\ todo[a] \in Seq(Commands)
             /\ cmd \in Commands /\ Ahead(a, cmd)
             /\ todo' = [todo EXCEPT ![a] = Tail(todo[a])]
             /\ touched' = touched
                  \cup {t \in Tunnels \ {a} : phase[t] \in Installing}
             /\ \/ /\ ~Refused(cmd) /\ Effect(cmd)
                   /\ fatal' = fatal /\ faults' = faults
                \/ /\ Refused(cmd) /\ fatal' \in Heard(a, cmd, FALSE)
                   /\ tableVars' = tableVars /\ faults' = faults
                \/ /\ faults < MaxFaults /\ faults' = faults + 1
                   /\ fatal' \in Heard(a, cmd, TRUE) /\ tableVars' = tableVars
             /\ port' = port /\ phase' = phase /\ cfg' = cfg
             /\ owed' = owed /\ kills' = kills
<1>1. todo[a] # <<>> /\ todo[a] \in Seq(Commands)
  BY DEF Run, TypeOK
<1>2. Head(todo[a]) \in Commands /\ Ahead(a, Head(todo[a]))
  BY <1>1, TailKeeps DEF Ahead
<1>3. todo' = [todo EXCEPT ![a] = Tail(todo[a])]
  BY DEF Run
<1>4. touched' = touched \cup {t \in Tunnels \ {a} : phase[t] \in Installing}
  BY DEF Run
<1>5. LET cmd == Head(todo[a])
      IN  \/ /\ ~Refused(cmd) /\ Effect(cmd)
             /\ fatal' = fatal /\ faults' = faults
          \/ /\ Refused(cmd) /\ fatal' \in Heard(a, cmd, FALSE)
             /\ tableVars' = tableVars /\ faults' = faults
          \/ /\ faults < MaxFaults /\ faults' = faults + 1
             /\ fatal' \in Heard(a, cmd, TRUE) /\ tableVars' = tableVars
  BY Zenon DEF Run
<1>6. /\ port' = port /\ phase' = phase /\ cfg' = cfg
      /\ owed' = owed /\ kills' = kills
  BY DEF Run
<1> QED
  BY <1>1, <1>2, <1>3, <1>4, <1>5, <1>6

\* What a command leaves of the table, whatever comes of it.
LEMMA RunTable ==
  ASSUME TypeOK, NEW cmd \in Commands, ~Refused(cmd), Effect(cmd)
  PROVE  /\ chain' \in [Chains -> {Absent} \cup Seq(Rules)]
         /\ hooks' \in [Hooks -> Nat] /\ forward' \in Nat
<1>1. ASSUME NEW x \in Jumps, cmd = Del(x) \/ cmd = Ins(x)
      PROVE  /\ chain' = chain
             /\ hooks' \in [Hooks -> Nat] /\ forward' \in Nat
  BY <1>1, DelRuns, InsRuns
<1>2. ASSUME NEW c \in Chains,
             cmd = Cmd("-F", c) \/ cmd = Cmd("-X", c) \/ cmd = Cmd("-N", c)
      PROVE  /\ chain' \in [Chains -> {Absent} \cup Seq(Rules)]
             /\ hooks' = hooks /\ forward' = forward
  <2>1. PICK o \in {"-F", "-N", "-X"} : cmd = Cmd(o, c)
    BY <1>2
  <2>2. /\ chain' = [chain EXCEPT ![c] = IF o = "-X" THEN Absent ELSE <<>>]
        /\ hooks' = hooks /\ forward' = forward
    BY <2>1, ChainRuns
  <2>3. <<>> \in Seq(Rules)
    OBVIOUS
  <2> QED
    BY <2>2, <2>3 DEF TypeOK
<1>3. ASSUME NEW c \in Chains, NEW r \in Rules, cmd = Cmd("-A", <<c, r>>)
      PROVE  /\ chain' \in [Chains -> {Absent} \cup Seq(Rules)]
             /\ hooks' = hooks /\ forward' = forward
  <2>1. chain[c] # Absent
    BY <1>3, AddRuns
  <2>2. chain[c] \in Seq(Rules)
    BY <2>1 DEF TypeOK
  <2>3. Append(chain[c], r) \in Seq(Rules)
    BY <2>2
  <2>4. /\ chain' = [chain EXCEPT ![c] = Append(chain[c], r)]
        /\ hooks' = hooks /\ forward' = forward
    BY <1>3, AddRuns
  <2> QED
    BY <2>3, <2>4 DEF TypeOK
<1> QED
  BY <1>1, <1>2, <1>3, CommandIs DEF TypeOK

(***************************************************************************)
(* The steps and the types.                                                *)
(***************************************************************************)
LEMMA Programs ==
  /\ \A k \in Configs :
       /\ k.ifaces \in {<<"wlan">>, <<"own">>} /\ k # Nil
       /\ Cleanup(k.ifaces) \in Seq(Commands)
       /\ \A cmd \in ToSet(Cleanup(k.ifaces)) : cmd.op \in Removing
       /\ CleansInOrder(Cleanup(k.ifaces)) /\ JumpsOnce(Cleanup(k.ifaces))
       /\ Apply(k) \in Seq(Commands) /\ JumpsOnce(Apply(k))
  /\ Cleanup(Default) \in Seq(Commands)
  /\ \A cmd \in ToSet(Cleanup(Default)) : cmd.op \in Removing
  /\ CleansInOrder(Cleanup(Default)) /\ JumpsOnce(Cleanup(Default))
<1>1. ASSUME NEW i \in Ifaces
      PROVE  /\ Cleanup(<<i>>) \in Seq(Commands)
             /\ \A cmd \in ToSet(Cleanup(<<i>>)) : cmd.op \in Removing
             /\ CleansInOrder(Cleanup(<<i>>)) /\ JumpsOnce(Cleanup(<<i>>))
  BY CleanupHas, CleanupOnce
<1>2. ASSUME NEW k \in Configs
      PROVE  /\ k.ifaces \in {<<"wlan">>, <<"own">>} /\ k # Nil
             /\ Cleanup(k.ifaces) \in Seq(Commands)
             /\ \A cmd \in ToSet(Cleanup(k.ifaces)) : cmd.op \in Removing
             /\ CleansInOrder(Cleanup(k.ifaces))
             /\ JumpsOnce(Cleanup(k.ifaces))
             /\ Apply(k) \in Seq(Commands) /\ JumpsOnce(Apply(k))
  <2>1. PICK i \in Ifaces : k.ifaces = <<i>>
    BY ConfigIs
  <2>2. k.ifaces \in {<<"wlan">>, <<"own">>} /\ k # Nil
    BY ConfigsAssumption, ActorsAssumption
  <2>3. Apply(k) \in Seq(Commands) /\ JumpsOnce(Apply(k))
    BY ApplyAt, ApplyHas
  <2> QED
    BY <1>1, <2>1, <2>2, <2>3
<1>3. Default = <<"wlan">> /\ "wlan" \in Ifaces
  BY DEF Default, Ifaces
<1> QED
  BY <1>1, <1>2, <1>3

\* The empty program.
LEMMA EmptyIs ==
  <<>> \in Seq(Commands) /\ Len(<<>>) = 0
OBVIOUS

\* What a command can change of the tunnels that are told off and of the
\* number of failures.
LEMMA RunChanges ==
  ASSUME NEW a \in Actors, Run(a)
  PROVE  /\ \/ fatal' = fatal
            \/ fatal' = fatal \cup {a} /\ InApply(a)
         /\ faults' = faults \/ (faults < MaxFaults /\ faults' = faults + 1)
         /\ tableVars' = tableVars \/ faults' = faults
<1> DEFINE cmd == Head(todo[a])
<1>1. \/ /\ fatal' = fatal /\ faults' = faults
      \/ /\ fatal' \in Heard(a, cmd, FALSE)
         /\ tableVars' = tableVars /\ faults' = faults
      \/ /\ faults < MaxFaults /\ faults' = faults + 1
         /\ fatal' \in Heard(a, cmd, TRUE) /\ tableVars' = tableVars
  BY Zenon DEF Run
<1>2. ASSUME NEW own, NEW f \in Heard(a, cmd, own)
      PROVE  f = fatal \/ (f = fatal \cup {a} /\ InApply(a))
  BY <1>2 DEF Heard
<1> QED
  BY <1>1, <1>2, Zenon

\* Every step keeps the types.
LEMMA TypeStep ==
  ASSUME TypeOK, ProgramInv, [Next]_vars
  PROVE  TypeOK'
<1> USE DEF TypeOK
<1>1. Script \in Actors /\ Tunnels \subseteq Actors
  BY DEF Actors
<1>2. \A t \in Tunnels : phase[t] \in Installing => cfg[t] \in Configs
  BY DEF ProgramInv
<1>3. ASSUME NEW t \in Tunnels, NEW k \in Configs, Listen(t, k) PROVE TypeOK'
  <2>1. Cleanup(k.ifaces) \in Seq(Commands)
    BY Programs
  <2>2. phase' \in [Actors -> {"off", "clean", "apply", "on", "stop"}]
    BY <1>1, <1>3 DEF Listen, Goto
  <2>3. todo' \in [Actors -> Seq(Commands)]
    BY <1>1, <1>3, <2>1 DEF Listen, Goto
  <2>4. port' \in Tunnels \cup {Nil} /\ cfg' \in [Tunnels -> Configs \cup {Nil}]
    BY <1>3 DEF Listen
  <2> QED
    BY <1>3, <2>2, <2>3, <2>4 DEF Listen, tableVars
<1>4. ASSUME NEW t \in Tunnels, StartApply(t) PROVE TypeOK'
  <2>1. Apply(cfg[t]) \in Seq(Commands)
    BY <1>2, <1>4, Programs DEF StartApply, Installing
  <2>2. phase' \in [Actors -> {"off", "clean", "apply", "on", "stop"}]
    BY <1>1, <1>4 DEF StartApply, Goto
  <2>3. todo' \in [Actors -> Seq(Commands)]
    BY <1>1, <1>4, <2>1 DEF StartApply, Goto
  <2> QED
    BY <1>4, <2>2, <2>3 DEF StartApply, tableVars
<1>5. ASSUME NEW t \in Tunnels, Applied(t) PROVE TypeOK'
  <2>2. phase' \in [Actors -> {"off", "clean", "apply", "on", "stop"}]
    BY <1>1, <1>5 DEF Applied, Goto
  <2>3. todo' \in [Actors -> Seq(Commands)]
    BY <1>1, <1>5, EmptyIs DEF Applied, Goto
  <2> QED
    BY <1>5, <2>2, <2>3 DEF Applied, tableVars
<1>6. ASSUME NEW t \in Tunnels, Stop(t) PROVE TypeOK'
  <2>1. Cleanup(cfg[t].ifaces) \in Seq(Commands)
    BY <1>2, <1>6, Programs DEF Stop, Installing
  <2>2. phase' \in [Actors -> {"off", "clean", "apply", "on", "stop"}]
    BY <1>1, <1>6 DEF Stop, Goto
  <2>3. todo' \in [Actors -> Seq(Commands)]
    BY <1>1, <1>6, <2>1 DEF Stop, Goto
  <2>4. port' \in Tunnels \cup {Nil} /\ cfg' \in [Tunnels -> Configs \cup {Nil}]
    BY <1>6 DEF Stop
  <2>5. fatal' \subseteq Tunnels /\ touched' \subseteq Tunnels
    BY <1>6 DEF Stop
  <2> QED
    BY <1>6, <2>2, <2>3, <2>4, <2>5 DEF Stop, tableVars
<1>7. ASSUME NEW a \in Actors, Run(a) PROVE TypeOK'
  <2> DEFINE cmd == Head(todo[a])
  <2>1. /\ todo[a] # <<>> /\ todo[a] \in Seq(Commands) /\ cmd \in Commands
        /\ todo' = [todo EXCEPT ![a] = Tail(todo[a])]
        /\ touched' = touched
             \cup {t \in Tunnels \ {a} : phase[t] \in Installing}
        /\ \/ /\ ~Refused(cmd) /\ Effect(cmd)
              /\ fatal' = fatal /\ faults' = faults
           \/ /\ Refused(cmd) /\ fatal' \in Heard(a, cmd, FALSE)
              /\ tableVars' = tableVars /\ faults' = faults
           \/ /\ faults < MaxFaults /\ faults' = faults + 1
              /\ fatal' \in Heard(a, cmd, TRUE) /\ tableVars' = tableVars
        /\ port' = port /\ phase' = phase /\ cfg' = cfg
        /\ owed' = owed /\ kills' = kills
    BY <1>7, RunIs
  <2> HIDE DEF cmd
  <2>2. todo' \in [Actors -> Seq(Commands)]
    <3>1. Tail(todo[a]) \in Seq(Commands)
      BY <2>1, TailKeeps
    <3> QED
      BY <2>1, <3>1
  <2>3. touched' \subseteq Tunnels
    BY <2>1
  <2>4. fatal' \subseteq Tunnels
    <3>1. \/ fatal' = fatal \/ (fatal' = fatal \cup {a} /\ InApply(a))
      BY <1>7, RunChanges
    <3> QED
      BY <3>1 DEF InApply
  <2>5. faults' \in 0 .. MaxFaults
    <3>1. faults' = faults \/ (faults < MaxFaults /\ faults' = faults + 1)
      BY <1>7, RunChanges, Zenon
    <3>2. faults \in 0 .. MaxFaults /\ MaxFaults \in Nat
      BY BoundsAssumption
    <3> QED
      BY <3>1, <3>2
  <2>6. /\ chain' \in [Chains -> {Absent} \cup Seq(Rules)]
        /\ hooks' \in [Hooks -> Nat] /\ forward' \in Nat
    <3>1. CASE tableVars' = tableVars
      BY <3>1 DEF tableVars
    <3>2. CASE ~Refused(cmd) /\ Effect(cmd)
      BY <2>1, <3>2, RunTable
    <3> QED
      BY <2>1, <3>1, <3>2
  <2> QED
    BY <2>1, <2>2, <2>3, <2>4, <2>5, <2>6
<1>8. ASSUME NEW a \in Actors, Cleaned(a) PROVE TypeOK'
  <2>2. phase' \in [Actors -> {"off", "clean", "apply", "on", "stop"}]
    BY <1>8 DEF Cleaned, Goto
  <2>3. todo' \in [Actors -> Seq(Commands)]
    BY <1>8, EmptyIs DEF Cleaned, Goto
  <2>4. owed' \in 0 .. 2
    BY <1>8 DEF Cleaned
  <2> QED
    BY <1>8, <2>2, <2>3, <2>4 DEF Cleaned, tableVars
<1>9. ASSUME NetClean PROVE TypeOK'
  <2>2. phase' \in [Actors -> {"off", "clean", "apply", "on", "stop"}]
    BY <1>1, <1>9 DEF NetClean, Goto
  <2>3. todo' \in [Actors -> Seq(Commands)]
    BY <1>1, <1>9, Programs DEF NetClean, Goto
  <2> QED
    BY <1>9, <2>2, <2>3 DEF NetClean, tableVars
<1>10. ASSUME Kill PROVE TypeOK'
  <2>2. phase' \in [Actors -> {"off", "clean", "apply", "on", "stop"}]
    BY <1>10 DEF Kill
  <2>3. todo' \in [Actors -> Seq(Commands)]
    BY <1>10, EmptyIs DEF Kill
  <2>4. owed' \in 0 .. 2 /\ kills' \in 0 .. MaxKills
    BY <1>10, BoundsAssumption DEF Kill
  <2>5. cfg' \in [Tunnels -> Configs \cup {Nil}]
    BY <1>10 DEF Kill
  <2> QED
    BY <1>10, <2>2, <2>3, <2>4, <2>5 DEF Kill, tableVars
<1>11. CASE UNCHANGED vars
  BY <1>11 DEF vars, tableVars
<1> QED
  BY <1>3, <1>4, <1>5, <1>6, <1>7, <1>8, <1>9, <1>10, <1>11 DEF Next

\* What is left of a program when its first command has run.
LEMMA RunLeaves ==
  ASSUME TypeOK, NEW a \in Actors, Run(a)
  PROVE  /\ todo'[a] = Tail(todo[a]) /\ todo'[a] \in Seq(Commands)
         /\ Len(todo[a]) >= 1 /\ Len(todo'[a]) = Len(todo[a]) - 1
         /\ \A cmd \in ToSet(todo'[a]) : cmd \in ToSet(todo[a])
         /\ \A cmd \in ToSet(todo[a]) :
              cmd = Head(todo[a]) \/ cmd \in ToSet(todo'[a])
         /\ \A b \in Actors \ {a} : todo'[b] = todo[b]
<1>1. /\ todo[a] # <<>> /\ todo[a] \in Seq(Commands)
      /\ todo' = [todo EXCEPT ![a] = Tail(todo[a])]
  BY RunIs
<1>2. /\ todo'[a] = Tail(todo[a])
      /\ \A b \in Actors \ {a} : todo'[b] = todo[b]
  BY <1>1 DEF TypeOK
<1>3. /\ Tail(todo[a]) \in Seq(Commands)
      /\ Len(todo[a]) >= 1 /\ Len(Tail(todo[a])) = Len(todo[a]) - 1
      /\ \A x \in ToSet(Tail(todo[a])) : x \in ToSet(todo[a])
      /\ \A x \in ToSet(todo[a]) :
           x = Head(todo[a]) \/ x \in ToSet(Tail(todo[a]))
  BY <1>1, TailKeeps
<1> QED
  BY <1>2, <1>3

\* Every step keeps ProgramInv: Run leaves the rest of a program.
LEMMA ProgramStep ==
  ASSUME TypeOK, ProgramInv, [Next]_vars
  PROVE  ProgramInv'
<1> USE DEF TypeOK
<1>1. Script \in Actors /\ Tunnels \subseteq Actors /\ Script \notin Tunnels
      /\ Nil \notin Tunnels /\ \A t \in Tunnels : t # Script
  BY ActorsAssumption DEF Actors
<1>2. /\ \A t \in Tunnels : /\ port = t <=> phase[t] \in Installing
                            /\ phase[t] \in Installing => cfg[t] \in Configs
                            /\ t \in fatal => phase[t] = "apply"
      /\ phase[Script] \in {"off", "stop"}
      /\ \A a \in Actors :
           /\ phase[a] \in {"off", "on"} => todo[a] = <<>>
           /\ phase[a] # "apply" =>
                \A cmd \in ToSet(todo[a]) : cmd.op \in Removing
           /\ phase[a] = "apply" =>
                /\ Len(todo[a]) <= Len(Apply(cfg[a]))
                /\ todo[a] = Rest(Apply(cfg[a]), Len(todo[a]))
  BY DEF ProgramInv
<1>3. \A cmd \in ToSet(<<>>) : cmd.op \in Removing
  BY DEF ToSet
\* Only the actor itself is given a program.
<1>4. ASSUME NEW a \in Actors, NEW ph, NEW s \in Seq(Commands), Goto(a, ph, s)
      PROVE  /\ phase'[a] = ph /\ todo'[a] = s
             /\ \A b \in Actors \ {a} : phase'[b] = phase[b] /\ todo'[b] = todo[b]
  BY <1>4 DEF Goto
<1>5. ASSUME NEW t \in Tunnels, NEW k \in Configs, Listen(t, k)
      PROVE  ProgramInv'
  <2>1. /\ Cleanup(k.ifaces) \in Seq(Commands)
        /\ \A cmd \in ToSet(Cleanup(k.ifaces)) : cmd.op \in Removing
    BY Programs
  <2>2. /\ phase'[t] = "clean" /\ todo'[t] = Cleanup(k.ifaces)
        /\ \A b \in Actors \ {t} : phase'[b] = phase[b] /\ todo'[b] = todo[b]
    BY <1>1, <1>4, <1>5, <2>1 DEF Listen
  <2>3. /\ port' = t /\ port = Nil /\ phase[t] = "off" /\ fatal' = fatal
        /\ cfg'[t] = k /\ \A u \in Tunnels \ {t} : cfg'[u] = cfg[u]
    BY <1>5 DEF Listen
  <2>4. \A u \in Tunnels : /\ port' = u <=> phase'[u] \in Installing
                           /\ phase'[u] \in Installing => cfg'[u] \in Configs
                           /\ u \in fatal' => phase'[u] = "apply"
    BY <1>1, <1>2, <2>2, <2>3 DEF Installing
  <2>5. \A b \in Actors \ {t} : phase'[b] = "apply" => cfg'[b] = cfg[b]
    BY <1>2, <2>2, <2>3 DEF Actors
  <2>6. phase'[Script] \in {"off", "stop"}
    BY <1>1, <1>2, <2>2
  <2>7. \A a \in Actors :
           /\ phase'[a] \in {"off", "on"} => todo'[a] = <<>>
           /\ phase'[a] # "apply" =>
                \A cmd \in ToSet(todo'[a]) : cmd.op \in Removing
           /\ phase'[a] = "apply" =>
                /\ Len(todo'[a]) <= Len(Apply(cfg'[a]))
                /\ todo'[a] = Rest(Apply(cfg'[a]), Len(todo'[a]))
    <3> SUFFICES ASSUME NEW a \in Actors
                 PROVE  /\ phase'[a] \in {"off", "on"} => todo'[a] = <<>>
                        /\ phase'[a] # "apply" =>
                             \A cmd \in ToSet(todo'[a]) : cmd.op \in Removing
                        /\ phase'[a] = "apply" =>
                             /\ Len(todo'[a]) <= Len(Apply(cfg'[a]))
                             /\ todo'[a] = Rest(Apply(cfg'[a]), Len(todo'[a]))
      OBVIOUS
    <3>1. CASE a = t
      BY <2>1, <2>2, <3>1
    <3>2. CASE a # t
      <4>1. phase'[a] = phase[a] /\ todo'[a] = todo[a]
        BY <2>2, <3>2
      <4>2. phase'[a] = "apply" => cfg'[a] = cfg[a]
        BY <2>5, <3>2
      <4> QED
        BY <1>2, <4>1, <4>2
    <3> QED
      BY <3>1, <3>2
  <2> QED
    BY <2>4, <2>6, <2>7 DEF ProgramInv
<1>6. ASSUME NEW t \in Tunnels, StartApply(t) PROVE ProgramInv'
  <2> DEFINE p == Apply(cfg[t])
  <2>1. phase[t] = "clean" /\ cfg[t] \in Configs
    BY <1>2, <1>6 DEF StartApply, Installing
  <2>2. p \in Seq(Commands)
    BY <2>1, Programs
  <2>3. Rest(p, Len(p)) = p /\ Len(p) \in Nat
    BY <2>2, RestIs
  <2>4. Goto(t, "apply", p) /\ port' = port /\ cfg' = cfg /\ fatal' = fatal
    BY <1>6 DEF StartApply
  <2> HIDE DEF p
  <2>5. /\ phase'[t] = "apply" /\ todo'[t] = p
        /\ \A b \in Actors \ {t} : phase'[b] = phase[b] /\ todo'[b] = todo[b]
    BY <1>1, <1>4, <2>2, <2>4
  <2>6. \A u \in Tunnels : /\ port' = u <=> phase'[u] \in Installing
                           /\ phase'[u] \in Installing => cfg'[u] \in Configs
                           /\ u \in fatal' => phase'[u] = "apply"
    BY <1>1, <1>2, <2>1, <2>4, <2>5 DEF Installing
  <2>7. phase'[Script] \in {"off", "stop"}
    BY <1>1, <1>2, <2>5
  <2>8. \A a \in Actors :
           /\ phase'[a] \in {"off", "on"} => todo'[a] = <<>>
           /\ phase'[a] # "apply" =>
                \A cmd \in ToSet(todo'[a]) : cmd.op \in Removing
           /\ phase'[a] = "apply" =>
                /\ Len(todo'[a]) <= Len(Apply(cfg'[a]))
                /\ todo'[a] = Rest(Apply(cfg'[a]), Len(todo'[a]))
    <3> SUFFICES ASSUME NEW a \in Actors
                 PROVE  /\ phase'[a] \in {"off", "on"} => todo'[a] = <<>>
                        /\ phase'[a] # "apply" =>
                             \A cmd \in ToSet(todo'[a]) : cmd.op \in Removing
                        /\ phase'[a] = "apply" =>
                             /\ Len(todo'[a]) <= Len(Apply(cfg'[a]))
                             /\ todo'[a] = Rest(Apply(cfg'[a]), Len(todo'[a]))
      OBVIOUS
    <3>1. CASE a = t
      <4>1. Apply(cfg'[a]) = p
        BY <2>4, <3>1 DEF p
      <4> QED
        BY <2>3, <2>5, <3>1, <4>1
    <3>2. CASE a # t
      BY <1>2, <2>4, <2>5, <3>2
    <3> QED
      BY <3>1, <3>2
  <2> QED
    BY <2>6, <2>7, <2>8 DEF ProgramInv
<1>7. ASSUME NEW t \in Tunnels, Applied(t) PROVE ProgramInv'
  <2>1. /\ phase[t] = "apply" /\ t \notin fatal /\ Goto(t, "on", <<>>)
        /\ port' = port /\ cfg' = cfg /\ fatal' = fatal
    BY <1>7 DEF Applied
  <2>2. /\ phase'[t] = "on" /\ todo'[t] = <<>>
        /\ \A b \in Actors \ {t} : phase'[b] = phase[b] /\ todo'[b] = todo[b]
    BY <1>1, <1>4, <2>1, EmptyIs
  <2>3. \A u \in Tunnels : /\ port' = u <=> phase'[u] \in Installing
                           /\ phase'[u] \in Installing => cfg'[u] \in Configs
                           /\ u \in fatal' => phase'[u] = "apply"
    BY <1>1, <1>2, <2>1, <2>2 DEF Installing
  <2>4. phase'[Script] \in {"off", "stop"}
    BY <1>1, <1>2, <2>2
  <2>5. \A a \in Actors :
           /\ phase'[a] \in {"off", "on"} => todo'[a] = <<>>
           /\ phase'[a] # "apply" =>
                \A cmd \in ToSet(todo'[a]) : cmd.op \in Removing
           /\ phase'[a] = "apply" =>
                /\ Len(todo'[a]) <= Len(Apply(cfg'[a]))
                /\ todo'[a] = Rest(Apply(cfg'[a]), Len(todo'[a]))
    BY <1>2, <1>3, <2>1, <2>2
  <2> QED
    BY <2>3, <2>4, <2>5 DEF ProgramInv
<1>8. ASSUME NEW t \in Tunnels, Stop(t) PROVE ProgramInv'
  <2>1. phase[t] \in Installing /\ cfg[t] \in Configs
    BY <1>2, <1>8 DEF Stop, Installing
  <2>2. /\ Cleanup(cfg[t].ifaces) \in Seq(Commands)
        /\ \A cmd \in ToSet(Cleanup(cfg[t].ifaces)) : cmd.op \in Removing
    BY <2>1, Programs
  <2>3. /\ Goto(t, "stop", Cleanup(cfg[t].ifaces)) /\ port' = Nil
        /\ \A u \in Tunnels \ {t} : cfg'[u] = cfg[u]
        /\ fatal' = fatal \ {t}
    BY <1>8 DEF Stop
  <2>4. /\ phase'[t] = "stop" /\ todo'[t] = Cleanup(cfg[t].ifaces)
        /\ \A b \in Actors \ {t} : phase'[b] = phase[b] /\ todo'[b] = todo[b]
    BY <1>1, <1>4, <2>2, <2>3
  <2>5. port = t /\ \A u \in Tunnels \ {t} : phase[u] \notin Installing
    BY <1>2, <2>1
  <2>6. \A u \in Tunnels : /\ port' = u <=> phase'[u] \in Installing
                           /\ phase'[u] \in Installing => cfg'[u] \in Configs
                           /\ u \in fatal' => phase'[u] = "apply"
    BY <1>1, <1>2, <2>3, <2>4, <2>5 DEF Installing
  <2>7. phase'[Script] \in {"off", "stop"}
    BY <1>1, <1>2, <2>4
  <2>8. \A b \in Actors : phase'[b] # "apply"
    BY <1>1, <1>2, <2>4, <2>5 DEF Installing, Actors
  <2>9. \A a \in Actors :
           /\ phase'[a] \in {"off", "on"} => todo'[a] = <<>>
           /\ \A cmd \in ToSet(todo'[a]) : cmd.op \in Removing
    BY <1>2, <2>2, <2>4, <2>8
  <2> QED
    BY <2>6, <2>7, <2>8, <2>9 DEF ProgramInv
<1>9. ASSUME NEW a \in Actors, Run(a) PROVE ProgramInv'
  <2>1. /\ todo[a] # <<>> /\ todo[a] \in Seq(Commands)
        /\ port' = port /\ phase' = phase /\ cfg' = cfg
    BY <1>9, RunIs
  <2>2. /\ todo'[a] = Tail(todo[a])
        /\ Len(todo[a]) >= 1 /\ Len(todo'[a]) = Len(todo[a]) - 1
        /\ \A cmd \in ToSet(todo'[a]) : cmd \in ToSet(todo[a])
        /\ \A b \in Actors \ {a} : todo'[b] = todo[b]
    BY <1>9, RunLeaves
  <2>3. \A t \in Tunnels : /\ port' = t <=> phase'[t] \in Installing
                           /\ phase'[t] \in Installing => cfg'[t] \in Configs
    BY <1>2, <2>1
  <2>4. \A t \in Tunnels : t \in fatal' => phase'[t] = "apply"
    <3>1. \/ fatal' = fatal
          \/ fatal' = fatal \cup {a} /\ phase[a] = "apply"
      BY <1>9, RunChanges DEF InApply
    <3> QED
      BY <1>2, <2>1, <3>1
  <2>5. phase[a] \notin {"off", "on"}
    BY <1>2, <2>1
  <2>6. ASSUME phase[a] = "apply"
        PROVE  /\ Len(todo'[a]) <= Len(Apply(cfg[a]))
               /\ todo'[a] = Rest(Apply(cfg[a]), Len(todo'[a]))
    <3>1. a \in Tunnels
      BY <1>2, <2>6 DEF Actors
    <3>2. cfg[a] \in Configs
      BY <1>2, <2>6, <3>1 DEF Installing
    <3> DEFINE p == Apply(cfg[a])
               n == Len(todo[a])
    <3>3. p \in Seq(Commands) /\ Len(p) \in Nat /\ n \in Nat
      BY <2>1, <3>2, Programs
    <3>4. n <= Len(p) /\ todo[a] = Rest(p, n)
      BY <1>2, <2>6
    <3> HIDE DEF p, n
    <3>5. n \in 0 .. Len(p) /\ n >= 1
      BY <2>2, <3>3, <3>4 DEF n
    <3>6. Tail(Rest(p, n)) = Rest(p, n - 1)
      BY <3>3, <3>5, RestIs
    <3>7. todo'[a] = Rest(p, n - 1) /\ Len(todo'[a]) = n - 1
      BY <2>2, <3>4, <3>6 DEF n
    <3> QED
      BY <3>3, <3>5, <3>7 DEF p
  <2>7. \A b \in Actors :
           /\ phase'[b] \in {"off", "on"} => todo'[b] = <<>>
           /\ phase'[b] # "apply" =>
                \A cmd \in ToSet(todo'[b]) : cmd.op \in Removing
           /\ phase'[b] = "apply" =>
                /\ Len(todo'[b]) <= Len(Apply(cfg'[b]))
                /\ todo'[b] = Rest(Apply(cfg'[b]), Len(todo'[b]))
    <3> SUFFICES ASSUME NEW b \in Actors
                 PROVE  /\ phase'[b] \in {"off", "on"} => todo'[b] = <<>>
                        /\ phase'[b] # "apply" =>
                             \A cmd \in ToSet(todo'[b]) : cmd.op \in Removing
                        /\ phase'[b] = "apply" =>
                             /\ Len(todo'[b]) <= Len(Apply(cfg'[b]))
                             /\ todo'[b] = Rest(Apply(cfg'[b]), Len(todo'[b]))
      OBVIOUS
    <3>1. CASE b = a
      BY <1>2, <2>1, <2>2, <2>5, <2>6, <3>1
    <3>2. CASE b # a
      BY <1>2, <2>1, <2>2, <3>2
    <3> QED
      BY <3>1, <3>2
  <2> QED
    BY <1>2, <2>1, <2>3, <2>4, <2>7 DEF ProgramInv
<1>10. ASSUME NEW a \in Actors, Cleaned(a) PROVE ProgramInv'
  <2>1. /\ phase[a] = "stop" /\ Goto(a, "off", <<>>)
        /\ port' = port /\ cfg' = cfg /\ fatal' = fatal
    BY <1>10 DEF Cleaned
  <2>2. /\ phase'[a] = "off" /\ todo'[a] = <<>>
        /\ \A b \in Actors \ {a} : phase'[b] = phase[b] /\ todo'[b] = todo[b]
    BY <1>4, <2>1, EmptyIs
  <2>3. \A u \in Tunnels : /\ port' = u <=> phase'[u] \in Installing
                           /\ phase'[u] \in Installing => cfg'[u] \in Configs
                           /\ u \in fatal' => phase'[u] = "apply"
    BY <1>1, <1>2, <2>1, <2>2 DEF Installing
  <2>4. phase'[Script] \in {"off", "stop"}
    BY <1>1, <1>2, <2>2
  <2>5. \A b \in Actors :
           /\ phase'[b] \in {"off", "on"} => todo'[b] = <<>>
           /\ phase'[b] # "apply" =>
                \A cmd \in ToSet(todo'[b]) : cmd.op \in Removing
           /\ phase'[b] = "apply" =>
                /\ Len(todo'[b]) <= Len(Apply(cfg'[b]))
                /\ todo'[b] = Rest(Apply(cfg'[b]), Len(todo'[b]))
    BY <1>2, <1>3, <2>1, <2>2
  <2> QED
    BY <2>3, <2>4, <2>5 DEF ProgramInv
<1>11. ASSUME NetClean PROVE ProgramInv'
  <2>1. /\ phase[Script] = "off" /\ Goto(Script, "stop", Cleanup(Default))
        /\ port' = port /\ cfg' = cfg /\ fatal' = fatal
    BY <1>11 DEF NetClean
  <2>2. /\ Cleanup(Default) \in Seq(Commands)
        /\ \A cmd \in ToSet(Cleanup(Default)) : cmd.op \in Removing
    BY Programs
  <2>3. /\ phase'[Script] = "stop" /\ todo'[Script] = Cleanup(Default)
        /\ \A b \in Actors \ {Script} : phase'[b] = phase[b] /\ todo'[b] = todo[b]
    BY <1>1, <1>4, <2>1, <2>2
  <2>4. \A u \in Tunnels : /\ port' = u <=> phase'[u] \in Installing
                           /\ phase'[u] \in Installing => cfg'[u] \in Configs
                           /\ u \in fatal' => phase'[u] = "apply"
    BY <1>1, <1>2, <2>1, <2>3
  <2>5. \A b \in Actors :
           /\ phase'[b] \in {"off", "on"} => todo'[b] = <<>>
           /\ phase'[b] # "apply" =>
                \A cmd \in ToSet(todo'[b]) : cmd.op \in Removing
           /\ phase'[b] = "apply" =>
                /\ Len(todo'[b]) <= Len(Apply(cfg'[b]))
                /\ todo'[b] = Rest(Apply(cfg'[b]), Len(todo'[b]))
    BY <1>1, <1>2, <2>1, <2>2, <2>3
  <2> QED
    BY <2>3, <2>4, <2>5 DEF ProgramInv
<1>12. ASSUME Kill PROVE ProgramInv'
  <2>1. /\ port' = Nil /\ fatal' = {}
        /\ \A t \in Tunnels : phase'[t] = "off" /\ todo'[t] = <<>>
        /\ phase'[Script] = phase[Script] /\ todo'[Script] = todo[Script]
    BY <1>1, <1>12 DEF Kill
  <2>2. \A u \in Tunnels : /\ port' = u <=> phase'[u] \in Installing
                           /\ phase'[u] \in Installing => cfg'[u] \in Configs
                           /\ u \in fatal' => phase'[u] = "apply"
    BY <1>1, <2>1 DEF Installing
  <2>3. \A b \in Actors :
           /\ phase'[b] \in {"off", "on"} => todo'[b] = <<>>
           /\ phase'[b] # "apply" =>
                \A cmd \in ToSet(todo'[b]) : cmd.op \in Removing
           /\ phase'[b] # "apply"
    BY <1>2, <1>3, <2>1 DEF Actors
  <2> QED
    BY <1>2, <2>1, <2>2, <2>3 DEF ProgramInv
<1>13. CASE UNCHANGED vars
  BY <1>2, <1>13 DEF ProgramInv, vars
<1> QED
  BY <1>5, <1>6, <1>7, <1>8, <1>9, <1>10, <1>11, <1>12, <1>13 DEF Next

\* Every step keeps OrderInv: the rest of a program in order is in order.
LEMMA OrderStep ==
  ASSUME TypeOK, ProgramInv, OrderInv, [Next]_vars
  PROVE  OrderInv'
<1> USE DEF TypeOK
<1>1. Script \in Actors /\ Tunnels \subseteq Actors
  BY DEF Actors
<1>2. \A a \in Actors : /\ phase[a] = "stop" => CleansInOrder(todo[a])
                        /\ JumpsOnce(todo[a])
  BY DEF OrderInv
<1>3. \A t \in Tunnels : phase[t] \in Installing => cfg[t] \in Configs
  BY DEF ProgramInv
<1>4. JumpsOnce(<<>>)
  BY DEF JumpsOnce, NeverAfter
\* Whoever is given a program is given one that is in order.
<1>5. ASSUME NEW a \in Actors, NEW ph, NEW s \in Seq(Commands), Goto(a, ph, s),
             ph = "stop" => CleansInOrder(s), JumpsOnce(s)
      PROVE  OrderInv'
  <2>1. /\ phase'[a] = ph /\ todo'[a] = s
        /\ \A b \in Actors \ {a} : phase'[b] = phase[b] /\ todo'[b] = todo[b]
    BY <1>5 DEF Goto
  <2>2. \A b \in Actors : /\ phase'[b] = "stop" => CleansInOrder(todo'[b])
                          /\ JumpsOnce(todo'[b])
    BY <1>2, <1>5, <2>1
  <2> QED
    BY <2>2 DEF OrderInv
<1>6. ASSUME NEW t \in Tunnels, NEW k \in Configs, Listen(t, k)
      PROVE  OrderInv'
  <2>1. Goto(t, "clean", Cleanup(k.ifaces))
    BY <1>6 DEF Listen
  <2>2. Cleanup(k.ifaces) \in Seq(Commands) /\ JumpsOnce(Cleanup(k.ifaces))
    BY Programs
  <2>3. CleansInOrder(Cleanup(k.ifaces))
    BY Programs
  <2> QED
    BY <1>1, <1>5, <2>1, <2>2, <2>3
<1>7. ASSUME NEW t \in Tunnels, StartApply(t) PROVE OrderInv'
  <2>1. Goto(t, "apply", Apply(cfg[t])) /\ cfg[t] \in Configs
    BY <1>3, <1>7 DEF StartApply, Installing
  <2>2. Apply(cfg[t]) \in Seq(Commands) /\ JumpsOnce(Apply(cfg[t]))
    BY <2>1, Programs
  <2>3. "apply" = "stop" => CleansInOrder(Apply(cfg[t]))
    OBVIOUS
  <2> QED
    BY <1>1, <1>5, <2>1, <2>2, <2>3
<1>8. ASSUME NEW t \in Tunnels, Applied(t) PROVE OrderInv'
  <2>1. Goto(t, "on", <<>>)
    BY <1>8 DEF Applied
  <2>2. "on" = "stop" => CleansInOrder(<<>>)
    OBVIOUS
  <2> QED
    BY <1>1, <1>4, <1>5, <2>1, <2>2, EmptyIs
<1>9. ASSUME NEW t \in Tunnels, Stop(t) PROVE OrderInv'
  <2>1. Goto(t, "stop", Cleanup(cfg[t].ifaces)) /\ cfg[t] \in Configs
    BY <1>3, <1>9 DEF Stop, Installing
  <2>2. /\ Cleanup(cfg[t].ifaces) \in Seq(Commands)
        /\ JumpsOnce(Cleanup(cfg[t].ifaces))
        /\ CleansInOrder(Cleanup(cfg[t].ifaces))
    BY <2>1, Programs
  <2> QED
    BY <1>1, <1>5, <2>1, <2>2
<1>10. ASSUME NEW a \in Actors, Run(a) PROVE OrderInv'
  <2>1. /\ todo[a] # <<>> /\ todo[a] \in Seq(Commands) /\ phase' = phase
    BY <1>10, RunIs
  <2>2. /\ todo'[a] = Tail(todo[a])
        /\ \A b \in Actors \ {a} : todo'[b] = todo[b]
    BY <1>10, RunLeaves
  <2>3. ASSUME phase[a] = "stop" PROVE CleansInOrder(Tail(todo[a]))
    <3>1. CleansInOrder(todo[a])
      BY <1>2, <2>3
    <3>2. ASSUME NEW x, NEW y, Before(todo[a], x, y)
          PROVE  Before(Tail(todo[a]), x, y)
      BY <2>1, <3>2, TailOrder
    <3>3. \A c \in Chains : Before(Tail(todo[a]), Cmd("-F", c), Cmd("-X", c))
      BY <3>1, <3>2 DEF CleansInOrder
    <3>4. \A h \in Hooks : Before(Tail(todo[a]), Del(h), Cmd("-X", h[2]))
      BY <3>1, <3>2 DEF CleansInOrder
    <3> QED
      BY <3>3, <3>4 DEF CleansInOrder
  <2>4. JumpsOnce(Tail(todo[a]))
    <3>1. JumpsOnce(todo[a])
      BY <1>2
    <3>2. ASSUME NEW x, NEW y, NeverAfter(todo[a], x, y)
          PROVE  NeverAfter(Tail(todo[a]), x, y)
      BY <2>1, <3>2, TailOrder
    <3> QED
      BY <3>1, <3>2 DEF JumpsOnce
  <2>5. \A b \in Actors : /\ phase'[b] = "stop" => CleansInOrder(todo'[b])
                          /\ JumpsOnce(todo'[b])
    BY <1>2, <2>1, <2>2, <2>3, <2>4
  <2> QED
    BY <2>5 DEF OrderInv
<1>11. ASSUME NEW a \in Actors, Cleaned(a) PROVE OrderInv'
  <2>1. Goto(a, "off", <<>>)
    BY <1>11 DEF Cleaned
  <2>2. "off" = "stop" => CleansInOrder(<<>>)
    OBVIOUS
  <2> QED
    BY <1>4, <1>5, <2>1, <2>2, EmptyIs
<1>12. ASSUME NetClean PROVE OrderInv'
  <2>1. Goto(Script, "stop", Cleanup(Default))
    BY <1>12 DEF NetClean
  <2>2. /\ Cleanup(Default) \in Seq(Commands) /\ JumpsOnce(Cleanup(Default))
        /\ CleansInOrder(Cleanup(Default))
    BY Programs
  <2> QED
    BY <1>1, <1>5, <2>1, <2>2
<1>13. ASSUME Kill PROVE OrderInv'
  <2>1. /\ \A a \in Actors : \/ phase'[a] = "off" /\ todo'[a] = <<>>
                             \/ phase'[a] = phase[a] /\ todo'[a] = todo[a]
    BY <1>13 DEF Kill
  <2>2. \A b \in Actors : /\ phase'[b] = "stop" => CleansInOrder(todo'[b])
                          /\ JumpsOnce(todo'[b])
    BY <1>2, <1>4, <2>1
  <2> QED
    BY <2>2 DEF OrderInv
<1>14. CASE UNCHANGED vars
  BY <1>2, <1>14 DEF OrderInv, vars
<1> QED
  BY <1>6, <1>7, <1>8, <1>9, <1>10, <1>11, <1>12, <1>13, <1>14 DEF Next

\* What a command does to the number of jumps: only Apply adds one.
LEMMA RunCounts ==
  ASSUME TypeOK, ProgramInv, NEW a \in Actors, Run(a), NEW x \in Jumps
  PROVE  /\ Count(x) \in Nat /\ Count(x)' \in Nat
         /\ \/ Count(x)' <= Count(x)
            \/ /\ Count(x)' = Count(x) + 1 /\ Head(todo[a]) = Ins(x)
               /\ phase[a] = "apply" /\ a \in Tunnels
         /\ Head(todo[a]) = Del(x) /\ Count(x) <= 1 =>
              \/ Count(x)' = 0
              \/ Count(x)' = Count(x) /\ faults' = faults + 1
<1> DEFINE cmd == Head(todo[a])
<1>1. /\ cmd \in Commands /\ cmd \in ToSet(todo[a])
      /\ \/ ~Refused(cmd) /\ Effect(cmd)
         \/ Refused(cmd) /\ tableVars' = tableVars
         \/ faults' = faults + 1 /\ tableVars' = tableVars
  BY RunIs DEF Ahead
<1>2. Count(x) \in Nat
  BY Counts
<1>3. cmd = Ins(x) => phase[a] = "apply" /\ a \in Tunnels
  <2>1. Ins(x).op \notin Removing
    BY DelIs
  <2> QED
    BY <1>1, <2>1 DEF ProgramInv, Actors
<1> HIDE DEF cmd
<1>4. CASE tableVars' = tableVars
  <2>1. Count(x)' = Count(x)
    BY <1>4 DEF tableVars, Count
  <2>2. cmd = Del(x) => (Refused(cmd) <=> Count(x) = 0)
    BY DelRuns
  <2>3. cmd = Del(x) => Count(x) = 0 \/ faults' = faults + 1 \/ Effect(cmd)
    BY <1>1, <2>2
  <2>4. cmd = Del(x) /\ Effect(cmd) => Count(x)' = Count(x) - 1
    BY DelRuns
  <2> QED
    BY <1>2, <2>1, <2>3, <2>4 DEF cmd
<1>5. CASE ~Refused(cmd) /\ Effect(cmd)
  <2>1. CASE \E y \in Jumps : cmd = Del(y)
    <3>1. PICK y \in Jumps : cmd = Del(y)
      BY <2>1
    <3>2. /\ Count(y) # 0
          /\ Count(x)' = IF x = y THEN Count(x) - 1 ELSE Count(x)
      BY <1>5, <3>1, DelRuns
    <3>3. cmd = Del(x) => x = y
      BY <3>1, DelIs
    <3> QED
      BY <1>2, <3>2, <3>3 DEF cmd
  <2>2. CASE \E y \in Jumps : cmd = Ins(y)
    <3>1. PICK y \in Jumps : cmd = Ins(y)
      BY <2>2
    <3>2. Count(x)' = IF x = y THEN Count(x) + 1 ELSE Count(x)
      BY <1>5, <3>1, InsRuns
    <3>3. cmd # Del(x)
      BY <3>1, DelIs
    <3> QED
      BY <1>2, <1>3, <3>1, <3>2, <3>3 DEF cmd
  <2>3. CASE \E c \in Chains : \/ cmd = Cmd("-F", c) \/ cmd = Cmd("-X", c)
                               \/ cmd = Cmd("-N", c)
    <3>1. hooks' = hooks /\ forward' = forward
      BY <1>5, <2>3, ChainRuns
    <3>2. cmd # Del(x)
      BY <2>3, DelIs
    <3>3. Count(x)' = Count(x)
      BY <3>1 DEF Count
    <3> QED
      BY <1>2, <3>2, <3>3 DEF cmd
  <2>4. CASE \E c \in Chains, r \in Rules : cmd = Cmd("-A", <<c, r>>)
    <3>1. hooks' = hooks /\ forward' = forward
      BY <1>5, <2>4, AddRuns
    <3>2. cmd # Del(x)
      BY <2>4, DelIs
    <3>3. Count(x)' = Count(x)
      BY <3>1 DEF Count
    <3> QED
      BY <1>2, <3>2, <3>3 DEF cmd
  <2> QED
    BY <1>1, <2>1, <2>2, <2>3, <2>4, CommandIs
<1> QED
  BY <1>1, <1>4, <1>5

\* Only one tunnel installs.
LEMMA OneInstalls ==
  ASSUME ProgramInv, NEW t \in Tunnels, NEW u \in Tunnels,
         phase[t] \in Installing, phase[u] \in Installing
  PROVE  t = u
BY DEF ProgramInv

\* A command keeps CountInv: Apply makes a jump only after its deletions.
LEMMA CountRun ==
  ASSUME TypeOK, ProgramInv, OrderInv, CountInv, NEW a \in Actors, Run(a)
  PROVE  CountInv'
<1> SUFFICES ASSUME faults' <= 1
             PROVE  CountInv'
  BY DEF CountInv
<1>1. /\ faults \in Nat /\ (faults' = faults \/ faults' = faults + 1)
      /\ phase' = phase /\ cfg' = cfg
  <2>1. faults' = faults \/ faults' = faults + 1
    BY RunChanges, Zenon
  <2>2. phase' = phase /\ cfg' = cfg
    BY RunIs
  <2>3. faults \in Nat
    BY BoundsAssumption DEF TypeOK
  <2> QED
    BY <2>1, <2>2, <2>3
<1>2. /\ \A x \in Jumps : Count(x) <= 1
      /\ \A x \in Jumps, t \in Tunnels :
           phase[t] = "clean" /\ Del(x) \in ToSet(Cleanup(cfg[t].ifaces))
             /\ Del(x) \notin ToSet(todo[t])
           => Count(x) = 0 \/ faults = 1
      /\ \A x \in Jumps, t \in Tunnels :
           phase[t] = "apply" /\ Ins(x) \in ToSet(todo[t]) =>
             /\ Count(x) = 0 \/ faults = 1
             /\ Del(x) \in ToSet(todo[t]) \/ Count(x) = 0
      /\ \A t \in Tunnels :
           phase[t] \in {"apply", "on"} =>
             hooks[OutputJump("PROXY")] = 0 \/ faults = 1
  BY <1>1 DEF CountInv, Ahead
<1>3. /\ \A cmd \in ToSet(todo'[a]) : cmd \in ToSet(todo[a])
      /\ \A cmd \in ToSet(todo[a]) :
           cmd = Head(todo[a]) \/ cmd \in ToSet(todo'[a])
      /\ Head(todo[a]) \in ToSet(todo[a])
      /\ todo'[a] = Tail(todo[a])
      /\ todo[a] # <<>> /\ todo[a] \in Seq(Commands)
      /\ \A b \in Actors \ {a} : todo'[b] = todo[b]
  BY RunLeaves, RunIs DEF Ahead
<1>4. \A x \in Jumps :
        /\ Count(x) \in Nat /\ Count(x)' \in Nat
        /\ \/ Count(x)' <= Count(x)
           \/ /\ Count(x)' = Count(x) + 1 /\ Head(todo[a]) = Ins(x)
              /\ phase[a] = "apply" /\ a \in Tunnels
        /\ Head(todo[a]) = Del(x) =>
             \/ Count(x)' = 0
             \/ Count(x)' = Count(x) /\ faults' = faults + 1
  BY <1>2, RunCounts
\* The jump that is made is not deleted, nor made, later.
<1>5. ASSUME NEW x \in Jumps, Head(todo[a]) = Ins(x)
      PROVE  /\ Del(x) \notin ToSet(todo[a]) /\ Ins(x) \notin ToSet(todo'[a])
  <2>1. NeverAfter(todo[a], Ins(x), Del(x)) /\ NeverAfter(todo[a], Ins(x), Ins(x))
    BY DEF OrderInv, JumpsOnce
  <2>2. Del(x) \notin ToSet(Tail(todo[a])) /\ Ins(x) \notin ToSet(Tail(todo[a]))
    BY <1>3, <1>5, <2>1, TailOrder
  <2>3. Del(x) # Ins(x)
    BY DelIs
  <2> QED
    BY <1>3, <1>5, <2>2, <2>3
<1>6. Tunnels \subseteq Actors
  BY DEF Actors
<1>7. ASSUME NEW x \in Jumps PROVE Count(x)' <= 1
  <2>1. CASE Count(x)' <= Count(x)
    BY <1>2, <1>4, <2>1
  <2>2. CASE /\ Count(x)' = Count(x) + 1 /\ Head(todo[a]) = Ins(x)
             /\ phase[a] = "apply" /\ a \in Tunnels
    <3>1. Count(x) = 0
      BY <1>2, <1>3, <1>5, <2>2
    <3> QED
      BY <2>2, <3>1
  <2> QED
    BY <1>4, <2>1, <2>2
<1>8. ASSUME NEW x \in Jumps, NEW t \in Tunnels, phase[t] = "clean",
             Del(x) \in ToSet(Cleanup(cfg[t].ifaces)),
             Del(x) \notin ToSet(todo'[t])
      PROVE  Count(x)' = 0 \/ faults' = 1
  <2>1. ~(phase[a] = "apply" /\ a \in Tunnels)
    BY <1>8, OneInstalls DEF Installing
  <2>2. CASE Del(x) \in ToSet(todo[t])
    <3>1. a = t /\ Head(todo[a]) = Del(x)
      BY <1>3, <1>6, <1>8, <2>2
    <3> QED
      BY <1>1, <1>4, <3>1
  <2>3. CASE Del(x) \notin ToSet(todo[t])
    <3>1. Count(x) = 0 \/ faults = 1
      BY <1>2, <1>8, <2>3
    <3> QED
      BY <1>1, <1>4, <2>1, <3>1
  <2> QED
    BY <2>2, <2>3
<1>9. ASSUME NEW x \in Jumps, NEW t \in Tunnels, phase[t] = "apply",
             Ins(x) \in ToSet(todo'[t])
      PROVE  /\ Count(x)' = 0 \/ faults' = 1
             /\ Del(x) \in ToSet(todo'[t]) \/ Count(x)' = 0
  <2>1. Ins(x) \in ToSet(todo[t])
    BY <1>3, <1>6, <1>9
  <2>2. /\ Count(x) = 0 \/ faults = 1
        /\ Del(x) \in ToSet(todo[t]) \/ Count(x) = 0
    BY <1>2, <1>9, <2>1
  <2>3. ~(/\ Head(todo[a]) = Ins(x) /\ phase[a] = "apply" /\ a \in Tunnels)
    <3>1. phase[a] = "apply" /\ a \in Tunnels => a = t
      BY <1>9, OneInstalls DEF Installing
    <3> QED
      BY <1>5, <1>9, <3>1
  <2>4. Count(x)' <= Count(x)
    BY <1>4, <2>3
  <2>5. Count(x)' = 0 \/ faults' = 1
    BY <1>1, <1>4, <2>2, <2>4
  <2>6. Del(x) \in ToSet(todo'[t]) \/ Count(x)' = 0
    <3>1. CASE Count(x) = 0
      BY <1>4, <2>4, <3>1
    <3>2. CASE Count(x) # 0
      <4>1. Del(x) \in ToSet(todo[t]) /\ faults = 1
        BY <2>2, <3>2
      <4>2. CASE a = t /\ Head(todo[a]) = Del(x)
        BY <1>1, <1>4, <4>1, <4>2
      <4>3. CASE ~(a = t /\ Head(todo[a]) = Del(x))
        BY <1>3, <1>6, <4>1, <4>3
      <4> QED
        BY <4>2, <4>3
    <3> QED
      BY <3>1, <3>2
  <2> QED
    BY <2>5, <2>6
<1>10. ASSUME NEW t \in Tunnels, phase[t] \in {"apply", "on"}
       PROVE  hooks'[OutputJump("PROXY")] = 0 \/ faults' = 1
  <2> DEFINE y == OutputJump("PROXY")
  <2>1. y \in Jumps /\ y # Nil
    BY Typed, ValuesAssumption DEF Jumps
  <2>2. Count(y) = hooks[y] /\ Count(y)' = hooks'[y]
    BY <2>1 DEF Count
  <2>3. ~(/\ Head(todo[a]) = Ins(y) /\ phase[a] = "apply" /\ a \in Tunnels)
    <3> SUFFICES ASSUME Head(todo[a]) = Ins(y), phase[a] = "apply", a \in Tunnels
                 PROVE  FALSE
      OBVIOUS
    <3> DEFINE p == Apply(cfg[a])
               n == Len(todo[a])
    <3>1. cfg[a] \in Configs
      BY DEF ProgramInv, Installing
    <3>2. p \in Seq(Commands) /\ n \in Nat /\ Len(p) \in Nat
      BY <1>3, <3>1, Programs
    <3>3. n <= Len(p) /\ todo[a] = Rest(p, n)
      BY DEF ProgramInv
    <3>4. Ins(y) \in ToSet(todo[a])
      BY <1>3
    <3> HIDE DEF p, n
    <3>5. \A z \in ToSet(Rest(p, n)) : z \in ToSet(p)
      BY <3>2, <3>3, RestIs
    <3>6. Ins(y) \in ToSet(p)
      BY <3>3, <3>4, <3>5
    <3> QED
      BY <2>1, <3>1, <3>6, ApplyHas DEF p
  <2> HIDE DEF y
  <2>4. Count(y) = 0 \/ faults = 1
    BY <1>2, <1>10, <2>2 DEF y
  <2>5. Count(y)' <= Count(y)
    BY <1>4, <2>1, <2>3
  <2>6. Count(y)' = 0 \/ faults' = 1
    BY <1>1, <1>4, <2>1, <2>4, <2>5
  <2> QED
    BY <2>2, <2>6 DEF y
<1> QED
  BY <1>1, <1>7, <1>8, <1>9, <1>10 DEF CountInv, Ahead

\* Every step keeps CountInv.
LEMMA CountStep ==
  ASSUME TypeOK, ProgramInv, OrderInv, CountInv, [Next]_vars
  PROVE  CountInv'
<1>1. Script \in Actors /\ Tunnels \subseteq Actors /\ Script \notin Tunnels
      /\ \A t \in Tunnels : t # Script
  BY ActorsAssumption DEF Actors
\* The table stays, and no tunnel gets further than one of the five ways.
<1>2. ASSUME tableVars' = tableVars, faults' = faults,
             \A t \in Tunnels :
               \/ phase'[t] \in {"off", "stop"}
               \/ phase'[t] = phase[t] /\ todo'[t] = todo[t] /\ cfg'[t] = cfg[t]
               \/ phase'[t] = "on" /\ phase[t] \in {"apply", "on"}
               \/ /\ phase'[t] = "clean"
                  /\ todo'[t] = Cleanup(cfg'[t].ifaces)
               \/ /\ phase'[t] = "apply" /\ phase[t] = "clean"
                  /\ todo[t] = <<>> /\ cfg'[t] = cfg[t]
                  /\ todo'[t] = Apply(cfg[t])
      PROVE  CountInv'
  <2> SUFFICES ASSUME faults <= 1
               PROVE  CountInv'
    BY <1>2 DEF CountInv
  <2>1. /\ \A x \in Jumps : Count(x) <= 1
        /\ \A x \in Jumps, t \in Tunnels :
             phase[t] = "clean" /\ Del(x) \in ToSet(Cleanup(cfg[t].ifaces))
               /\ Del(x) \notin ToSet(todo[t])
             => Count(x) = 0 \/ faults = 1
        /\ \A x \in Jumps, t \in Tunnels :
             phase[t] = "apply" /\ Ins(x) \in ToSet(todo[t]) =>
               /\ Count(x) = 0 \/ faults = 1
               /\ Del(x) \in ToSet(todo[t]) \/ Count(x) = 0
        /\ \A t \in Tunnels :
             phase[t] \in {"apply", "on"} =>
               hooks[OutputJump("PROXY")] = 0 \/ faults = 1
    BY DEF CountInv, Ahead
  <2>2. hooks' = hooks /\ forward' = forward
    BY <1>2 DEF tableVars
  <2>3. \A x : Count(x)' = Count(x)
    BY <2>2 DEF Count
  <2>4. \A x : x \notin ToSet(<<>>)
    BY DEF ToSet
  <2>5. \A t \in Tunnels : phase[t] = "clean" => cfg[t] \in Configs
    BY DEF ProgramInv, Installing
  <2>6. ASSUME NEW x \in Jumps, NEW t \in Tunnels, phase'[t] = "clean",
               Del(x) \in ToSet(Cleanup(cfg'[t].ifaces)),
               Del(x) \notin ToSet(todo'[t])
        PROVE  Count(x) = 0 \/ faults = 1
    BY <1>2, <2>1, <2>6
  <2>7. ASSUME NEW x \in Jumps, NEW t \in Tunnels, phase'[t] = "apply",
               Ins(x) \in ToSet(todo'[t])
        PROVE  /\ Count(x) = 0 \/ faults = 1
               /\ Del(x) \in ToSet(todo'[t]) \/ Count(x) = 0
    <3>1. CASE phase[t] = "clean"
      <4>1. todo[t] = <<>> /\ todo'[t] = Apply(cfg[t]) /\ cfg[t] \in Configs
        BY <1>2, <2>5, <2>7, <3>1
      <4>2. /\ Del(x) \in ToSet(Cleanup(cfg[t].ifaces))
            /\ \A cmd \in ToSet(Cleanup(cfg[t].ifaces)) :
                 cmd \in ToSet(Apply(cfg[t]))
        BY <2>7, <4>1, ApplyHas
      <4> QED
        BY <2>1, <2>4, <3>1, <4>1, <4>2
    <3>2. CASE phase[t] # "clean"
      BY <1>2, <2>1, <2>7, <3>2
    <3> QED
      BY <3>1, <3>2
  <2>8. ASSUME NEW t \in Tunnels, phase'[t] \in {"apply", "on"}
        PROVE  hooks[OutputJump("PROXY")] = 0 \/ faults = 1
    <3>1. CASE phase[t] = "clean"
      <4>1. todo[t] = <<>> /\ cfg[t] \in Configs
        BY <1>2, <2>5, <2>8, <3>1
      <4>2. PICK i \in Ifaces : cfg[t].ifaces = <<i>>
        BY <4>1, ConfigIs
      <4>3. Del(OutputJump("PROXY")) \in ToSet(Cleanup(cfg[t].ifaces))
        BY <4>2, CleanupHas
      <4>4. OutputJump("PROXY") \in Jumps /\ OutputJump("PROXY") # Nil
        BY Typed, ValuesAssumption DEF Jumps
      <4>5. Count(OutputJump("PROXY")) = 0 \/ faults = 1
        BY <2>1, <2>4, <3>1, <4>1, <4>3, <4>4
      <4> QED
        BY <4>4, <4>5 DEF Count
    <3>2. CASE phase[t] # "clean"
      BY <1>2, <2>1, <2>8, <3>2
    <3> QED
      BY <3>1, <3>2
  <2> QED
    BY <1>2, <2>1, <2>2, <2>3, <2>6, <2>7, <2>8 DEF CountInv, Ahead
\* What Goto leaves alone.
<1>3. ASSUME NEW a \in Actors, NEW ph, NEW s, Goto(a, ph, s)
      PROVE  /\ phase'[a] = ph /\ todo'[a] = s
             /\ \A b \in Actors \ {a} : phase'[b] = phase[b] /\ todo'[b] = todo[b]
  BY <1>3 DEF Goto, TypeOK
<1>4. ASSUME NEW t \in Tunnels, NEW k \in Configs, Listen(t, k)
      PROVE  CountInv'
  <2>1. /\ Goto(t, "clean", Cleanup(k.ifaces))
        /\ tableVars' = tableVars /\ faults' = faults
        /\ cfg'[t] = k /\ \A u \in Tunnels \ {t} : cfg'[u] = cfg[u]
    BY <1>4 DEF Listen, TypeOK
  <2>2. /\ phase'[t] = "clean" /\ todo'[t] = Cleanup(k.ifaces)
        /\ \A b \in Actors \ {t} : phase'[b] = phase[b] /\ todo'[b] = todo[b]
    BY <1>1, <1>3, <2>1
  <2> QED
    BY <1>1, <1>2, <2>1, <2>2
<1>5. ASSUME NEW t \in Tunnels, StartApply(t) PROVE CountInv'
  <2>1. /\ Goto(t, "apply", Apply(cfg[t])) /\ phase[t] = "clean"
        /\ todo[t] = <<>> /\ cfg' = cfg
        /\ tableVars' = tableVars /\ faults' = faults
    BY <1>5 DEF StartApply
  <2>2. /\ phase'[t] = "apply" /\ todo'[t] = Apply(cfg[t])
        /\ \A b \in Actors \ {t} : phase'[b] = phase[b] /\ todo'[b] = todo[b]
    BY <1>1, <1>3, <2>1
  <2> QED
    BY <1>1, <1>2, <2>1, <2>2
<1>6. ASSUME NEW t \in Tunnels, Applied(t) PROVE CountInv'
  <2>1. /\ Goto(t, "on", <<>>) /\ phase[t] = "apply" /\ cfg' = cfg
        /\ tableVars' = tableVars /\ faults' = faults
    BY <1>6 DEF Applied
  <2>2. /\ phase'[t] = "on"
        /\ \A b \in Actors \ {t} : phase'[b] = phase[b] /\ todo'[b] = todo[b]
    BY <1>1, <1>3, <2>1
  <2> QED
    BY <1>1, <1>2, <2>1, <2>2
<1>7. ASSUME NEW t \in Tunnels, Stop(t) PROVE CountInv'
  <2>1. /\ Goto(t, "stop", Cleanup(cfg[t].ifaces))
        /\ tableVars' = tableVars /\ faults' = faults
        /\ \A u \in Tunnels \ {t} : cfg'[u] = cfg[u]
    BY <1>7 DEF Stop, TypeOK
  <2>2. /\ phase'[t] = "stop"
        /\ \A b \in Actors \ {t} : phase'[b] = phase[b] /\ todo'[b] = todo[b]
    BY <1>1, <1>3, <2>1
  <2> QED
    BY <1>1, <1>2, <2>1, <2>2
<1>8. ASSUME NEW a \in Actors, Cleaned(a) PROVE CountInv'
  <2>1. /\ Goto(a, "off", <<>>) /\ cfg' = cfg
        /\ tableVars' = tableVars /\ faults' = faults
    BY <1>8 DEF Cleaned
  <2>2. /\ phase'[a] = "off"
        /\ \A b \in Actors \ {a} : phase'[b] = phase[b] /\ todo'[b] = todo[b]
    BY <1>3, <2>1
  <2> QED
    BY <1>1, <1>2, <2>1, <2>2
<1>9. ASSUME NetClean PROVE CountInv'
  <2>1. /\ Goto(Script, "stop", Cleanup(Default)) /\ cfg' = cfg
        /\ tableVars' = tableVars /\ faults' = faults
    BY <1>9 DEF NetClean
  <2>2. \A b \in Actors \ {Script} : phase'[b] = phase[b] /\ todo'[b] = todo[b]
    BY <1>1, <1>3, <2>1
  <2> QED
    BY <1>1, <1>2, <2>1, <2>2
<1>10. ASSUME Kill PROVE CountInv'
  <2>1. /\ \A t \in Tunnels : phase'[t] = "off"
        /\ tableVars' = tableVars /\ faults' = faults
    BY <1>1, <1>10 DEF Kill
  <2> QED
    BY <1>2, <2>1
<1>11. CASE UNCHANGED vars
  <2>1. /\ tableVars' = tableVars /\ faults' = faults
        /\ phase' = phase /\ todo' = todo /\ cfg' = cfg
    BY <1>11 DEF vars
  <2> QED
    BY <1>2, <2>1
<1> QED
  BY <1>4, <1>5, <1>6, <1>7, <1>8, <1>9, <1>10, <1>11, CountRun DEF Next

\* What Goto changes, and what it leaves alone.
LEMMA Goes ==
  ASSUME TypeOK, NEW a \in Actors, NEW ph, NEW s, Goto(a, ph, s)
  PROVE  /\ phase'[a] = ph /\ todo'[a] = s
         /\ \A b \in Actors \ {a} : phase'[b] = phase[b] /\ todo'[b] = todo[b]
BY DEF Goto, TypeOK

\* The actors are the tunnels and the script.
LEMMA ActorsAre ==
  /\ Script \in Actors /\ Tunnels \subseteq Actors /\ Script \notin Tunnels
  /\ \A t \in Tunnels : t # Script /\ t \in Actors
  /\ \A a \in Actors : a \in Tunnels \/ a = Script
BY ActorsAssumption DEF Actors

\* Every step keeps OwedInv.
LEMMA OwedStep ==
  ASSUME TypeOK, ProgramInv, OwedInv, [Next]_vars
  PROVE  OwedInv'
<1>1. /\ owed > 0 => /\ \A t \in Tunnels : phase[t] \in {"off", "clean"}
                     /\ owed = 2 => phase[Script] = "stop"
      /\ owed \in 0 .. 2
  BY DEF OwedInv, TypeOK
<1>2. phase[Script] \in {"off", "stop"}
  BY DEF ProgramInv
<1>3. ASSUME NEW t \in Tunnels, NEW k \in Configs, Listen(t, k)
      PROVE  OwedInv'
  <2>1. Goto(t, "clean", Cleanup(k.ifaces)) /\ owed' = owed
    BY <1>3 DEF Listen
  <2>2. /\ phase'[t] = "clean"
        /\ \A b \in Actors \ {t} : phase'[b] = phase[b]
    BY <2>1, ActorsAre, Goes
  <2> QED
    BY <1>1, <2>1, <2>2, ActorsAre DEF OwedInv
<1>4. ASSUME NEW t \in Tunnels, StartApply(t) PROVE OwedInv'
  BY <1>4 DEF StartApply, OwedInv
<1>5. ASSUME NEW t \in Tunnels, Applied(t) \/ Stop(t) PROVE OwedInv'
  BY <1>1, <1>5 DEF Applied, Stop, OwedInv
<1>6. ASSUME NEW a \in Actors, Run(a) PROVE OwedInv'
  <2>1. phase' = phase /\ owed' = owed
    BY <1>6 DEF Run
  <2> QED
    BY <1>1, <2>1 DEF OwedInv
<1>7. ASSUME NEW a \in Actors, Cleaned(a) PROVE OwedInv'
  <2>1. Goto(a, "off", <<>>) /\ owed' = IF owed = 0 THEN 0 ELSE owed - 1
    BY <1>7 DEF Cleaned
  <2>2. /\ phase'[a] = "off"
        /\ \A b \in Actors \ {a} : phase'[b] = phase[b]
    BY <2>1, Goes
  <2>3. owed' # 2 /\ (owed' > 0 => owed > 0)
    BY <1>1, <2>1
  <2> QED
    BY <1>1, <2>2, <2>3, ActorsAre DEF OwedInv
<1>8. ASSUME NetClean PROVE OwedInv'
  <2>1. Goto(Script, "stop", Cleanup(Default)) /\ owed' = owed
    BY <1>8 DEF NetClean
  <2>2. /\ phase'[Script] = "stop"
        /\ \A b \in Actors \ {Script} : phase'[b] = phase[b]
    BY <2>1, ActorsAre, Goes
  <2> QED
    BY <1>1, <2>1, <2>2, ActorsAre DEF OwedInv
<1>9. ASSUME Kill PROVE OwedInv'
  <2>1. /\ \A t \in Tunnels : phase'[t] = "off"
        /\ phase'[Script] = phase[Script]
        /\ owed' = IF phase[Script] = "off" THEN 1 ELSE 2
    BY <1>9, ActorsAre DEF Kill
  <2> QED
    BY <1>2, <2>1 DEF OwedInv
<1>10. CASE UNCHANGED vars
  BY <1>1, <1>10 DEF vars, OwedInv
<1> QED
  BY <1>3, <1>4, <1>5, <1>6, <1>7, <1>8, <1>9, <1>10 DEF Next

(***************************************************************************)
(* Where an Apply is.                                                      *)
(***************************************************************************)
LEMMA NextBuilt ==
  ASSUME TypeOK, ProgramInv, NEW t \in Tunnels, phase[t] = "apply",
         todo[t] # <<>>
  PROVE  LET k == cfg[t]
             n == Built(t)
         IN  /\ k \in Configs /\ n \in Int
             /\ InApply(t) <=> n >= 0
             /\ n < 0 => Head(todo[t]) \in ToSet(Cleanup(k.ifaces))
             /\ n >= 0 => /\ n <= 11 /\ Head(todo[t]) = Build(k)[n + 1]
                          /\ n >= 10 => k.hotspot
<1> DEFINE k == cfg[t]
           p == Apply(k)
           m == Len(todo[t])
           l == Len(Build(k))
           c == Cleanup(k.ifaces)
<1>1. k \in Configs
  BY DEF ProgramInv, Installing
<1>2. /\ p \in Seq(Commands) /\ l \in {10, 12} /\ Len(p) = 10 + l
      /\ l = 12 <=> k.hotspot
      /\ \A j \in 1 .. 10 : p[j] = c[j]
      /\ \A j \in 1 .. l : p[10 + j] = Build(k)[j]
      /\ c \in Seq(Commands) /\ Len(c) = 10
  BY <1>1, ApplyAt
<1>3. todo[t] \in Seq(Commands) /\ m \in Nat /\ m >= 1
  BY ActorsAre DEF TypeOK
<1>4. m <= Len(p) /\ todo[t] = Rest(p, m)
  BY ActorsAre DEF ProgramInv
<1>5. Built(t) = l - m
  BY DEF Built
<1>6. InApply(t) <=> m <= l
  BY DEF InApply
<1> HIDE DEF k, p, m, l, c
<1>7. m \in 0 .. Len(p)
  BY <1>2, <1>3, <1>4
<1>8. Head(Rest(p, m)) = p[Len(p) - m + 1]
  <2>1. p \in Seq(Commands)
    BY <1>2
  <2>2. m >= 1
    BY <1>3
  <2> QED
    BY <1>7, <2>1, <2>2, RestIs
<1>9. Head(todo[t]) = p[10 + l - m + 1]
  <2>1. Len(p) - m + 1 = 10 + l - m + 1
    BY <1>2, <1>3
  <2> QED
    BY <1>4, <1>8, <2>1
<1>10. ASSUME l - m < 0
       PROVE  Head(todo[t]) \in ToSet(c)
  <2>1. 10 + l - m + 1 \in 1 .. 10
    BY <1>2, <1>3, <1>4, <1>10
  <2>2. DOMAIN c = 1 .. 10
    BY <1>2
  <2>3. \A j \in 1 .. 10 : c[j] \in ToSet(c)
    BY <2>2 DEF ToSet
  <2>4. \A j \in 1 .. 10 : p[j] = c[j]
    BY <1>2
  <2>5. p[10 + l - m + 1] \in ToSet(c)
    BY <2>1, <2>3, <2>4, Zenon
  <2> QED
    BY <1>9, <2>5
<1>11. ASSUME l - m >= 0
       PROVE  /\ l - m <= 11 /\ Head(todo[t]) = Build(k)[l - m + 1]
              /\ l - m >= 10 => k.hotspot
  <2>1. l - m + 1 \in 1 .. l /\ 10 + l - m + 1 = 10 + (l - m + 1)
    BY <1>2, <1>3, <1>11
  <2>2. Head(todo[t]) = Build(k)[l - m + 1]
    BY <1>2, <1>9, <2>1
  <2>3. l - m <= 11 /\ (l - m >= 10 => l = 12)
    BY <1>2, <1>3
  <2> QED
    BY <1>2, <2>2, <2>3
<1>12. l - m \in Int /\ (InApply(t) <=> l - m >= 0)
  BY <1>2, <1>3, <1>6
<1> QED
  BY <1>1, <1>5, <1>10, <1>11, <1>12 DEF k, c

\* The first elements of a sequence.
LEMMA StartIs ==
  ASSUME NEW S, NEW s \in Seq(S), NEW n \in 0 .. Len(s),
         NEW v \in Seq(S), Len(v) = n, \A j \in 1 .. n : v[j] = s[j]
  PROVE  SubSeq(s, 1, n) = v
<1>1. /\ SubSeq(s, 1, n) \in Seq(S) /\ Len(SubSeq(s, 1, n)) = n
      /\ \A j \in 1 .. n : SubSeq(s, 1, n)[j] = s[j]
  <2>1. 1 \in Int /\ n \in Int /\ \A j \in 1 .. n : s[j] \in S
    OBVIOUS
  <2>2. /\ SubSeq(s, 1, n) \in Seq(S)
        /\ Len(SubSeq(s, 1, n)) = IF 1 <= n THEN n - 1 + 1 ELSE 0
        /\ \A j \in 1 .. n - 1 + 1 : SubSeq(s, 1, n)[j] = s[1 + j - 1]
    BY <2>1, SubSeqProperties
  <2>3. \A j \in 1 .. n : 1 + j - 1 = j
    OBVIOUS
  <2> QED
    BY <2>2, <2>3
<1> QED
  BY <1>1, SeqEqual

Start(c, n) == SubSeq(Bypasses(c), 1, n)

\* The rules of a chain, one after the other.
LEMMA StartsAre ==
  /\ Start("OUTPUT", 0) = <<>>
  /\ Start("OUTPUT", 1) = <<"uid 0 RETURN">>
  /\ Start("OUTPUT", 2) = <<"uid 0 RETURN", "RETURN">>
  /\ Start("OUTPUT", 3) = <<"uid 0 RETURN", "RETURN", "REDIRECT">>
  /\ Start("PREROUTING", 0) = <<>>
  /\ Start("PREROUTING", 1) = <<"RETURN">>
  /\ Start("PREROUTING", 2) = <<"RETURN", "REDIRECT">>
  /\ \A n \in 0 .. 3 : Start("OUTPUT", n) # Absent
  /\ \A n \in 0 .. 2 : Start("PREROUTING", n) # Absent
<1> DEFINE u == "uid 0 RETURN"
           b == "RETURN"
           r == "REDIRECT"
<1>1. u \in Rules /\ b \in Rules /\ r \in Rules
  BY DEF Rules
<1>2. Bypasses("OUTPUT") = <<u, b, r>> /\ Bypasses("PREROUTING") = <<b, r>>
  BY DEF Bypasses
<1> HIDE DEF u, b, r
<1>3. SubSeq(<<u, b, r>>, 1, 0) = <<>>
  <2> DEFINE s == <<u, b, r>>
             v == <<>>
  <2>1. s \in Seq(Rules) /\ v \in Seq(Rules)
    BY <1>1
  <2>2. Len(s) = 3 /\ Len(v) = 0 /\ \A j \in 1 .. 0 : v[j] = s[j]
    OBVIOUS
  <2> HIDE DEF s, v
  <2>3. SubSeq(s, 1, 0) = v
    BY <2>1, <2>2, StartIs
  <2> QED
    BY <2>3 DEF s, v
<1>4. SubSeq(<<u, b, r>>, 1, 1) = <<u>>
  <2> DEFINE s == <<u, b, r>>
             v == <<u>>
  <2>1. s \in Seq(Rules) /\ v \in Seq(Rules)
    BY <1>1
  <2>2. Len(s) = 3 /\ Len(v) = 1 /\ \A j \in 1 .. 1 : v[j] = s[j]
    OBVIOUS
  <2> HIDE DEF s, v
  <2>3. SubSeq(s, 1, 1) = v
    BY <2>1, <2>2, StartIs
  <2> QED
    BY <2>3 DEF s, v
<1>5. SubSeq(<<u, b, r>>, 1, 2) = <<u, b>>
  <2> DEFINE s == <<u, b, r>>
             v == <<u, b>>
  <2>1. s \in Seq(Rules) /\ v \in Seq(Rules)
    BY <1>1
  <2>2. Len(s) = 3 /\ Len(v) = 2 /\ \A j \in 1 .. 2 : v[j] = s[j]
    OBVIOUS
  <2> HIDE DEF s, v
  <2>3. SubSeq(s, 1, 2) = v
    BY <2>1, <2>2, StartIs
  <2> QED
    BY <2>3 DEF s, v
<1>6. SubSeq(<<u, b, r>>, 1, 3) = <<u, b, r>>
  <2> DEFINE s == <<u, b, r>>
             v == <<u, b, r>>
  <2>1. s \in Seq(Rules) /\ v \in Seq(Rules)
    BY <1>1
  <2>2. Len(s) = 3 /\ Len(v) = 3 /\ \A j \in 1 .. 3 : v[j] = s[j]
    OBVIOUS
  <2> HIDE DEF s, v
  <2>3. SubSeq(s, 1, 3) = v
    BY <2>1, <2>2, StartIs
  <2> QED
    BY <2>3 DEF s, v
<1>7. SubSeq(<<b, r>>, 1, 0) = <<>>
  <2> DEFINE s == <<b, r>>
             v == <<>>
  <2>1. s \in Seq(Rules) /\ v \in Seq(Rules)
    BY <1>1
  <2>2. Len(s) = 2 /\ Len(v) = 0 /\ \A j \in 1 .. 0 : v[j] = s[j]
    OBVIOUS
  <2> HIDE DEF s, v
  <2>3. SubSeq(s, 1, 0) = v
    BY <2>1, <2>2, StartIs
  <2> QED
    BY <2>3 DEF s, v
<1>8. SubSeq(<<b, r>>, 1, 1) = <<b>>
  <2> DEFINE s == <<b, r>>
             v == <<b>>
  <2>1. s \in Seq(Rules) /\ v \in Seq(Rules)
    BY <1>1
  <2>2. Len(s) = 2 /\ Len(v) = 1 /\ \A j \in 1 .. 1 : v[j] = s[j]
    OBVIOUS
  <2> HIDE DEF s, v
  <2>3. SubSeq(s, 1, 1) = v
    BY <2>1, <2>2, StartIs
  <2> QED
    BY <2>3 DEF s, v
<1>9. SubSeq(<<b, r>>, 1, 2) = <<b, r>>
  <2> DEFINE s == <<b, r>>
             v == <<b, r>>
  <2>1. s \in Seq(Rules) /\ v \in Seq(Rules)
    BY <1>1
  <2>2. Len(s) = 2 /\ Len(v) = 2 /\ \A j \in 1 .. 2 : v[j] = s[j]
    OBVIOUS
  <2> HIDE DEF s, v
  <2>3. SubSeq(s, 1, 2) = v
    BY <2>1, <2>2, StartIs
  <2> QED
    BY <2>3 DEF s, v
<1>10. /\ <<>> # Absent /\ <<u>> # Absent /\ <<u, b>> # Absent
       /\ <<u, b, r>> # Absent /\ <<b>> # Absent /\ <<b, r>> # Absent
  <2>1. /\ <<>> \in Seq(Rules) /\ <<u>> \in Seq(Rules)
        /\ <<u, b>> \in Seq(Rules) /\ <<u, b, r>> \in Seq(Rules)
        /\ <<b>> \in Seq(Rules) /\ <<b, r>> \in Seq(Rules)
    BY <1>1
  <2> QED
    BY <2>1, ValuesAssumption
<1>11. /\ Start("OUTPUT", 0) = <<>>
       /\ Start("OUTPUT", 1) = <<u>>
       /\ Start("OUTPUT", 2) = <<u, b>>
       /\ Start("OUTPUT", 3) = <<u, b, r>>
       /\ Start("PREROUTING", 0) = <<>>
       /\ Start("PREROUTING", 1) = <<b>>
       /\ Start("PREROUTING", 2) = <<b, r>>
  BY <1>2, <1>3, <1>4, <1>5, <1>6, <1>7, <1>8, <1>9 DEF Start
<1>12. ASSUME NEW n \in 0 .. 3
       PROVE  Start("OUTPUT", n) # Absent
  <2>1. n = 0 \/ n = 1 \/ n = 2 \/ n = 3
    OBVIOUS
  <2> QED
    BY <1>10, <1>11, <2>1
<1>13. ASSUME NEW n \in 0 .. 2
       PROVE  Start("PREROUTING", n) # Absent
  <2>1. n = 0 \/ n = 1 \/ n = 2
    OBVIOUS
  <2> QED
    BY <1>10, <1>11, <2>1
<1> QED
  BY <1>11, <1>12, <1>13 DEF u, b, r

\* A rule appended to the start of a chain.
LEMMA Appended ==
  ASSUME NEW S, NEW s \in Seq(S), NEW e \in S, NEW v \in Seq(S),
         Len(v) = Len(s) + 1, \A j \in 1 .. Len(s) : v[j] = s[j],
         v[Len(s) + 1] = e
  PROVE  Append(s, e) = v
<1>1. /\ Append(s, e) \in Seq(S) /\ Len(Append(s, e)) = Len(s) + 1
      /\ \A j \in 1 .. Len(s) : Append(s, e)[j] = s[j]
      /\ Append(s, e)[Len(s) + 1] = e
  BY AppendProperties
<1>2. ASSUME NEW j \in 1 .. Len(s) + 1 PROVE Append(s, e)[j] = v[j]
  <2>1. j \in 1 .. Len(s) \/ j = Len(s) + 1
    OBVIOUS
  <2> QED
    BY <1>1, <2>1
<1> QED
  BY <1>1, <1>2, SeqEqual

\* Each append of Fill makes the start of its chain one rule longer.
LEMMA StartsGrow ==
  /\ Append(Start("OUTPUT", 0), "uid 0 RETURN") = Start("OUTPUT", 1)
  /\ Append(Start("OUTPUT", 1), "RETURN") = Start("OUTPUT", 2)
  /\ Append(Start("OUTPUT", 2), "REDIRECT") = Start("OUTPUT", 3)
  /\ Append(Start("PREROUTING", 0), "RETURN") = Start("PREROUTING", 1)
  /\ Append(Start("PREROUTING", 1), "REDIRECT") = Start("PREROUTING", 2)
<1> DEFINE u == "uid 0 RETURN"
           b == "RETURN"
           r == "REDIRECT"
<1>1. /\ Start("OUTPUT", 0) = <<>> /\ Start("OUTPUT", 1) = <<u>>
      /\ Start("OUTPUT", 2) = <<u, b>> /\ Start("OUTPUT", 3) = <<u, b, r>>
      /\ Start("PREROUTING", 0) = <<>> /\ Start("PREROUTING", 1) = <<b>>
      /\ Start("PREROUTING", 2) = <<b, r>>
  BY StartsAre
<1>9. u \in Rules /\ b \in Rules /\ r \in Rules
  BY DEF Rules
<1> HIDE DEF u, b, r
<1>2. Append(<<>>, u) = <<u>>
  <2> DEFINE s == <<>>
             v == <<u>>
  <2>1. s \in Seq(Rules) /\ v \in Seq(Rules) /\ u \in Rules
    BY <1>9
  <2>2. Len(v) = Len(s) + 1 /\ \A j \in 1 .. Len(s) : v[j] = s[j]
    OBVIOUS
  <2>3. v[Len(s) + 1] = u
    OBVIOUS
  <2> HIDE DEF s, v
  <2>4. Append(s, u) = v
    BY <2>1, <2>2, <2>3, Appended
  <2> QED
    BY <2>4 DEF s, v
<1>3. Append(<<u>>, b) = <<u, b>>
  <2> DEFINE s == <<u>>
             v == <<u, b>>
  <2>1. s \in Seq(Rules) /\ v \in Seq(Rules) /\ b \in Rules
    BY <1>9
  <2>2. Len(v) = Len(s) + 1 /\ \A j \in 1 .. Len(s) : v[j] = s[j]
    OBVIOUS
  <2>3. v[Len(s) + 1] = b
    OBVIOUS
  <2> HIDE DEF s, v
  <2>4. Append(s, b) = v
    BY <2>1, <2>2, <2>3, Appended
  <2> QED
    BY <2>4 DEF s, v
<1>4. Append(<<u, b>>, r) = <<u, b, r>>
  <2> DEFINE s == <<u, b>>
             v == <<u, b, r>>
  <2>1. s \in Seq(Rules) /\ v \in Seq(Rules) /\ r \in Rules
    BY <1>9
  <2>2. Len(v) = Len(s) + 1 /\ \A j \in 1 .. Len(s) : v[j] = s[j]
    OBVIOUS
  <2>3. v[Len(s) + 1] = r
    OBVIOUS
  <2> HIDE DEF s, v
  <2>4. Append(s, r) = v
    BY <2>1, <2>2, <2>3, Appended
  <2> QED
    BY <2>4 DEF s, v
<1>5. Append(<<>>, b) = <<b>>
  <2> DEFINE s == <<>>
             v == <<b>>
  <2>1. s \in Seq(Rules) /\ v \in Seq(Rules) /\ b \in Rules
    BY <1>9
  <2>2. Len(v) = Len(s) + 1 /\ \A j \in 1 .. Len(s) : v[j] = s[j]
    OBVIOUS
  <2>3. v[Len(s) + 1] = b
    OBVIOUS
  <2> HIDE DEF s, v
  <2>4. Append(s, b) = v
    BY <2>1, <2>2, <2>3, Appended
  <2> QED
    BY <2>4 DEF s, v
<1>6. Append(<<b>>, r) = <<b, r>>
  <2> DEFINE s == <<b>>
             v == <<b, r>>
  <2>1. s \in Seq(Rules) /\ v \in Seq(Rules) /\ r \in Rules
    BY <1>9
  <2>2. Len(v) = Len(s) + 1 /\ \A j \in 1 .. Len(s) : v[j] = s[j]
    OBVIOUS
  <2>3. v[Len(s) + 1] = r
    OBVIOUS
  <2> HIDE DEF s, v
  <2>4. Append(s, r) = v
    BY <2>1, <2>2, <2>3, Appended
  <2> QED
    BY <2>4 DEF s, v
<1> QED
  BY <1>1, <1>2, <1>3, <1>4, <1>5, <1>6 DEF u, b, r

\* The next command of an Apply, by how many it has got through.
LEMMA BuildHead ==
  ASSUME TypeOK, ProgramInv, NEW t \in Tunnels, phase[t] = "apply",
         todo[t] # <<>>, Built(t) >= 0
  PROVE  LET n == Built(t)
             cmd == Head(todo[t])
         IN  /\ n \in 0 .. 11 /\ InApply(t)
             /\ n = 0 => cmd = Cmd("-N", "OUTPUT")
             /\ n = 1 => cmd = Cmd("-F", "OUTPUT")
             /\ n = 2 => cmd = Cmd("-N", "PREROUTING")
             /\ n = 3 => cmd = Cmd("-F", "PREROUTING")
             /\ n = 4 => cmd = Cmd("-A", <<"OUTPUT", "uid 0 RETURN">>)
             /\ n = 5 => cmd = Cmd("-A", <<"OUTPUT", "RETURN">>)
             /\ n = 6 => cmd = Cmd("-A", <<"OUTPUT", "REDIRECT">>)
             /\ n = 7 => cmd = Cmd("-A", <<"PREROUTING", "RETURN">>)
             /\ n = 8 => cmd = Cmd("-A", <<"PREROUTING", "REDIRECT">>)
             /\ n = 9 => cmd = Ins(OutputJump("OUTPUT"))
             /\ n = 10 => \E i \in Ifaces : /\ cfg[t].ifaces = <<i>>
                                            /\ cmd = Ins(<<i, "PREROUTING">>)
             /\ n = 11 => cmd = Ins(Nil)
<1> DEFINE k == cfg[t]
           n == Built(t)
           s == Build(k)
<1>1. /\ k \in Configs /\ n \in Int /\ n <= 11 /\ InApply(t)
      /\ Head(todo[t]) = s[n + 1] /\ (n >= 10 => k.hotspot)
  BY NextBuilt
<1>2. PICK i \in Ifaces : k.ifaces = <<i>>
  BY <1>1, ConfigIs
<1>3. /\ s[1] = Cmd("-N", "OUTPUT") /\ s[2] = Cmd("-F", "OUTPUT")
      /\ s[3] = Cmd("-N", "PREROUTING") /\ s[4] = Cmd("-F", "PREROUTING")
      /\ s[5] = Cmd("-A", <<"OUTPUT", "uid 0 RETURN">>)
      /\ s[6] = Cmd("-A", <<"OUTPUT", "RETURN">>)
      /\ s[7] = Cmd("-A", <<"OUTPUT", "REDIRECT">>)
      /\ s[8] = Cmd("-A", <<"PREROUTING", "RETURN">>)
      /\ s[9] = Cmd("-A", <<"PREROUTING", "REDIRECT">>)
      /\ s[10] = Ins(OutputJump("OUTPUT"))
      /\ k.hotspot => s[11] = Ins(<<i, "PREROUTING">>) /\ s[12] = Ins(Nil)
  BY <1>1, <1>2, BuildAt
<1> DEFINE h == Head(todo[t])
<1>4. n \in 0 .. 11 /\ h = s[n + 1]
  BY <1>1
<1> HIDE DEF s, n, h
<1>8. /\ n = 0 => h = s[1]
      /\ n = 1 => h = s[2]
      /\ n = 2 => h = s[3]
      /\ n = 3 => h = s[4]
      /\ n = 4 => h = s[5]
      /\ n = 5 => h = s[6]
      /\ n = 6 => h = s[7]
      /\ n = 7 => h = s[8]
      /\ n = 8 => h = s[9]
      /\ n = 9 => h = s[10]
      /\ n = 10 => h = s[11]
      /\ n = 11 => h = s[12]
  BY <1>4
<1>5. /\ n = 0 => h = Cmd("-N", "OUTPUT")
      /\ n = 1 => h = Cmd("-F", "OUTPUT")
      /\ n = 2 => h = Cmd("-N", "PREROUTING")
      /\ n = 3 => h = Cmd("-F", "PREROUTING")
      /\ n = 4 => h = Cmd("-A", <<"OUTPUT", "uid 0 RETURN">>)
      /\ n = 5 => h = Cmd("-A", <<"OUTPUT", "RETURN">>)
      /\ n = 6 => h = Cmd("-A", <<"OUTPUT", "REDIRECT">>)
      /\ n = 7 => h = Cmd("-A", <<"PREROUTING", "RETURN">>)
      /\ n = 8 => h = Cmd("-A", <<"PREROUTING", "REDIRECT">>)
  BY <1>3, <1>8, Zenon
<1>9. n = 10 \/ n = 11 => k.hotspot
  <2>1. n = 10 \/ n = 11 => n >= 10
    OBVIOUS
  <2> QED
    BY <1>1, <2>1
<1>6. /\ n = 9 => h = Ins(OutputJump("OUTPUT"))
      /\ n = 10 => h = Ins(<<i, "PREROUTING">>)
      /\ n = 11 => h = Ins(Nil)
  BY <1>3, <1>8, <1>9, Zenon
<1>7. n = 10 => \E j \in Ifaces : /\ cfg[t].ifaces = <<j>>
                                 /\ h = Ins(<<j, "PREROUTING">>)
  BY <1>2, <1>6, Zenon
<1> QED
  BY <1>1, <1>4, <1>5, <1>6, <1>7, Zenon DEF n, h

\* A chain that is filled is there.
LEMMA FullIs ==
  /\ Filled("OUTPUT", 3) => chain["OUTPUT"] # Absent
  /\ Filled("PREROUTING", 2) => chain["PREROUTING"] # Absent
<1>1. 3 \in 0 .. 3 /\ 2 \in 0 .. 2
  OBVIOUS
<1>2. Start("OUTPUT", 3) # Absent /\ Start("PREROUTING", 2) # Absent
  BY <1>1, StartsAre, Zenon
<1> QED
  BY <1>2 DEF Filled, Start

\* Every step keeps CalmInv: an undisturbed Apply is refused nothing that it
\* remembers.
LEMMA CalmStep ==
  ASSUME TypeOK, ProgramInv, BuiltInv, CalmInv, [Next]_vars
  PROVE  CalmInv'
<1>1. ASSUME NEW a \in Actors, Run(a), faults' = 0
      PROVE  fatal' \subseteq touched'
  <2> DEFINE cmd == Head(todo[a])
  <2>1. /\ todo[a] # <<>> /\ cmd \in Commands
        /\ touched' = touched
             \cup {t \in Tunnels \ {a} : phase[t] \in Installing}
    BY <1>1, RunIs
  <2>2. /\ faults = 0
        /\ \/ fatal' = fatal
           \/ Refused(cmd) /\ fatal' \in Heard(a, cmd, FALSE)
    <3>1. faults \in Nat
      BY BoundsAssumption DEF TypeOK
    <3>2. faults' = faults \/ faults' = faults + 1
      BY <1>1, RunChanges, Zenon
    <3>3. faults = 0
      BY <1>1, <3>1, <3>2
    <3>4. faults' # faults + 1
      BY <1>1, <3>3
    <3>5. \/ fatal' = fatal
          \/ Refused(cmd) /\ fatal' \in Heard(a, cmd, FALSE)
          \/ faults' = faults + 1
      BY <1>1, RunIs
    <3> QED
      BY <3>3, <3>4, <3>5
  <2>3. fatal \subseteq touched
    BY <2>2 DEF CalmInv
  <2> SUFFICES ASSUME fatal' # fatal, a \notin touched
               PROVE  FALSE
    <3>1. fatal' = fatal \/ fatal' = fatal \cup {a}
      BY <1>1, RunChanges
    <3> QED
      BY <2>1, <2>3, <3>1
  <2>4. Refused(cmd) /\ InApply(a) /\ cmd.op = "-I"
    BY <2>2 DEF Heard
  <2>5. a \in Tunnels /\ phase[a] = "apply" /\ a \notin fatal
    BY <2>3, <2>4 DEF InApply
  <2>6. Built(a) \in Int /\ Built(a) >= 0
    BY <2>1, <2>4, <2>5, NextBuilt
  <2>7. /\ Built(a) >= 7 => Filled("OUTPUT", 3)
        /\ Built(a) >= 9 => Filled("PREROUTING", 2)
    BY <2>5 DEF BuiltInv
  <2> HIDE DEF cmd
  <2>8. \A o \in {"-N", "-F", "-A"} : \A z : cmd # Cmd(o, z)
    <3>1. \A o, z : Cmd(o, z).op = o
      BY CmdIs
    <3> QED
      BY <2>4, <3>1
  <2> DEFINE n == Built(a)
  <2>13. /\ n \in 0 .. 11
         /\ n = 0 => cmd = Cmd("-N", "OUTPUT")
         /\ n = 1 => cmd = Cmd("-F", "OUTPUT")
         /\ n = 2 => cmd = Cmd("-N", "PREROUTING")
         /\ n = 3 => cmd = Cmd("-F", "PREROUTING")
         /\ n = 4 => cmd = Cmd("-A", <<"OUTPUT", "uid 0 RETURN">>)
         /\ n = 5 => cmd = Cmd("-A", <<"OUTPUT", "RETURN">>)
         /\ n = 6 => cmd = Cmd("-A", <<"OUTPUT", "REDIRECT">>)
         /\ n = 7 => cmd = Cmd("-A", <<"PREROUTING", "RETURN">>)
         /\ n = 8 => cmd = Cmd("-A", <<"PREROUTING", "REDIRECT">>)
         /\ n = 9 => cmd = Ins(OutputJump("OUTPUT"))
         /\ n = 10 => \E i \in Ifaces : /\ cfg[a].ifaces = <<i>>
                                         /\ cmd = Ins(<<i, "PREROUTING">>)
         /\ n = 11 => cmd = Ins(Nil)
    BY <2>1, <2>5, <2>6, BuildHead DEF cmd
  <2> HIDE DEF n
  <2>9. n = 9 \/ n = 10 \/ n = 11
    <3>1. \/ n = 0 \/ n = 1 \/ n = 2 \/ n = 3 \/ n = 4 \/ n = 5 \/ n = 6
          \/ n = 7 \/ n = 8 \/ n = 9 \/ n = 10 \/ n = 11
      <4>1. n \in 0 .. 11
        BY <2>13, Zenon
      <4> QED
        BY <4>1
    <3>2. \A z : cmd # Cmd("-N", z) /\ cmd # Cmd("-F", z) /\ cmd # Cmd("-A", z)
      BY <2>8
    <3> QED
      BY <3>1, <3>2, <2>13, Zenon
  <2>14. (n >= 7 => Filled("OUTPUT", 3)) /\ (n >= 9 => Filled("PREROUTING", 2))
    BY <2>7 DEF n
  <2>15. /\ Filled("OUTPUT", 3) => chain["OUTPUT"] # Absent
         /\ Filled("PREROUTING", 2) => chain["PREROUTING"] # Absent
    BY FullIs
  <2>16. chain["OUTPUT"] # Absent /\ chain["PREROUTING"] # Absent
    BY <2>9, <2>14, <2>15
  <2>10. CASE n = 9
    <3>1. cmd = Ins(OutputJump("OUTPUT"))
      BY <2>10, <2>13
    <3>2. OutputJump("OUTPUT") \in Jumps /\ OutputJump("OUTPUT")[2] = "OUTPUT"
      BY Typed DEF Jumps, OutputJump
    <3>3. chain["OUTPUT"] = Absent
      BY <2>4, <3>1, <3>2, InsRuns
    <3> QED
      BY <2>16, <3>3
  <2>11. CASE n = 10
    <3>1. PICK i \in Ifaces : cmd = Ins(<<i, "PREROUTING">>)
      BY <2>11, <2>13
    <3>2. <<i, "PREROUTING">> \in Jumps /\ <<i, "PREROUTING">>[2] = "PREROUTING"
      BY Typed DEF Jumps
    <3>3. chain["PREROUTING"] = Absent
      BY <2>4, <3>1, <3>2, InsRuns
    <3> QED
      BY <2>16, <3>3
  <2>12. CASE n = 11
    <3>1. cmd = Ins(Nil)
      BY <2>12, <2>13
    <3> QED
      BY <2>4, <3>1 DEF Ins, Cmd
  <2> QED
    BY <2>9, <2>10, <2>11, <2>12
<1>2. ASSUME NEW a \in Actors, Run(a) PROVE CalmInv'
  BY <1>1, <1>2 DEF CalmInv
<1>3. ASSUME faults' = faults, fatal' = {} \/ (fatal' = fatal /\ touched' = touched)
      PROVE  CalmInv'
  BY <1>3 DEF CalmInv
<1>4. ASSUME NEW t \in Tunnels, Stop(t) PROVE CalmInv'
  BY <1>4 DEF Stop, CalmInv
<1>5. ASSUME NEW t \in Tunnels, NEW k \in Configs, Listen(t, k) PROVE CalmInv'
  BY <1>3, <1>5 DEF Listen
<1>6. ASSUME NEW t \in Tunnels, StartApply(t) \/ Applied(t) PROVE CalmInv'
  BY <1>3, <1>6 DEF StartApply, Applied
<1>7. ASSUME NEW a \in Actors, Cleaned(a) PROVE CalmInv'
  BY <1>3, <1>7 DEF Cleaned
<1>8. ASSUME NetClean \/ Kill PROVE CalmInv'
  <2>1. CASE NetClean
    BY <1>3, <2>1 DEF NetClean
  <2>2. CASE Kill
    <3>1. faults' = faults /\ fatal' = {}
      BY <2>2 DEF Kill
    <3> QED
      BY <3>1 DEF CalmInv
  <2> QED
    BY <1>8, <2>1, <2>2
<1>9. CASE UNCHANGED vars
  BY <1>3, <1>9 DEF vars
<1> QED
  BY <1>2, <1>4, <1>5, <1>6, <1>7, <1>8, <1>9 DEF Next

\* BuiltInv of one tunnel: n commands of Apply after its Cleanup have made of
\* the chains ch and the jumps hk what they make.
Made(n, ch, hk, ifaces) ==
    /\ n = 1 => ch["OUTPUT"] # Absent
    /\ n \in 2 .. 4 => ch["OUTPUT"] = Start("OUTPUT", 0)
    /\ n \in 5 .. 6 => ch["OUTPUT"] = Start("OUTPUT", n - 4)
    /\ n >= 7 => ch["OUTPUT"] = Start("OUTPUT", 3)
    /\ n = 3 => ch["PREROUTING"] # Absent
    /\ n \in 4 .. 7 => ch["PREROUTING"] = Start("PREROUTING", 0)
    /\ n = 8 => ch["PREROUTING"] = Start("PREROUTING", 1)
    /\ n >= 9 => ch["PREROUTING"] = Start("PREROUTING", 2)
    /\ n >= 10 => hk[OutputJump("OUTPUT")] > 0
    /\ n >= 11 => \A i \in ToSet(ifaces) : hk[<<i, "PREROUTING">>] > 0

\* BuiltInv, with Made for what it says of one tunnel.
LEMMA MadeIs ==
  /\ BuiltInv <=>
       \A t \in (Tunnels \ touched) \ fatal : phase[t] \in {"apply", "on"} =>
         Made(Built(t), chain, hooks, cfg[t].ifaces)
  /\ BuiltInv' <=>
       \A t \in (Tunnels \ touched') \ fatal' : phase'[t] \in {"apply", "on"} =>
         Made(Built(t)', chain', hooks', cfg'[t].ifaces)
BY DEF BuiltInv, Made, Filled, Start

\* What the next command of an Apply leaves, if it does not fail, when the
\* chain it is about is there.
LEMMA CommandMakes ==
  ASSUME TypeOK, NEW cmd \in Commands,
         \/ ~Refused(cmd) /\ Effect(cmd)
         \/ Refused(cmd) /\ tableVars' = tableVars
  PROVE  /\ \A c \in Chains : cmd = Cmd("-N", c) =>
              /\ chain'[c] # Absent /\ hooks' = hooks
              /\ \A d \in Chains \ {c} : chain'[d] = chain[d]
         /\ \A c \in Chains : cmd = Cmd("-F", c) /\ chain[c] # Absent =>
              /\ chain'[c] = <<>> /\ hooks' = hooks
              /\ \A d \in Chains \ {c} : chain'[d] = chain[d]
         /\ \A c \in Chains, r \in Rules :
              cmd = Cmd("-A", <<c, r>>) /\ chain[c] # Absent =>
                /\ chain'[c] = Append(chain[c], r) /\ hooks' = hooks
                /\ \A d \in Chains \ {c} : chain'[d] = chain[d]
         /\ \A x \in Hooks : cmd = Ins(x) /\ chain[x[2]] # Absent =>
              /\ chain' = chain /\ hooks'[x] > 0
              /\ \A y \in Hooks : hooks'[y] >= hooks[y]
<1>1. ASSUME NEW c \in Chains, cmd = Cmd("-N", c)
      PROVE  /\ chain'[c] # Absent /\ hooks' = hooks
             /\ \A d \in Chains \ {c} : chain'[d] = chain[d]
  <2>1. Refused(cmd) <=> chain[c] # Absent
    BY <1>1, ChainRuns
  <2>2. CASE Refused(cmd) /\ tableVars' = tableVars
    BY <2>1, <2>2 DEF tableVars
  <2>3. CASE ~Refused(cmd) /\ Effect(cmd)
    <3>1. chain' = [chain EXCEPT ![c] = <<>>] /\ hooks' = hooks
      <4>1. "-N" \in {"-F", "-N", "-X"} /\ "-N" # "-X"
        OBVIOUS
      <4> QED
        BY <1>1, <2>3, <4>1, ChainRuns
    <3>2. <<>> \in Seq(Rules)
      OBVIOUS
    <3>3. <<>> # Absent
      BY <3>2, ValuesAssumption
    <3> QED
      BY <3>1, <3>3 DEF TypeOK
  <2> QED
    BY <2>2, <2>3
<1>2. ASSUME NEW c \in Chains, cmd = Cmd("-F", c), chain[c] # Absent
      PROVE  /\ chain'[c] = <<>> /\ hooks' = hooks
             /\ \A d \in Chains \ {c} : chain'[d] = chain[d]
  <2>1. ~Refused(cmd) /\ Effect(cmd)
    BY <1>2, ChainRuns
  <2>2. chain' = [chain EXCEPT ![c] = <<>>] /\ hooks' = hooks
    <3>1. "-F" \in {"-F", "-N", "-X"} /\ "-F" # "-X"
      OBVIOUS
    <3> QED
      BY <1>2, <2>1, <3>1, ChainRuns
  <2> QED
    BY <2>2 DEF TypeOK
<1>3. ASSUME NEW c \in Chains, NEW r \in Rules, cmd = Cmd("-A", <<c, r>>),
             chain[c] # Absent
      PROVE  /\ chain'[c] = Append(chain[c], r) /\ hooks' = hooks
             /\ \A d \in Chains \ {c} : chain'[d] = chain[d]
  <2>1. ~Refused(cmd) /\ Effect(cmd)
    BY <1>3, AddRuns
  <2>2. chain' = [chain EXCEPT ![c] = Append(chain[c], r)] /\ hooks' = hooks
    BY <1>3, <2>1, AddRuns
  <2> QED
    BY <2>2 DEF TypeOK
<1>4. ASSUME NEW x \in Hooks, cmd = Ins(x), chain[x[2]] # Absent
      PROVE  /\ chain' = chain /\ hooks'[x] > 0
             /\ \A y \in Hooks : hooks'[y] >= hooks[y]
  <2>1. \A y \in Hooks : y \in Jumps /\ y # Nil
    BY ValuesAssumption DEF Jumps
  <2>2. ~Refused(cmd) /\ Effect(cmd)
    BY <1>4, <2>1, InsRuns
  <2>3. /\ chain' = chain
        /\ \A y \in Jumps : Count(y)' = IF y = x THEN Count(y) + 1 ELSE Count(y)
    BY <1>4, <2>1, <2>2, InsRuns
  <2>4. \A y \in Hooks : Count(y) = hooks[y] /\ Count(y)' = hooks'[y]
    BY <2>1 DEF Count
  <2>5. \A y \in Hooks : hooks[y] \in Nat
    BY DEF TypeOK
  <2> QED
    BY <2>1, <2>3, <2>4, <2>5
<1> QED
  BY <1>1, <1>2, <1>3, <1>4

\* A command of an undisturbed Apply makes what the next stage has.
LEMMA BuiltRun ==
  ASSUME TypeOK, ProgramInv, BuiltInv, NEW t \in Tunnels, Run(t),
         phase[t] = "apply", t \notin touched', t \notin fatal'
  PROVE  Made(Built(t)', chain', hooks', cfg'[t].ifaces)
<1> DEFINE n == Built(t)
           cmd == Head(todo[t])
           is == cfg[t].ifaces
<1>1. /\ todo[t] # <<>> /\ cmd \in Commands /\ cfg' = cfg
      /\ touched \subseteq touched' /\ fatal \subseteq fatal'
  <2>1. todo[t] # <<>> /\ cmd \in Commands /\ cfg' = cfg
    BY RunIs, ActorsAre
  <2>2. touched \subseteq touched'
    BY RunIs, ActorsAre
  <2>3. fatal \subseteq fatal'
    BY RunChanges, ActorsAre
  <2> QED
    BY <2>1, <2>2, <2>3
<1>2. Made(n, chain, hooks, is)
  BY <1>1, MadeIs
<1>3. n \in Int /\ Built(t)' = n + 1
  <2>1. n \in Int
    BY <1>1, NextBuilt
  <2>2. Len(todo[t]) \in Nat /\ Len(todo'[t]) = Len(todo[t]) - 1
    <3>1. Len(todo'[t]) = Len(todo[t]) - 1
      BY RunLeaves, ActorsAre
    <3> QED
      BY <3>1, ActorsAre DEF TypeOK
  <2>3. Len(Build(cfg[t])) \in Nat
    <3>1. cfg[t] \in Configs
      BY DEF ProgramInv, Installing
    <3> QED
      BY <3>1, ApplyAt
  <2> QED
    BY <1>1, <2>1, <2>2, <2>3 DEF Built
<1>4. CASE n < 0
  BY <1>3, <1>4 DEF Made
<1>5. CASE n >= 0
  <2>1. /\ n \in 0 .. 11
        /\ n = 0 => cmd = Cmd("-N", "OUTPUT")
        /\ n = 1 => cmd = Cmd("-F", "OUTPUT")
        /\ n = 2 => cmd = Cmd("-N", "PREROUTING")
        /\ n = 3 => cmd = Cmd("-F", "PREROUTING")
        /\ n = 4 => cmd = Cmd("-A", <<"OUTPUT", "uid 0 RETURN">>)
        /\ n = 5 => cmd = Cmd("-A", <<"OUTPUT", "RETURN">>)
        /\ n = 6 => cmd = Cmd("-A", <<"OUTPUT", "REDIRECT">>)
        /\ n = 7 => cmd = Cmd("-A", <<"PREROUTING", "RETURN">>)
        /\ n = 8 => cmd = Cmd("-A", <<"PREROUTING", "REDIRECT">>)
        /\ n = 9 => cmd = Ins(OutputJump("OUTPUT"))
        /\ n = 10 => \E i \in Ifaces : /\ is = <<i>>
                                        /\ cmd = Ins(<<i, "PREROUTING">>)
        /\ n = 11 => cmd = Ins(Nil)
    BY <1>1, <1>5, BuildHead
  <2>2. InApply(t)
    BY <1>1, <1>5, BuildHead
  <2>3. \/ ~Refused(cmd) /\ Effect(cmd)
        \/ Refused(cmd) /\ tableVars' = tableVars
        \/ fatal' \in Heard(t, cmd, TRUE) /\ tableVars' = tableVars
    BY RunIs, ActorsAre
  <2>4. t \notin fatal /\ (fatal' \in Heard(t, cmd, TRUE) => cmd.op = "-I FORWARD")
    BY <1>1, <2>2 DEF Heard
  <2> HIDE DEF n, cmd, is
  <2>5. /\ "OUTPUT" \in Chains /\ "PREROUTING" \in Chains
        /\ "OUTPUT" # "PREROUTING"
        /\ "uid 0 RETURN" \in Rules /\ "RETURN" \in Rules /\ "REDIRECT" \in Rules
    BY DEF Chains, Rules
  <2>6. \A i \in Ifaces : <<i, "PREROUTING">> \in Hooks
    BY Typed
  <2>7. OutputJump("OUTPUT") \in Hooks /\ OutputJump("OUTPUT")[2] = "OUTPUT"
    BY Typed DEF OutputJump
  <2>8. CASE n = 11
    <3>1. cmd = Ins(Nil)
      BY <2>1, <2>8
    <3>2. chain' = chain /\ \A y \in Hooks : hooks'[y] = hooks[y]
      <4>1. CASE tableVars' = tableVars
        BY <4>1 DEF tableVars
      <4>2. CASE ~Refused(cmd) /\ Effect(cmd)
        <5>1. Nil \in Jumps /\ \A y \in Hooks : y \in Jumps /\ y # Nil
          BY ValuesAssumption DEF Jumps
        <5>2. /\ chain' = chain
              /\ \A y \in Jumps :
                   Count(y)' = IF y = Nil THEN Count(y) + 1 ELSE Count(y)
          BY <3>1, <4>2, <5>1, InsRuns
        <5> QED
          BY <5>1, <5>2 DEF Count
      <4> QED
        BY <2>3, <4>1, <4>2
    <3>3. PICK i \in Ifaces : is = <<i>>
      <4>1. cfg[t] \in Configs
        BY DEF ProgramInv, Installing
      <4> QED
        BY <4>1, ConfigIs DEF is
    <3>4. ToSet(is) = {i}
      BY <3>3 DEF ToSet
    <3>5. /\ chain["OUTPUT"] = Start("OUTPUT", 3)
          /\ chain["PREROUTING"] = Start("PREROUTING", 2)
          /\ hooks[OutputJump("OUTPUT")] > 0 /\ hooks[<<i, "PREROUTING">>] > 0
      BY <1>2, <2>8, <3>4 DEF Made
    <3>6. Made(12, chain', hooks', is)
      BY <2>6, <2>7, <3>2, <3>4, <3>5 DEF Made
    <3> QED
      BY <1>1, <1>3, <2>8, <3>6 DEF is
  <2>9. CASE n # 11
    <3>1. cmd.op # "-I FORWARD"
      <4>1. \A o, z : Cmd(o, z).op = o
        BY CmdIs
      <4>2. \A x \in Hooks : Ins(x).op = "-I"
        BY CmdIs, ValuesAssumption DEF Ins
      <4>3. \/ n = 0 \/ n = 1 \/ n = 2 \/ n = 3 \/ n = 4 \/ n = 5 \/ n = 6
            \/ n = 7 \/ n = 8 \/ n = 9 \/ n = 10
        <5>1. n \in 0 .. 11
          BY <2>1, Zenon
        <5> QED
          BY <2>9, <5>1
      <4>4. \A z : /\ Cmd("-N", z).op # "-I FORWARD" /\ Cmd("-F", z).op # "-I FORWARD"
                   /\ Cmd("-A", z).op # "-I FORWARD"
        BY <4>1
      <4>6. n = 0 => cmd.op # "-I FORWARD"
        BY <2>1, <4>4, Zenon
      <4>7. n = 1 => cmd.op # "-I FORWARD"
        BY <2>1, <4>4, Zenon
      <4>8. n = 2 => cmd.op # "-I FORWARD"
        BY <2>1, <4>4, Zenon
      <4>9. n = 3 => cmd.op # "-I FORWARD"
        BY <2>1, <4>4, Zenon
      <4>10. n = 4 => cmd.op # "-I FORWARD"
        BY <2>1, <4>4, Zenon
      <4>11. n = 5 => cmd.op # "-I FORWARD"
        BY <2>1, <4>4, Zenon
      <4>12. n = 6 => cmd.op # "-I FORWARD"
        BY <2>1, <4>4, Zenon
      <4>13. n = 7 => cmd.op # "-I FORWARD"
        BY <2>1, <4>4, Zenon
      <4>14. n = 8 => cmd.op # "-I FORWARD"
        BY <2>1, <4>4, Zenon
      <4>5. n = 9 \/ n = 10 => cmd.op = "-I"
        BY <2>1, <2>6, <2>7, <4>2, Zenon
      <4> QED
        <5>1. n = 9 \/ n = 10 => cmd.op # "-I FORWARD"
          BY <4>5
        <5> QED
          BY <4>3, <4>6, <4>7, <4>8, <4>9, <4>10, <4>11, <4>12, <4>13, <4>14,
             <5>1, Zenon
    <3>2. \/ ~Refused(cmd) /\ Effect(cmd)
          \/ Refused(cmd) /\ tableVars' = tableVars
      BY <2>3, <2>4, <3>1
    <3>3. /\ \A c \in Chains : cmd = Cmd("-N", c) =>
               /\ chain'[c] # Absent /\ hooks' = hooks
               /\ \A d \in Chains \ {c} : chain'[d] = chain[d]
          /\ \A c \in Chains : cmd = Cmd("-F", c) /\ chain[c] # Absent =>
               /\ chain'[c] = <<>> /\ hooks' = hooks
               /\ \A d \in Chains \ {c} : chain'[d] = chain[d]
          /\ \A c \in Chains, r \in Rules :
               cmd = Cmd("-A", <<c, r>>) /\ chain[c] # Absent =>
                 /\ chain'[c] = Append(chain[c], r) /\ hooks' = hooks
                 /\ \A d \in Chains \ {c} : chain'[d] = chain[d]
          /\ \A x \in Hooks : cmd = Ins(x) /\ chain[x[2]] # Absent =>
               /\ chain' = chain /\ hooks'[x] > 0
               /\ \A y \in Hooks : hooks'[y] >= hooks[y]
      BY <1>1, <3>2, CommandMakes DEF cmd
    <3> DEFINE co == chain["OUTPUT"]
               cp == chain["PREROUTING"]
               no == chain'["OUTPUT"]
               np == chain'["PREROUTING"]
               jo == OutputJump("OUTPUT")
    <3>4. /\ Start("OUTPUT", 0) = <<>> /\ Start("PREROUTING", 0) = <<>>
          /\ Start("OUTPUT", 0) # Absent /\ Start("OUTPUT", 1) # Absent
          /\ Start("OUTPUT", 2) # Absent /\ Start("OUTPUT", 3) # Absent
          /\ Start("PREROUTING", 0) # Absent /\ Start("PREROUTING", 1) # Absent
          /\ Start("PREROUTING", 2) # Absent
      <4>1. /\ 0 \in 0 .. 3 /\ 1 \in 0 .. 3 /\ 2 \in 0 .. 3 /\ 3 \in 0 .. 3
            /\ 0 \in 0 .. 2 /\ 1 \in 0 .. 2 /\ 2 \in 0 .. 2
        OBVIOUS
      <4> QED
        BY <4>1, StartsAre, Zenon
    <3>5. /\ n = 1 => co # Absent
          /\ n = 2 \/ n = 3 \/ n = 4 => co = Start("OUTPUT", 0)
          /\ n = 5 => co = Start("OUTPUT", 1)
          /\ n = 6 => co = Start("OUTPUT", 2)
          /\ n = 7 \/ n = 8 \/ n = 9 \/ n = 10 => co = Start("OUTPUT", 3)
          /\ n = 3 => cp # Absent
          /\ n = 4 \/ n = 5 \/ n = 6 \/ n = 7 => cp = Start("PREROUTING", 0)
          /\ n = 8 => cp = Start("PREROUTING", 1)
          /\ n = 9 \/ n = 10 => cp = Start("PREROUTING", 2)
          /\ n = 10 => hooks[jo] > 0
      BY <1>2 DEF Made
    <3>6. CASE n = 0
      <4>1. cmd = Cmd("-N", "OUTPUT")
        BY <2>1, <3>6, Zenon
      <4>2. no # Absent
        BY <2>5, <3>3, <3>4, <3>5, <3>6, <4>1
      <4>3. Made(1, chain', hooks', is)
        BY <4>2 DEF Made
      <4> QED
        BY <1>1, <1>3, <3>6, <4>3 DEF is
    <3>7. CASE n = 1
      <4>1. cmd = Cmd("-F", "OUTPUT")
        BY <2>1, <3>7, Zenon
      <4>2. no = Start("OUTPUT", 0)
        BY <2>5, <3>3, <3>4, <3>5, <3>7, <4>1
      <4>3. Made(2, chain', hooks', is)
        BY <4>2 DEF Made
      <4> QED
        BY <1>1, <1>3, <3>7, <4>3 DEF is
    <3>8. CASE n = 2
      <4>1. cmd = Cmd("-N", "PREROUTING")
        BY <2>1, <3>8, Zenon
      <4>2. no = Start("OUTPUT", 0) /\ np # Absent
        BY <2>5, <3>3, <3>4, <3>5, <3>8, <4>1
      <4>3. Made(3, chain', hooks', is)
        BY <4>2 DEF Made
      <4> QED
        BY <1>1, <1>3, <3>8, <4>3 DEF is
    <3>9. CASE n = 3
      <4>1. cmd = Cmd("-F", "PREROUTING")
        BY <2>1, <3>9, Zenon
      <4>2. no = Start("OUTPUT", 0) /\ np = Start("PREROUTING", 0)
        BY <2>5, <3>3, <3>4, <3>5, <3>9, <4>1
      <4>3. Made(4, chain', hooks', is)
        BY <4>2 DEF Made
      <4> QED
        BY <1>1, <1>3, <3>9, <4>3 DEF is
    <3>10. CASE n = 4
      <4>1. cmd = Cmd("-A", <<"OUTPUT", "uid 0 RETURN">>)
        BY <2>1, <3>10, Zenon
      <4>2. no = Start("OUTPUT", 1) /\ np = Start("PREROUTING", 0)
        BY <2>5, <3>3, <3>4, <3>5, <3>10, <4>1, StartsGrow
      <4>3. Made(5, chain', hooks', is)
        BY <4>2 DEF Made
      <4> QED
        BY <1>1, <1>3, <3>10, <4>3 DEF is
    <3>11. CASE n = 5
      <4>1. cmd = Cmd("-A", <<"OUTPUT", "RETURN">>)
        BY <2>1, <3>11, Zenon
      <4>2. no = Start("OUTPUT", 2) /\ np = Start("PREROUTING", 0)
        BY <2>5, <3>3, <3>4, <3>5, <3>11, <4>1, StartsGrow
      <4>3. Made(6, chain', hooks', is)
        BY <4>2 DEF Made
      <4> QED
        BY <1>1, <1>3, <3>11, <4>3 DEF is
    <3>12. CASE n = 6
      <4>1. cmd = Cmd("-A", <<"OUTPUT", "REDIRECT">>)
        BY <2>1, <3>12, Zenon
      <4>2. no = Start("OUTPUT", 3) /\ np = Start("PREROUTING", 0)
        BY <2>5, <3>3, <3>4, <3>5, <3>12, <4>1, StartsGrow
      <4>3. Made(7, chain', hooks', is)
        BY <4>2 DEF Made
      <4> QED
        BY <1>1, <1>3, <3>12, <4>3 DEF is
    <3>13. CASE n = 7
      <4>1. cmd = Cmd("-A", <<"PREROUTING", "RETURN">>)
        BY <2>1, <3>13, Zenon
      <4>2. no = Start("OUTPUT", 3) /\ np = Start("PREROUTING", 1)
        BY <2>5, <3>3, <3>4, <3>5, <3>13, <4>1, StartsGrow
      <4>3. Made(8, chain', hooks', is)
        BY <4>2 DEF Made
      <4> QED
        BY <1>1, <1>3, <3>13, <4>3 DEF is
    <3>14. CASE n = 8
      <4>1. cmd = Cmd("-A", <<"PREROUTING", "REDIRECT">>)
        BY <2>1, <3>14, Zenon
      <4>2. no = Start("OUTPUT", 3) /\ np = Start("PREROUTING", 2)
        BY <2>5, <3>3, <3>4, <3>5, <3>14, <4>1, StartsGrow
      <4>3. Made(9, chain', hooks', is)
        BY <4>2 DEF Made
      <4> QED
        BY <1>1, <1>3, <3>14, <4>3 DEF is
    <3>15. CASE n = 9
      <4>1. cmd = Ins(jo) /\ co # Absent
        BY <2>1, <3>4, <3>5, <3>15
      <4>2. chain' = chain /\ hooks'[jo] > 0
        BY <2>7, <3>3, <4>1
      <4>3. no = Start("OUTPUT", 3) /\ np = Start("PREROUTING", 2)
        BY <3>5, <3>15, <4>2
      <4>4. Made(10, chain', hooks', is)
        BY <4>2, <4>3 DEF Made
      <4> QED
        BY <1>1, <1>3, <3>15, <4>4 DEF is
    <3>16. CASE n = 10
      <4>1. PICK i \in Ifaces : is = <<i>> /\ cmd = Ins(<<i, "PREROUTING">>)
        BY <2>1, <3>16, Zenon
      <4> DEFINE ji == <<i, "PREROUTING">>
      <4>2. ji \in Hooks /\ ji[2] = "PREROUTING" /\ ToSet(is) = {i}
        BY <2>6, <4>1 DEF ToSet
      <4>3. cp # Absent
        BY <3>4, <3>5, <3>16
      <4>4. /\ chain' = chain /\ hooks'[ji] > 0
            /\ \A y \in Hooks : hooks'[y] >= hooks[y]
        BY <3>3, <4>1, <4>2, <4>3
      <4>5. no = Start("OUTPUT", 3) /\ np = Start("PREROUTING", 2)
        BY <3>5, <3>16, <4>4
      <4>6. hooks'[jo] > 0
        <5>1. hooks[jo] > 0 /\ hooks'[jo] >= hooks[jo]
          BY <2>7, <3>5, <3>16, <4>4
        <5>2. hooks[jo] \in Nat
          BY <2>7 DEF TypeOK
        <5>3. hooks'[jo] \in Nat
          <6>1. TypeOK'
            BY TypeStep, ActorsAre DEF Next
          <6> QED
            BY <2>7, <6>1 DEF TypeOK
        <5> QED
          BY <5>1, <5>2, <5>3
      <4>7. \A j \in ToSet(is) : hooks'[<<j, "PREROUTING">>] > 0
        BY <4>2, <4>4
      <4>8. Made(11, chain', hooks', is)
        BY <4>5, <4>6, <4>7 DEF Made
      <4> QED
        BY <1>1, <1>3, <3>16, <4>8 DEF is
    <3>17. \/ n = 0 \/ n = 1 \/ n = 2 \/ n = 3 \/ n = 4 \/ n = 5 \/ n = 6
           \/ n = 7 \/ n = 8 \/ n = 9 \/ n = 10
      <4>1. n \in 0 .. 11
        BY <2>1, Zenon
      <4> QED
        BY <2>9, <4>1
    <3> QED
      BY <3>6, <3>7, <3>8, <3>9, <3>10, <3>11, <3>12, <3>13, <3>14, <3>15,
         <3>16, <3>17
  <2> QED
    BY <2>8, <2>9
<1> QED
  BY <1>3, <1>4, <1>5

\* Every step keeps BuiltInv.
LEMMA BuiltStep ==
  ASSUME TypeOK, ProgramInv, BuiltInv, [Next]_vars
  PROVE  BuiltInv'
<1>1. \A t \in (Tunnels \ touched) \ fatal : phase[t] \in {"apply", "on"} =>
        Made(Built(t), chain, hooks, cfg[t].ifaces)
  BY MadeIs
\* It is enough to look at a tunnel that installs after the step.
<1>2. SUFFICES ASSUME NEW t \in (Tunnels \ touched') \ fatal',
                      phase'[t] \in {"apply", "on"}
               PROVE  Made(Built(t)', chain', hooks', cfg'[t].ifaces)
  BY MadeIs
<1>3. t \in Actors /\ t \in Tunnels
  BY ActorsAre
\* Nothing happens to it.
<1>4. ASSUME tableVars' = tableVars, todo'[t] = todo[t], cfg'[t] = cfg[t],
             phase[t] \in {"apply", "on"}, t \notin touched, t \notin fatal
      PROVE  Made(Built(t)', chain', hooks', cfg'[t].ifaces)
  <2>1. Built(t)' = Built(t) /\ chain' = chain /\ hooks' = hooks
    BY <1>4 DEF Built, tableVars
  <2> QED
    BY <1>1, <1>4, <2>1
<1>5. ASSUME NEW u \in Tunnels, NEW k \in Configs, Listen(u, k)
      PROVE  Made(Built(t)', chain', hooks', cfg'[t].ifaces)
  <2>1. /\ Goto(u, "clean", Cleanup(k.ifaces)) /\ tableVars' = tableVars
        /\ fatal' = fatal /\ touched' = touched
        /\ \A v \in Tunnels \ {u} : cfg'[v] = cfg[v]
    BY <1>5 DEF Listen, TypeOK
  <2>2. /\ phase'[u] = "clean"
        /\ \A b \in Actors \ {u} : phase'[b] = phase[b] /\ todo'[b] = todo[b]
    BY <2>1, ActorsAre, Goes
  <2>3. t # u
    BY <1>2, <2>2
  <2> QED
    BY <1>2, <1>3, <1>4, <2>1, <2>2, <2>3
<1>6. ASSUME NEW u \in Tunnels, StartApply(u)
      PROVE  Made(Built(t)', chain', hooks', cfg'[t].ifaces)
  <2>1. /\ Goto(u, "apply", Apply(cfg[u])) /\ tableVars' = tableVars
        /\ fatal' = fatal /\ touched' = touched /\ cfg' = cfg
        /\ phase[u] = "clean"
    BY <1>6 DEF StartApply
  <2>2. /\ phase'[u] = "apply" /\ todo'[u] = Apply(cfg[u])
        /\ \A b \in Actors \ {u} : phase'[b] = phase[b] /\ todo'[b] = todo[b]
    BY <2>1, ActorsAre, Goes
  <2>3. CASE t = u
    <3>1. cfg[u] \in Configs
      BY <2>1 DEF ProgramInv, Installing
    <3>2. /\ Len(Build(cfg[u])) \in Nat
          /\ Len(Apply(cfg[u])) = 10 + Len(Build(cfg[u]))
      <4>1. /\ Len(Build(cfg[u])) \in {10, 12}
            /\ Len(Apply(cfg[u])) = 10 + Len(Build(cfg[u]))
        BY <3>1, ApplyAt
      <4> QED
        BY <4>1
    <3>3. Built(t)' = Len(Build(cfg[u])) - Len(Apply(cfg[u]))
      BY <2>1, <2>2, <2>3 DEF Built
    <3>4. Built(t)' = 0 - 10
      BY <3>2, <3>3
    <3> QED
      BY <3>4 DEF Made
  <2>4. CASE t # u
    BY <1>2, <1>3, <1>4, <2>1, <2>2, <2>4
  <2> QED
    BY <2>3, <2>4
<1>7. ASSUME NEW u \in Tunnels, Applied(u)
      PROVE  Made(Built(t)', chain', hooks', cfg'[t].ifaces)
  <2>1. /\ Goto(u, "on", <<>>) /\ tableVars' = tableVars
        /\ fatal' = fatal /\ touched' = touched /\ cfg' = cfg
        /\ phase[u] = "apply" /\ todo[u] = <<>>
    BY <1>7 DEF Applied
  <2>2. /\ phase'[u] = "on" /\ todo'[u] = <<>>
        /\ \A b \in Actors \ {u} : phase'[b] = phase[b] /\ todo'[b] = todo[b]
    BY <2>1, ActorsAre, Goes
  <2> QED
    BY <1>2, <1>3, <1>4, <2>1, <2>2
<1>8. ASSUME NEW u \in Tunnels, Stop(u)
      PROVE  Made(Built(t)', chain', hooks', cfg'[t].ifaces)
  <2>1. /\ Goto(u, "stop", Cleanup(cfg[u].ifaces)) /\ tableVars' = tableVars
        /\ fatal' = fatal \ {u} /\ touched' = touched \ {u}
        /\ \A v \in Tunnels \ {u} : cfg'[v] = cfg[v]
    BY <1>8 DEF Stop, TypeOK
  <2>2. /\ phase'[u] = "stop"
        /\ \A b \in Actors \ {u} : phase'[b] = phase[b] /\ todo'[b] = todo[b]
    BY <2>1, ActorsAre, Goes
  <2>3. t # u
    BY <1>2, <2>2
  <2> QED
    BY <1>2, <1>3, <1>4, <2>1, <2>2, <2>3
<1>9. ASSUME NEW a \in Actors, Run(a)
      PROVE  Made(Built(t)', chain', hooks', cfg'[t].ifaces)
  <2>1. phase' = phase /\ todo[a] # <<>>
    BY <1>9, RunIs
  <2>2. a = t
    <3>1. touched' = touched \cup {u \in Tunnels \ {a} : phase[u] \in Installing}
      BY <1>9, RunIs
    <3> QED
      BY <1>2, <2>1, <3>1 DEF Installing
  <2>3. phase[t] = "apply"
    BY <1>2, <1>3, <2>1, <2>2 DEF ProgramInv
  <2> QED
    BY <1>2, <1>9, <2>2, <2>3, BuiltRun
<1>10. ASSUME NEW a \in Actors, Cleaned(a)
       PROVE  Made(Built(t)', chain', hooks', cfg'[t].ifaces)
  <2>1. /\ Goto(a, "off", <<>>) /\ tableVars' = tableVars
        /\ fatal' = fatal /\ touched' = touched /\ cfg' = cfg
    BY <1>10 DEF Cleaned
  <2>2. /\ phase'[a] = "off"
        /\ \A b \in Actors \ {a} : phase'[b] = phase[b] /\ todo'[b] = todo[b]
    BY <2>1, Goes
  <2>3. t # a
    BY <1>2, <2>2
  <2> QED
    BY <1>2, <1>3, <1>4, <2>1, <2>2, <2>3
<1>11. ASSUME NetClean
       PROVE  Made(Built(t)', chain', hooks', cfg'[t].ifaces)
  <2>1. /\ Goto(Script, "stop", Cleanup(Default)) /\ tableVars' = tableVars
        /\ fatal' = fatal /\ touched' = touched /\ cfg' = cfg
    BY <1>11 DEF NetClean
  <2>2. \A b \in Actors \ {Script} : phase'[b] = phase[b] /\ todo'[b] = todo[b]
    BY <2>1, ActorsAre, Goes
  <2>3. t # Script
    BY <1>2, ActorsAre
  <2> QED
    BY <1>2, <1>3, <1>4, <2>1, <2>2, <2>3
<1>12. ASSUME Kill
       PROVE  Made(Built(t)', chain', hooks', cfg'[t].ifaces)
  <2>1. phase'[t] = "off"
    BY <1>3, <1>12, ActorsAre DEF Kill
  <2> QED
    BY <1>2, <2>1
<1>13. CASE UNCHANGED vars
  <2>1. /\ tableVars' = tableVars /\ todo' = todo /\ cfg' = cfg
        /\ phase' = phase /\ fatal' = fatal /\ touched' = touched
    BY <1>13 DEF vars
  <2> QED
    BY <1>2, <1>4, <2>1
<1> QED
  BY <1>5, <1>6, <1>7, <1>8, <1>9, <1>10, <1>11, <1>12, <1>13 DEF Next

(***************************************************************************)
(* What is due.                                                            *)
(***************************************************************************)

\* Everything will be removed by somebody who has not begun.
Later ==
    \/ owed = 2 \/ (owed = 1 /\ phase[Script] = "off")
    \/ \E t \in Tunnels : phase[t] \in {"apply", "on"}
Behind(cmd) == \E a \in Actors : phase[a] = "stop" /\ Ahead(a, cmd)

\* Due, in two parts.
LEMMA DueIs ==
  ASSUME NEW cmd
  PROVE  /\ Due(cmd) <=> Later \/ Behind(cmd)
         /\ Due(cmd)' <=> Later' \/ Behind(cmd)'
BY DEF Due, Later, Behind

\* What every Cleanup contains, whatever its list.
Always ==
    {Del(Nil)} \cup {Del(OutputJump(c)) : c \in {"OUTPUT", "PROXY"}}
      \cup {Cmd("-F", c) : c \in Chains} \cup {Cmd("-X", c) : c \in Chains}

\* Every Cleanup contains these commands.
LEMMA AlwaysThere ==
  ASSUME NEW i \in Ifaces, NEW cmd \in Always
  PROVE  cmd \in ToSet(Cleanup(<<i>>))
<1>1. /\ \A c \in Chains : /\ Cmd("-F", c) \in ToSet(Cleanup(<<i>>))
                           /\ Cmd("-X", c) \in ToSet(Cleanup(<<i>>))
      /\ \A c \in {"OUTPUT", "PROXY"} :
           Del(OutputJump(c)) \in ToSet(Cleanup(<<i>>))
      /\ Del(Nil) \in ToSet(Cleanup(<<i>>))
  BY CleanupHas
<1> QED
  BY <1>1 DEF Always

\* Whoever does not run a command keeps what is due.
LEMMA DueStays ==
  ASSUME TypeOK, ProgramInv, OwedInv, NEW cmd \in Always, Due(cmd),
         \/ \E t \in Tunnels : \/ \E k \in Configs : Listen(t, k)
                               \/ StartApply(t) \/ Applied(t) \/ Stop(t)
         \/ \E a \in Actors : Cleaned(a)
         \/ NetClean \/ Kill \/ UNCHANGED vars
  PROVE  Due(cmd)'
<1>1. Later \/ Behind(cmd)
  BY DueIs
<1>2. SUFFICES ASSUME ~Later' PROVE Behind(cmd)'
  BY DueIs
<1>3. ASSUME NEW t \in Tunnels, NEW k \in Configs, Listen(t, k)
      PROVE  Behind(cmd)'
  <2>1. /\ Goto(t, "clean", Cleanup(k.ifaces)) /\ owed' = owed
        /\ phase[t] = "off"
    BY <1>3 DEF Listen
  <2>2. /\ phase'[t] = "clean"
        /\ \A b \in Actors \ {t} : phase'[b] = phase[b] /\ todo'[b] = todo[b]
    BY <2>1, ActorsAre, Goes
  <2>3. Behind(cmd)
    BY <1>1, <1>2, <2>1, <2>2, ActorsAre DEF Later
  <2> QED
    BY <2>1, <2>2, <2>3 DEF Behind, Ahead
<1>4. ASSUME NEW t \in Tunnels, StartApply(t) \/ Applied(t)
      PROVE  Behind(cmd)'
  <2>1. phase'[t] \in {"apply", "on"}
    BY <1>4, ActorsAre DEF StartApply, Applied, Goto, TypeOK
  <2> QED
    BY <1>2, <2>1 DEF Later
<1>5. ASSUME NEW t \in Tunnels, Stop(t) PROVE Behind(cmd)'
  <2>1. Goto(t, "stop", Cleanup(cfg[t].ifaces)) /\ cfg[t] \in Configs
    BY <1>5 DEF Stop, ProgramInv, Installing
  <2>2. phase'[t] = "stop" /\ todo'[t] = Cleanup(cfg[t].ifaces)
    BY <2>1, ActorsAre, Goes
  <2>3. PICK i \in Ifaces : cfg[t].ifaces = <<i>>
    BY <2>1, ConfigIs
  <2>4. cmd \in ToSet(todo'[t])
    BY <2>2, <2>3, AlwaysThere
  <2> QED
    BY <2>2, <2>4, ActorsAre DEF Behind, Ahead
<1>6. ASSUME NEW a \in Actors, Cleaned(a) PROVE Behind(cmd)'
  <2>1. /\ Goto(a, "off", <<>>) /\ phase[a] = "stop" /\ todo[a] = <<>>
        /\ owed' = IF owed = 0 THEN 0 ELSE owed - 1
    BY <1>6 DEF Cleaned
  <2>2. /\ phase'[a] = "off"
        /\ \A b \in Actors \ {a} : phase'[b] = phase[b] /\ todo'[b] = todo[b]
    BY <2>1, Goes
  <2>3. ~Later
    <3>1. owed > 0 => a = Script /\ \A t \in Tunnels : phase[t] # "stop"
      BY <2>1, ActorsAre DEF OwedInv
    <3>2. owed # 2
      <4>1. owed = 2 => owed' = 1 /\ phase'[Script] = "off"
        BY <2>1, <2>2, <3>1
      <4> QED
        BY <1>2, <4>1 DEF Later
    <3>3. ~(owed = 1 /\ phase[Script] = "off")
      BY <2>1, <3>1
    <3>4. ASSUME NEW t \in Tunnels PROVE phase[t] \notin {"apply", "on"}
      BY <1>2, <2>1, <2>2, ActorsAre DEF Later
    <3> QED
      BY <3>2, <3>3, <3>4 DEF Later
  <2>4. PICK b \in Actors : phase[b] = "stop" /\ cmd \in ToSet(todo[b])
    BY <1>1, <2>3 DEF Behind, Ahead
  <2>5. b # a
    BY <2>1, <2>4 DEF ToSet
  <2> QED
    BY <2>2, <2>4, <2>5 DEF Behind, Ahead
<1>7. ASSUME NetClean PROVE Behind(cmd)'
  <2>1. Goto(Script, "stop", Cleanup(Default))
    BY <1>7 DEF NetClean
  <2>2. phase'[Script] = "stop" /\ todo'[Script] = Cleanup(Default)
    BY <2>1, ActorsAre, Goes
  <2>3. Default = <<"wlan">> /\ "wlan" \in Ifaces
    BY DEF Default, Ifaces
  <2>4. cmd \in ToSet(todo'[Script])
    BY <2>2, <2>3, AlwaysThere
  <2> QED
    BY <2>2, <2>4, ActorsAre DEF Behind, Ahead
<1>8. ASSUME Kill PROVE Behind(cmd)'
  <2>1. /\ owed' = IF phase[Script] = "off" THEN 1 ELSE 2
        /\ phase'[Script] = phase[Script]
    BY <1>8, ActorsAre DEF Kill
  <2> QED
    BY <1>2, <2>1 DEF Later
<1>9. CASE UNCHANGED vars
  BY <1>1, <1>2, <1>9 DEF vars, Later, Behind, Ahead
<1> QED
  BY <1>3, <1>4, <1>5, <1>6, <1>7, <1>8, <1>9

\* And whoever does not run a command keeps what is due of an interface.
LEMMA IfaceStays ==
  ASSUME TypeOK, ProgramInv, NEW i \in Ifaces, IfaceDue(i), kills' = 0,
         \/ \E t \in Tunnels : \/ \E k \in Configs : Listen(t, k)
                               \/ StartApply(t) \/ Applied(t) \/ Stop(t)
         \/ \E a \in Actors : Cleaned(a)
         \/ NetClean \/ Kill \/ UNCHANGED vars
  PROVE  IfaceDue(i)'
<1> DEFINE cmd == Cmd("-D", <<i, "PREROUTING">>)
           j == <<i, "PREROUTING">>
<1>1. cmd \in ToSet(Cleanup(<<i>>))
  <2>1. Del(<<i, "PREROUTING">>) \in ToSet(Cleanup(<<i>>))
    BY CleanupHas
  <2>2. <<i, "PREROUTING">> # Nil
    BY Typed, ValuesAssumption
  <2> QED
    BY <2>1, <2>2 DEF Del
<1> HIDE DEF cmd, j
<1>2. hooks[j] > 0 =>
        \/ \E t \in Tunnels : phase[t] \in {"apply", "on"} /\ cfg[t].ifaces = <<i>>
        \/ \E a \in Actors : phase[a] = "stop" /\ cmd \in ToSet(todo[a])
  BY DEF IfaceDue, Ahead, cmd, j
<1>3. hooks' = hooks
  BY DEF Listen, StartApply, Applied, Stop, Cleaned, NetClean, Kill, vars,
         tableVars
<1>4. SUFFICES ASSUME hooks[j] > 0
               PROVE  \/ \E t \in Tunnels : /\ phase'[t] \in {"apply", "on"}
                                            /\ cfg'[t].ifaces = <<i>>
                      \/ \E a \in Actors : /\ phase'[a] = "stop"
                                           /\ cmd \in ToSet(todo'[a])
  BY <1>3 DEF IfaceDue, Ahead, cmd, j
<1> DEFINE Goal == \/ \E t \in Tunnels : /\ phase'[t] \in {"apply", "on"}
                                         /\ cfg'[t].ifaces = <<i>>
                   \/ \E a \in Actors : /\ phase'[a] = "stop"
                                        /\ cmd \in ToSet(todo'[a])
\* Nobody who is to delete the jump changes.
<1>5. ASSUME NEW a \in Actors,
             \/ phase[a] \notin {"apply", "on", "stop"}
             \/ phase[a] = "stop" /\ todo[a] = <<>>
             \/ phase'[a] \in {"apply", "on"} /\ cfg'[a] = cfg[a]
                /\ phase[a] # "stop",
             \A b \in Actors \ {a} : phase'[b] = phase[b] /\ todo'[b] = todo[b],
             \A t \in Tunnels \ {a} : cfg'[t] = cfg[t]
      PROVE  Goal
  <2>1. CASE \E t \in Tunnels : phase[t] \in {"apply", "on"} /\ cfg[t].ifaces = <<i>>
    BY <1>5, <2>1, ActorsAre
  <2>2. CASE \E b \in Actors : phase[b] = "stop" /\ cmd \in ToSet(todo[b])
    BY <1>5, <2>2 DEF ToSet
  <2> QED
    BY <1>2, <1>4, <2>1, <2>2
<1>6. ASSUME NEW t \in Tunnels, NEW k \in Configs, Listen(t, k) PROVE Goal
  <2>1. /\ Goto(t, "clean", Cleanup(k.ifaces)) /\ phase[t] = "off"
        /\ \A u \in Tunnels \ {t} : cfg'[u] = cfg[u]
    BY <1>6 DEF Listen, TypeOK
  <2>2. \A b \in Actors \ {t} : phase'[b] = phase[b] /\ todo'[b] = todo[b]
    BY <2>1, ActorsAre, Goes
  <2> HIDE DEF Goal
  <2> QED
    BY <1>5, <2>1, <2>2, ActorsAre
<1>7. ASSUME NEW t \in Tunnels, StartApply(t) PROVE Goal
  <2>1. Goto(t, "apply", Apply(cfg[t])) /\ phase[t] = "clean" /\ cfg' = cfg
    BY <1>7 DEF StartApply
  <2>2. \A b \in Actors \ {t} : phase'[b] = phase[b] /\ todo'[b] = todo[b]
    BY <2>1, ActorsAre, Goes
  <2> HIDE DEF Goal
  <2> QED
    BY <1>5, <2>1, <2>2, ActorsAre
<1>8. ASSUME NEW t \in Tunnels, Applied(t) PROVE Goal
  <2>1. Goto(t, "on", <<>>) /\ phase[t] = "apply" /\ cfg' = cfg
    BY <1>8 DEF Applied
  <2>2. /\ \A b \in Actors \ {t} : phase'[b] = phase[b] /\ todo'[b] = todo[b]
        /\ phase'[t] = "on"
    BY <2>1, ActorsAre, Goes
  <2> HIDE DEF Goal
  <2> QED
    BY <1>5, <2>1, <2>2, ActorsAre
<1>9. ASSUME NEW t \in Tunnels, Stop(t) PROVE Goal
  <2>1. /\ Goto(t, "stop", Cleanup(cfg[t].ifaces)) /\ phase[t] # "stop"
        /\ \A u \in Tunnels \ {t} : cfg'[u] = cfg[u]
    BY <1>9 DEF Stop, TypeOK
  <2>2. /\ \A b \in Actors \ {t} : phase'[b] = phase[b] /\ todo'[b] = todo[b]
        /\ phase'[t] = "stop" /\ todo'[t] = Cleanup(cfg[t].ifaces)
    BY <2>1, ActorsAre, Goes
  <2>3. CASE cfg[t].ifaces = <<i>>
    BY <1>1, <2>2, <2>3, ActorsAre
  <2>4. CASE cfg[t].ifaces # <<i>>
    <3>1. CASE \E u \in Tunnels : phase[u] \in {"apply", "on"} /\ cfg[u].ifaces = <<i>>
      BY <2>1, <2>2, <2>4, <3>1, ActorsAre
    <3>2. CASE \E b \in Actors : phase[b] = "stop" /\ cmd \in ToSet(todo[b])
      BY <2>1, <2>2, <3>2
    <3> QED
      BY <1>2, <1>4, <3>1, <3>2
  <2> QED
    BY <2>3, <2>4
<1>10. ASSUME NEW a \in Actors, Cleaned(a) PROVE Goal
  <2>1. /\ Goto(a, "off", <<>>) /\ phase[a] = "stop" /\ todo[a] = <<>>
        /\ cfg' = cfg
    BY <1>10 DEF Cleaned
  <2>2. \A b \in Actors \ {a} : phase'[b] = phase[b] /\ todo'[b] = todo[b]
    BY <2>1, Goes
  <2> HIDE DEF Goal
  <2> QED
    BY <1>5, <2>1, <2>2
<1>11. ASSUME NetClean PROVE Goal
  <2>1. /\ Goto(Script, "stop", Cleanup(Default)) /\ phase[Script] = "off"
        /\ cfg' = cfg
    BY <1>11 DEF NetClean
  <2>2. \A b \in Actors \ {Script} : phase'[b] = phase[b] /\ todo'[b] = todo[b]
    BY <2>1, ActorsAre, Goes
  <2> HIDE DEF Goal
  <2> QED
    BY <1>5, <2>1, <2>2, ActorsAre
<1>12. ASSUME Kill PROVE Goal
  <2>1. kills' = kills + 1 /\ kills \in Nat
    BY <1>12, BoundsAssumption DEF Kill, TypeOK
  <2> QED
    BY <2>1
<1>13. CASE UNCHANGED vars
  BY <1>2, <1>4, <1>13 DEF vars
<1> QED
  BY <1>6, <1>7, <1>8, <1>9, <1>10, <1>11, <1>12, <1>13

\* What the commands that remove leave of a chain.
LEMMA RemoveLeaves ==
  ASSUME TypeOK, NEW a \in Actors, Run(a), Head(todo[a]).op \in Removing,
         NEW c \in Chains
  PROVE  /\ chain'[c] \in {chain[c], <<>>, Absent}
         /\ chain'[c] # Absent => chain[c] # Absent
         /\ faults' = faults =>
              /\ Head(todo[a]) = Cmd("-F", c) => chain'[c] \in {<<>>, Absent}
              /\ Head(todo[a]) = Cmd("-X", c) =>
                   \/ chain'[c] = Absent
                   \/ chain[c] # <<>> \/ Referenced(c)
<1> DEFINE cmd == Head(todo[a])
<1>1. /\ cmd \in Commands
      /\ \/ ~Refused(cmd) /\ Effect(cmd)
         \/ Refused(cmd) /\ tableVars' = tableVars
         \/ faults' = faults + 1 /\ tableVars' = tableVars
  BY RunIs
<1>2. faults \in Nat
  BY BoundsAssumption DEF TypeOK
<1> HIDE DEF cmd
<1>3. CASE tableVars' = tableVars
  <2>1. chain' = chain
    BY <1>3 DEF tableVars
  <2>2. faults' = faults => Refused(cmd) \/ Effect(cmd)
    <3>1. faults' = faults => faults' # faults + 1
      BY <1>2
    <3> QED
      BY <1>1, <3>1
  <2>3. ASSUME cmd = Cmd("-F", c), faults' = faults
        PROVE  chain'[c] \in {<<>>, Absent}
    <3>1. Refused(cmd) => chain[c] = Absent
      BY <2>3, ChainRuns
    <3>2. Effect(cmd) => chain'[c] = <<>>
      <4>1. "-F" \in {"-F", "-N", "-X"} /\ "-F" # "-X"
        OBVIOUS
      <4>2. Effect(cmd) => chain' = [chain EXCEPT ![c] = <<>>]
        BY <2>3, <4>1, ChainRuns
      <4> QED
        BY <4>2 DEF TypeOK
    <3> QED
      BY <2>1, <2>2, <2>3, <3>1, <3>2
  <2>4. ASSUME cmd = Cmd("-X", c), faults' = faults
        PROVE  chain'[c] = Absent \/ chain[c] # <<>> \/ Referenced(c)
    <3>1. Refused(cmd) => chain[c] # <<>> \/ Referenced(c)
      BY <2>4, ChainRuns
    <3>2. Effect(cmd) => chain'[c] = Absent
      <4>1. "-X" \in {"-F", "-N", "-X"}
        OBVIOUS
      <4>2. Effect(cmd) => chain' = [chain EXCEPT ![c] = Absent]
        BY <2>4, <4>1, ChainRuns
      <4> QED
        BY <4>2 DEF TypeOK
    <3> QED
      BY <2>2, <2>4, <3>1, <3>2
  <2> QED
    BY <2>1, <2>3, <2>4 DEF cmd
<1>4. CASE ~Refused(cmd) /\ Effect(cmd)
  <2>1. CASE \E x \in Jumps : cmd = Del(x)
    <3>1. chain' = chain
      BY <1>4, <2>1, DelRuns
    <3>2. \A o \in {"-F", "-X"} : cmd # Cmd(o, c)
      BY <2>1, DelIs
    <3> QED
      BY <3>1, <3>2 DEF cmd
  <2>2. CASE \E d \in Chains : cmd = Cmd("-F", d)
    <3>1. PICK d \in Chains : cmd = Cmd("-F", d)
      BY <2>2
    <3>2. chain' = [chain EXCEPT ![d] = <<>>] /\ chain[d] # Absent
      <4>1. "-F" \in {"-F", "-N", "-X"} /\ "-F" # "-X"
        OBVIOUS
      <4> QED
        BY <1>4, <3>1, <4>1, ChainRuns
    <3>3. /\ cmd # Cmd("-X", c)
          /\ cmd = Cmd("-F", c) => d = c
      BY <3>1, CmdIs
    <3>4. chain'[c] = IF c = d THEN <<>> ELSE chain[c]
      BY <3>2 DEF TypeOK
    <3> QED
      BY <3>2, <3>3, <3>4 DEF cmd
  <2>3. CASE \E d \in Chains : cmd = Cmd("-X", d)
    <3>1. PICK d \in Chains : cmd = Cmd("-X", d)
      BY <2>3
    <3>2. chain' = [chain EXCEPT ![d] = Absent]
      <4>1. "-X" \in {"-F", "-N", "-X"}
        OBVIOUS
      <4> QED
        BY <1>4, <3>1, <4>1, ChainRuns
    <3>3. /\ cmd # Cmd("-F", c)
          /\ cmd = Cmd("-X", c) => d = c
      BY <3>1, CmdIs
    <3>4. chain'[c] = IF c = d THEN Absent ELSE chain[c]
      BY <3>2 DEF TypeOK
    <3> QED
      BY <3>3, <3>4 DEF cmd
  <2>4. \/ \E x \in Jumps : cmd = Del(x)
        \/ \E d \in Chains : cmd = Cmd("-F", d) \/ cmd = Cmd("-X", d)
    <3>1. cmd.op \in Removing
      BY DEF cmd
    <3>2. \A x \in Jumps : Ins(x).op \notin Removing
      BY DelIs
    <3>3. \A z : Cmd("-N", z).op \notin Removing /\ Cmd("-A", z).op \notin Removing
      <4>1. \A z : Cmd("-N", z).op = "-N" /\ Cmd("-A", z).op = "-A"
        BY CmdIs
      <4> QED
        BY <4>1 DEF Removing
    <3>4. \/ \E x \in Jumps : cmd = Del(x) \/ cmd = Ins(x)
          \/ \E d \in Chains : \/ cmd = Cmd("-F", d) \/ cmd = Cmd("-X", d)
                               \/ cmd = Cmd("-N", d)
          \/ \E d \in Chains, r \in Rules : cmd = Cmd("-A", <<d, r>>)
      BY <1>1, CommandIs
    <3> QED
      BY <3>1, <3>2, <3>3, <3>4
  <2> QED
    BY <2>1, <2>2, <2>3, <2>4
<1> QED
  BY <1>1, <1>3, <1>4

\* A command keeps DueInv: what it removes is no longer due, and what it cannot
\* remove yet is removed later.
LEMMA DueRun ==
  ASSUME TypeOK, ProgramInv, OrderInv, CountInv, DueInv, NEW a \in Actors, Run(a)
  PROVE  DueInv'
<1> DEFINE head == Head(todo[a])
           jo(c) == OutputJump(c)
           ji(i) == <<i, "PREROUTING">>
<1>1. /\ phase' = phase /\ cfg' = cfg /\ owed' = owed /\ kills' = kills
      /\ faults \in Nat /\ (faults' = faults \/ faults' = faults + 1)
  <2>1. faults' = faults \/ faults' = faults + 1
    BY RunChanges, Zenon
  <2>2. phase' = phase /\ cfg' = cfg /\ owed' = owed /\ kills' = kills
    BY RunIs
  <2>3. faults \in Nat
    BY BoundsAssumption DEF TypeOK
  <2> QED
    BY <2>1, <2>2, <2>3
<1>2. /\ \A cmd \in ToSet(todo'[a]) : cmd \in ToSet(todo[a])
      /\ \A cmd \in ToSet(todo[a]) : cmd = head \/ cmd \in ToSet(todo'[a])
      /\ todo'[a] = Tail(todo[a]) /\ head \in ToSet(todo[a])
      /\ todo[a] # <<>> /\ todo[a] \in Seq(Commands)
      /\ \A b \in Actors \ {a} : todo'[b] = todo[b]
  BY RunLeaves, RunIs DEF Ahead
\* What is in somebody's program stays there, unless it is run now.
<1>3. ASSUME NEW cmd, Behind(cmd), phase[a] = "stop" => cmd # head
      PROVE  Behind(cmd)'
  <2>1. PICK b \in Actors : phase[b] = "stop" /\ cmd \in ToSet(todo[b])
    BY <1>3 DEF Behind, Ahead
  <2>2. cmd \in ToSet(todo'[b])
    BY <1>2, <1>3, <2>1
  <2> QED
    BY <1>1, <2>1, <2>2 DEF Behind, Ahead
<1>5. \A c \in {"OUTPUT", "PROXY"} : jo(c) \in Jumps /\ jo(c)[2] = c /\ c \in Chains
  BY Typed DEF Jumps, OutputJump, Chains
<1>6. \A i \in Ifaces : ji(i) \in Jumps /\ ji(i) \in Hooks /\ ji(i) # Nil
  BY Typed, ValuesAssumption DEF Jumps
<1> HIDE DEF head, jo, ji
\* The jump of an interface.
<1>7. ASSUME faults' = 0, NEW i \in Ifaces, IfaceDue(i)
      PROVE  IfaceDue(i)'
  <2> DEFINE x == ji(i)
             cmd == Cmd("-D", ji(i))
  <2>1. cmd = Del(x) /\ Count(x) = hooks[x] /\ Count(x)' = hooks'[x] /\ x \in Jumps
    BY <1>6 DEF Del, Count
  <2>2. hooks[x] > 0 =>
          \/ \E t \in Tunnels : phase[t] \in {"apply", "on"} /\ cfg[t].ifaces = <<i>>
          \/ Behind(cmd)
    BY <1>7 DEF IfaceDue, Behind, ji
  <2>3. SUFFICES ASSUME hooks'[x] > 0
                 PROVE  \/ \E t \in Tunnels : /\ phase[t] \in {"apply", "on"}
                                              /\ cfg[t].ifaces = <<i>>
                        \/ Behind(cmd)'
    BY <1>1 DEF IfaceDue, Behind, ji
  <2> HIDE DEF x, cmd
  <2>4. faults = 0 /\ faults' # faults + 1
    BY <1>1, <1>7
  <2>5. Count(x) <= 1
    BY <2>1, <2>4 DEF CountInv
  <2>6. /\ Count(x) \in Nat /\ Count(x)' \in Nat
        /\ \/ Count(x)' <= Count(x)
           \/ /\ Count(x)' = Count(x) + 1 /\ head = Ins(x)
              /\ phase[a] = "apply" /\ a \in Tunnels
        /\ head = Del(x) => Count(x)' = 0 \/ faults' = faults + 1
    BY <2>1, <2>5, RunCounts DEF head
  <2>7. CASE hooks[x] > 0
    <3>1. head # cmd
      BY <2>1, <2>3, <2>4, <2>6
    <3> QED
      BY <1>3, <2>2, <2>7, <3>1
  <2>8. CASE ~(hooks[x] > 0)
    <3>1. head = Ins(x) /\ phase[a] = "apply" /\ a \in Tunnels
      BY <2>1, <2>3, <2>6, <2>8
    <3> DEFINE p == Apply(cfg[a])
               n == Len(todo[a])
    <3>2. cfg[a] \in Configs
      BY <3>1 DEF ProgramInv, Installing
    <3>3. p \in Seq(Commands) /\ n \in Nat /\ Len(p) \in Nat
      BY <1>2, <3>2, Programs
    <3>4. n <= Len(p) /\ todo[a] = Rest(p, n)
      BY <3>1 DEF ProgramInv
    <3> HIDE DEF p, n
    <3>5. \A z \in ToSet(Rest(p, n)) : z \in ToSet(p)
      BY <3>3, <3>4, RestIs
    <3>6. Ins(x) \in ToSet(p)
      BY <1>2, <3>1, <3>4, <3>5
    <3>7. cfg[a].ifaces = <<i>>
      BY <2>1, <3>2, <3>6, ApplyHas DEF p, x, ji
    <3> QED
      BY <3>1, <3>7
  <2> QED
    BY <2>7, <2>8
\* From here on everything else is due to programs under way.
<1>8. CASE Later
  <2>1. Later'
    BY <1>1, <1>8 DEF Later
  <2>2. \A cmd : Due(cmd)'
    BY <2>1, DueIs
  <2>3. faults' = 0 /\ kills' = 0 => \A i \in Ifaces : IfaceDue(i)'
    <3>1. faults' = 0 => faults = 0
      BY <1>1
    <3>2. faults' = 0 /\ kills' = 0 => \A i \in Ifaces : IfaceDue(i)
      BY <1>1, <3>1 DEF DueInv
    <3> QED
      BY <1>7, <3>2
  <2> QED
    BY <2>2, <2>3 DEF DueInv, JumpDue, RulesDue, ChainDue
<1>9. CASE ~Later
  <2>1. ~Later' /\ \A t \in Tunnels : phase[t] \notin {"apply", "on"}
    BY <1>1, <1>9 DEF Later
  <2>2. head.op \in Removing /\ (head \in ToSet(todo[a]))
    <3>1. phase[a] # "apply"
      BY <2>1, ActorsAre DEF ProgramInv
    <3> QED
      BY <1>2, <3>1 DEF ProgramInv
  <2>3. \A cmd : /\ Due(cmd) => Behind(cmd)
                 /\ Behind(cmd)' => Due(cmd)'
    BY <1>9, DueIs
  <2>4. ASSUME NEW x \in Jumps
        PROVE  /\ Count(x) \in Nat /\ Count(x)' \in Nat
               /\ Count(x)' <= Count(x)
               /\ head = Del(x) /\ faults <= 1 =>
                    Count(x)' = 0 \/ faults' = faults + 1
    <3>1. faults <= 1 => Count(x) <= 1
      BY DEF CountInv
    <3>2. head # Ins(x)
      BY <2>2, DelIs
    <3> QED
      BY <3>1, <3>2, RunCounts DEF head
  \* A jump stays due unless its deletion fails.
  <2>5. ASSUME NEW x \in Jumps, JumpDue(x), faults <= 1,
               faults' = faults \/ head # Del(x)
        PROVE  JumpDue(x)'
    <3> SUFFICES ASSUME Count(x)' > 0
                 PROVE  Behind(Del(x))'
      BY <2>3 DEF JumpDue
    <3>1. Count(x) > 0
      BY <2>4
    <3>2. Behind(Del(x))
      BY <2>3, <2>5, <3>1 DEF JumpDue
    <3>3. head # Del(x)
      BY <1>1, <2>4, <2>5
    <3> QED
      BY <1>3, <3>2, <3>3
  \* So do the rules of a chain unless its flush fails.
  <2>6. ASSUME NEW c \in Chains, RulesDue(c),
               faults' = faults \/ head # Cmd("-F", c)
        PROVE  RulesDue(c)'
    <3> SUFFICES ASSUME chain'[c] \notin {Absent, <<>>}
                 PROVE  Behind(Cmd("-F", c))'
      BY <2>3 DEF RulesDue
    <3>1. /\ chain'[c] \in {chain[c], <<>>, Absent}
          /\ faults' = faults /\ head = Cmd("-F", c) => chain'[c] \in {<<>>, Absent}
      BY <2>2, RemoveLeaves DEF head
    <3>2. Behind(Cmd("-F", c))
      BY <2>3, <2>6, <3>1 DEF RulesDue
    <3> QED
      BY <1>3, <2>6, <3>1, <3>2
  \* Whoever flushes a chain or deletes a jump to it deletes the chain later.
  <2>7. ASSUME NEW c \in Chains, NEW cmd, Behind(cmd),
               \/ cmd = Cmd("-F", c)
               \/ \E h \in Hooks : cmd = Del(h) /\ h[2] = c
        PROVE  Behind(Cmd("-X", c))'
    <3>1. PICK b \in Actors : phase[b] = "stop" /\ cmd \in ToSet(todo[b])
      BY <2>7 DEF Behind, Ahead
    <3>2. Before(todo[b], cmd, Cmd("-X", c))
      BY <2>7, <3>1 DEF OrderInv, CleansInOrder
    <3>3. todo[b] \in Seq(Commands) /\ todo[b] # <<>>
      BY <3>1 DEF TypeOK, ToSet
    <3>4. Cmd("-X", c) \in ToSet(Tail(todo[b]))
      BY <3>1, <3>2, <3>3, TailOrder
    <3>5. Cmd("-X", c) \in ToSet(todo[b])
      BY <3>3, <3>4, TailKeeps
    <3>6. Cmd("-X", c) \in ToSet(todo'[b])
      BY <1>2, <3>4, <3>5
    <3> QED
      BY <1>1, <3>1, <3>6 DEF Behind, Ahead
  \* And the chain stays due when its deletion is refused.
  <2>8. ASSUME NEW c \in Chains, ChainDue(c), RulesDue(c), faults' = faults,
               \A h \in Hooks : h[2] = c /\ hooks[h] > 0 => Behind(Del(h))
        PROVE  ChainDue(c)'
    <3> SUFFICES ASSUME chain'[c] # Absent
                 PROVE  Behind(Cmd("-X", c))'
      BY <2>3 DEF ChainDue
    <3>1. /\ chain[c] # Absent
          /\ head = Cmd("-X", c) => chain[c] # <<>> \/ Referenced(c)
      BY <2>2, <2>8, RemoveLeaves DEF head
    <3>2. Behind(Cmd("-X", c))
      BY <2>3, <2>8, <3>1 DEF ChainDue
    <3>3. CASE head # Cmd("-X", c)
      BY <1>3, <3>2, <3>3
    <3>4. CASE chain[c] # <<>>
      <4>1. Behind(Cmd("-F", c))
        BY <2>3, <2>8, <3>1, <3>4 DEF RulesDue
      <4> QED
        BY <2>7, <4>1
    <3>5. CASE Referenced(c)
      <4>1. PICK h \in Hooks : h[2] = c /\ hooks[h] > 0
        BY <3>5 DEF Referenced
      <4>2. Behind(Del(h))
        BY <2>8, <4>1
      <4> QED
        BY <2>7, <4>1, <4>2
    <3> QED
      BY <3>1, <3>3, <3>4, <3>5
  <2>9. ASSUME faults' = 0
        PROVE  /\ JumpDue(Nil)'
               /\ \A c \in {"OUTPUT", "PROXY"} : JumpDue(jo(c))' /\ ChainDue(c)'
               /\ \A c \in Chains : RulesDue(c)'
               /\ kills' = 0 => /\ ChainDue("PREROUTING")'
                                /\ \A i \in Ifaces : IfaceDue(i)'
    <3>1. faults = 0 /\ faults' = faults
      BY <1>1, <2>9
    <3>2. /\ JumpDue(Nil)
          /\ \A c \in {"OUTPUT", "PROXY"} : JumpDue(jo(c)) /\ ChainDue(c)
          /\ \A c \in Chains : RulesDue(c)
          /\ kills' = 0 => /\ ChainDue("PREROUTING")
                           /\ \A i \in Ifaces : IfaceDue(i)
      BY <1>1, <3>1 DEF DueInv, jo
    <3>3. Nil \in Jumps
      BY DEF Jumps
    <3>4. JumpDue(Nil)' /\ \A c \in {"OUTPUT", "PROXY"} : JumpDue(jo(c))'
      BY <1>5, <2>5, <3>1, <3>2, <3>3
    <3>5. \A c \in Chains : RulesDue(c)'
      BY <2>6, <3>1, <3>2
    <3>6. ASSUME NEW c \in {"OUTPUT", "PROXY"} PROVE ChainDue(c)'
      <4>1. ASSUME NEW h \in Hooks, h[2] = c, hooks[h] > 0
            PROVE  Behind(Del(h))
        <5>1. h = jo(c)
          <6>1. \/ h = OutputJump("OUTPUT") \/ h = OutputJump("PROXY")
                \/ \E i \in Ifaces : h = <<i, "PREROUTING">>
            BY HooksAre
          <6>2. /\ OutputJump("OUTPUT")[2] = "OUTPUT"
                /\ OutputJump("PROXY")[2] = "PROXY"
                /\ \A i : <<i, "PREROUTING">>[2] = "PREROUTING"
            BY DEF OutputJump
          <6>3. h[2] = c /\ c # "PREROUTING"
            BY <4>1
          <6> QED
            BY <6>1, <6>2, <6>3 DEF jo
        <5>2. h # Nil
          BY ValuesAssumption
        <5>3. Count(h) > 0
          BY <4>1, <5>2 DEF Count
        <5> QED
          BY <2>3, <3>2, <5>1, <5>3 DEF JumpDue
      <4> QED
        BY <1>5, <2>8, <3>1, <3>2, <4>1
    <3>7. ASSUME kills' = 0 PROVE ChainDue("PREROUTING")'
      <4>1. ASSUME NEW h \in Hooks, h[2] = "PREROUTING", hooks[h] > 0
            PROVE  Behind(Del(h))
        <5>1. PICK i \in Ifaces : h = ji(i)
          <6>1. \/ h = OutputJump("OUTPUT") \/ h = OutputJump("PROXY")
                \/ \E i \in Ifaces : h = <<i, "PREROUTING">>
            BY HooksAre
          <6>2. /\ OutputJump("OUTPUT")[2] = "OUTPUT"
                /\ OutputJump("PROXY")[2] = "PROXY"
            BY DEF OutputJump
          <6> QED
            BY <4>1, <6>1, <6>2 DEF ji
        <5>2. Del(h) = Cmd("-D", ji(i))
          BY <1>6, <5>1 DEF Del
        <5>3. IfaceDue(i)
          BY <3>2, <3>7
        <5> QED
          BY <2>1, <4>1, <5>1, <5>2, <5>3 DEF IfaceDue, Behind, ji
      <4> QED
        BY <2>8, <3>1, <3>2, <3>7, <4>1 DEF Chains
    <3> QED
      BY <1>7, <2>9, <3>2, <3>4, <3>5, <3>6, <3>7
  <2>10. ASSUME faults' <= 1, NEW c \in {"OUTPUT", "PROXY"}
         PROVE  JumpDue(jo(c))' \/ RulesDue(c)'
    <3>1. faults <= 1
      BY <1>1, <2>10
    <3>2. JumpDue(jo(c)) \/ RulesDue(c)
      BY <3>1 DEF DueInv, jo
    <3>3. CASE faults' = faults
      BY <1>5, <2>5, <2>6, <3>1, <3>2, <3>3
    <3>4. CASE faults' = faults + 1
      <4>1. faults = 0
        BY <1>1, <2>10, <3>4
      <4>2. JumpDue(jo(c)) /\ RulesDue(c)
        BY <1>5, <4>1 DEF DueInv, jo
      <4>3. Del(jo(c)) # Cmd("-F", c)
        BY <1>5, DelIs
      <4> QED
        BY <1>5, <2>5, <2>6, <3>1, <4>2, <4>3
    <3> QED
      BY <1>1, <3>3, <3>4
  <2> QED
    BY <2>9, <2>10 DEF DueInv, jo
<1> QED
  BY <1>8, <1>9

\* Every step keeps DueInv.
LEMMA DueStep ==
  ASSUME TypeOK, ProgramInv, OrderInv, CountInv, OwedInv, DueInv, [Next]_vars
  PROVE  DueInv'
<1>1. CASE \E a \in Actors : Run(a)
  BY <1>1, DueRun
<1>2. CASE \/ \E t \in Tunnels : \/ \E k \in Configs : Listen(t, k)
                                 \/ StartApply(t) \/ Applied(t) \/ Stop(t)
           \/ \E a \in Actors : Cleaned(a)
           \/ NetClean \/ Kill \/ UNCHANGED vars
  <2>1. tableVars' = tableVars /\ faults' = faults
    BY <1>2 DEF Listen, StartApply, Applied, Stop, Cleaned, NetClean, Kill, vars
  <2>2. kills' = 0 => kills = 0
    <3>1. kills \in Nat /\ (kills' = kills \/ kills' = kills + 1)
      BY <1>2, BoundsAssumption DEF TypeOK, Listen, StartApply, Applied, Stop,
         Cleaned, NetClean, Kill, vars
    <3> QED
      BY <3>1
  <2>3. chain' = chain /\ hooks' = hooks /\ forward' = forward
    BY <2>1 DEF tableVars
  <2>4. \A cmd \in Always : Due(cmd) => Due(cmd)'
    BY <1>2, DueStays
  <2>5. /\ Del(Nil) \in Always
        /\ \A c \in {"OUTPUT", "PROXY"} : Del(OutputJump(c)) \in Always
        /\ \A c \in Chains : Cmd("-F", c) \in Always /\ Cmd("-X", c) \in Always
    BY DEF Always
  <2>6. ASSUME NEW x, Del(x) \in Always, JumpDue(x) PROVE JumpDue(x)'
    <3>1. Count(x)' = Count(x)
      BY <2>3 DEF Count
    <3> QED
      BY <2>4, <2>6, <3>1 DEF JumpDue
  <2>7. ASSUME NEW c \in Chains
        PROVE  (RulesDue(c) => RulesDue(c)') /\ (ChainDue(c) => ChainDue(c)')
    BY <2>3, <2>4, <2>5 DEF RulesDue, ChainDue
  <2>8. ASSUME NEW i \in Ifaces, IfaceDue(i), kills' = 0 PROVE IfaceDue(i)'
    BY <1>2, <2>8, IfaceStays
  <2>9. "OUTPUT" \in Chains /\ "PROXY" \in Chains /\ "PREROUTING" \in Chains
    BY DEF Chains
  <2>10. ASSUME faults' = 0
         PROVE  /\ JumpDue(Nil)'
                /\ \A c \in {"OUTPUT", "PROXY"} :
                     JumpDue(OutputJump(c))' /\ ChainDue(c)'
                /\ \A c \in Chains : RulesDue(c)'
    BY <2>1, <2>5, <2>6, <2>7, <2>9, <2>10 DEF DueInv
  <2>11. ASSUME faults' = 0, kills' = 0
         PROVE  ChainDue("PREROUTING")' /\ \A i \in Ifaces : IfaceDue(i)'
    BY <2>1, <2>2, <2>7, <2>8, <2>9, <2>11 DEF DueInv
  <2>12. ASSUME faults' <= 1, NEW c \in {"OUTPUT", "PROXY"}
         PROVE  JumpDue(OutputJump(c))' \/ RulesDue(c)'
    BY <2>1, <2>5, <2>6, <2>7, <2>9, <2>12 DEF DueInv
  <2> QED
    BY <2>10, <2>11, <2>12 DEF DueInv
<1> QED
  BY <1>1, <1>2 DEF Next

\* The invariant holds at first, also with the chain of an earlier version.
LEMMA InitHolds ==
  ASSUME Init
  PROVE  RulesInv
<1> DEFINE j == OutputJump("PROXY")
<1>1. PICK old \in BOOLEAN :
        /\ chain = [c \in Chains |->
                      IF old /\ c = "PROXY" THEN <<"REDIRECT">> ELSE Absent]
        /\ hooks = [h \in Hooks |-> IF old /\ h = j THEN 1 ELSE 0]
        /\ owed = IF old THEN 1 ELSE 0
  BY DEF Init, OutputJump
<1>2. /\ forward = 0 /\ port = Nil
      /\ phase = [a \in Actors |-> "off"]
      /\ todo = [a \in Actors |-> <<>>]
      /\ cfg = [t \in Tunnels |-> Nil]
      /\ fatal = {} /\ touched = {} /\ faults = 0 /\ kills = 0
  BY DEF Init
<1> HIDE DEF j
<1>3. /\ \A a \in Actors : phase[a] = "off" /\ todo[a] = <<>>
      /\ \A t \in Tunnels : phase[t] = "off"
      /\ phase[Script] = "off"
  BY <1>2, ActorsAre
<1>4. TypeOK
  <2>1. <<"REDIRECT">> \in Seq(Rules)
    BY DEF Rules
  <2>2. chain \in [Chains -> {Absent} \cup Seq(Rules)]
    BY <1>1, <2>1
  <2>3. hooks \in [Hooks -> Nat] /\ owed \in 0 .. 2
    BY <1>1
  <2>4. faults \in 0 .. MaxFaults /\ kills \in 0 .. MaxKills
    BY <1>2, BoundsAssumption
  <2>5. /\ phase \in [Actors -> {"off", "clean", "apply", "on", "stop"}]
        /\ todo \in [Actors -> Seq(Commands)]
        /\ cfg \in [Tunnels -> Configs \cup {Nil}]
    BY <1>2
  <2> QED
    BY <1>2, <2>2, <2>3, <2>4, <2>5 DEF TypeOK
<1>5. ProgramInv
  <2>1. \A t \in Tunnels : port # t
    BY <1>2, ActorsAssumption
  <2>2. \A a \in Actors : \A cmd \in ToSet(todo[a]) : cmd.op \in Removing
    BY <1>3 DEF ToSet
  <2> QED
    BY <1>2, <1>3, <2>1, <2>2 DEF ProgramInv, Installing
<1>6. OrderInv
  <2>1. \A a \in Actors : todo[a] = <<>> /\ phase[a] # "stop"
    BY <1>3
  <2>2. JumpsOnce(<<>>)
    BY DEF JumpsOnce, NeverAfter
  <2> QED
    BY <2>1, <2>2 DEF OrderInv
<1>7. CountInv
  <2>1. \A x \in Jumps : Count(x) <= 1
    BY <1>1, <1>2 DEF Jumps, Count
  <2> QED
    BY <1>3, <2>1 DEF CountInv
<1>8. OwedInv
  BY <1>1, <1>3 DEF OwedInv
<1>9. DueInv
  <2>1. CASE old
    <3>1. Later
      BY <1>1, <1>3, <2>1 DEF Later
    <3>2. \A cmd : Due(cmd)
      BY <3>1, DueIs
    <3>3. ASSUME NEW i \in Ifaces PROVE IfaceDue(i)
      <4>1. <<i, "PREROUTING">> \in Hooks
        BY Typed
      <4>2. <<i, "PREROUTING">> # j
        <5>1. <<i, "PREROUTING">>[2] = "PREROUTING" /\ j[2] = "PROXY"
          BY DEF j, OutputJump
        <5> QED
          BY <5>1
      <4>3. hooks[<<i, "PREROUTING">>] = 0
        BY <1>1, <4>1, <4>2
      <4> QED
        BY <4>3 DEF IfaceDue
    <3> QED
      BY <3>2, <3>3 DEF DueInv, JumpDue, RulesDue, ChainDue
  <2>2. CASE ~old
    <3>1. /\ \A c \in Chains : chain[c] = Absent
          /\ \A h \in Hooks : hooks[h] = 0
      BY <1>1, <2>2
    <3>2. Nil \notin Hooks /\ \A c \in {"OUTPUT", "PROXY"} : OutputJump(c) \in Hooks
          /\ \A i \in Ifaces : <<i, "PREROUTING">> \in Hooks
      BY Typed, ValuesAssumption
    <3>3. Count(Nil) = 0 /\ \A c \in {"OUTPUT", "PROXY"} : Count(OutputJump(c)) = 0
      BY <1>2, <3>1, <3>2 DEF Count
    <3>4. "OUTPUT" \in Chains /\ "PROXY" \in Chains /\ "PREROUTING" \in Chains
      BY DEF Chains
    <3> QED
      BY <3>1, <3>2, <3>3, <3>4 DEF DueInv, JumpDue, RulesDue, ChainDue, IfaceDue
  <2> QED
    BY <2>1, <2>2
<1>10. BuiltInv
  BY <1>3 DEF BuiltInv
<1>11. CalmInv
  BY <1>2 DEF CalmInv
<1> QED
  BY <1>4, <1>5, <1>6, <1>7, <1>8, <1>9, <1>10, <1>11 DEF RulesInv

\* Every step keeps the invariant.
LEMMA NextHolds ==
  ASSUME RulesInv, [Next]_vars
  PROVE  RulesInv'
<1>1. /\ TypeOK /\ ProgramInv /\ OrderInv /\ CountInv /\ OwedInv /\ DueInv
      /\ BuiltInv /\ CalmInv
  BY DEF RulesInv
<1>2. TypeOK' /\ ProgramInv' /\ OrderInv'
  BY <1>1, TypeStep, ProgramStep, OrderStep
<1>3. CountInv' /\ OwedInv' /\ DueInv'
  BY <1>1, CountStep, OwedStep, DueStep
<1>4. BuiltInv' /\ CalmInv'
  BY <1>1, BuiltStep, CalmStep
<1> QED
  BY <1>2, <1>3, <1>4 DEF RulesInv

\* The inductive invariant holds for every set of tunnels and every bound.
THEOREM Invariance == Spec => []RulesInv
<1>1. Init => RulesInv
  BY InitHolds
<1>2. RulesInv /\ [Next]_vars => RulesInv'
  BY NextHolds
<1> QED
  BY <1>1, <1>2, PTL DEF Spec

\* The tables, the programs and the counters keep their types.
THEOREM Typing == Spec => []TypeOK
<1>1. RulesInv => TypeOK
  BY DEF RulesInv
<1> QED
  BY <1>1, Invariance, PTL

\* What a jump or a chain that is not due is.
LEMMA RestLeaves ==
  ASSUME RulesInv, AtRest
  PROVE  \A cmd : ~Due(cmd)
<1>1. owed = 0 /\ \A a \in Actors : phase[a] = "off"
  BY DEF AtRest
<1> QED
  BY <1>1, ActorsAre DEF Due

\* The jumps of the device's own connections.
LEMMA DeviceJumps ==
  ASSUME NEW h \in Hooks, h[1] = "nat OUTPUT"
  PROVE  h = OutputJump("OUTPUT") \/ h = OutputJump("PROXY")
<1>1. ASSUME NEW i \in Ifaces PROVE h # <<i, "PREROUTING">>
  <2>1. i # "nat OUTPUT" /\ <<i, "PREROUTING">>[1] = i
    BY DEF Ifaces
  <2> QED
    BY <2>1
<1> QED
  BY <1>1, HooksAre

\* When everybody has ended and no command failed, nothing is left of the
\* rules, however Cleanup, Apply and net_clean.sh were mixed and whoever died.
THEOREM NothingLeftHolds == Spec => []NothingLeft
<1>1. RulesInv => NothingLeft
  <2> SUFFICES ASSUME RulesInv, AtRest, faults = 0
               PROVE  /\ \A h \in Hooks : h[1] = "nat OUTPUT" => hooks[h] = 0
                      /\ forward = 0
                      /\ chain["OUTPUT"] = Absent /\ chain["PROXY"] = Absent
                      /\ kills = 0 => /\ \A h \in Hooks : hooks[h] = 0
                                      /\ chain["PREROUTING"] = Absent
    BY DEF NothingLeft
  <2>1. /\ \A cmd : ~Due(cmd)
        /\ \A a \in Actors : phase[a] = "off"
    BY RestLeaves DEF AtRest
  <2>2. DueInv /\ TypeOK
    BY DEF RulesInv
  <2>3. /\ hooks \in [Hooks -> Nat] /\ forward \in Nat
        /\ Nil \notin Hooks
    BY <2>2, ValuesAssumption DEF TypeOK
  <2>4. ASSUME NEW c \in {"OUTPUT", "PROXY"}
        PROVE  hooks[OutputJump(c)] = 0 /\ chain[c] = Absent
    <3>1. JumpDue(OutputJump(c)) /\ ChainDue(c)
      BY <2>2 DEF DueInv
    <3>2. OutputJump(c) \in Hooks
      BY Typed
    <3>3. Count(OutputJump(c)) = hooks[OutputJump(c)]
      BY <2>3, <3>2 DEF Count
    <3> QED
      BY <2>1, <2>3, <3>1, <3>2, <3>3 DEF JumpDue, ChainDue
  <2>5. forward = 0
    <3>1. JumpDue(Nil) /\ Count(Nil) = forward
      BY <2>2 DEF DueInv, Count
    <3> QED
      BY <2>1, <2>3, <3>1 DEF JumpDue
  <2>7. ASSUME NEW h \in Hooks, h[1] = "nat OUTPUT" PROVE hooks[h] = 0
    <3>1. h = OutputJump("OUTPUT") \/ h = OutputJump("PROXY")
      BY <2>7, DeviceJumps
    <3> QED
      BY <2>4, <3>1
  <2>8. ASSUME kills = 0
        PROVE  chain["PREROUTING"] = Absent /\ \A h \in Hooks : hooks[h] = 0
    <3>1. ChainDue("PREROUTING") /\ \A i \in Ifaces : IfaceDue(i)
      BY <2>2, <2>8 DEF DueInv
    <3>2. chain["PREROUTING"] = Absent
      BY <2>1, <3>1 DEF ChainDue
    <3>3. ASSUME NEW i \in Ifaces PROVE hooks[<<i, "PREROUTING">>] = 0
      <4>1. <<i, "PREROUTING">> \in Hooks
        BY Typed
      <4>2. ~(hooks[<<i, "PREROUTING">>] > 0)
        BY <2>1, <3>1, ActorsAre DEF IfaceDue
      <4> QED
        BY <2>3, <4>1, <4>2
    <3> QED
      BY <2>4, <3>2, <3>3, HooksAre
  <2> QED
    BY <2>4, <2>5, <2>7, <2>8
<1> QED
  BY <1>1, Invariance, PTL

\* Even with one failed command the device is not redirected to a port that
\* nobody listens on once everybody has ended.
THEOREM SafeAtRestHolds == Spec => []SafeAtRest
<1>1. RulesInv => SafeAtRest
  <2> SUFFICES ASSUME RulesInv, AtRest
               PROVE  /\ faults <= 1 => ~Redirects("nat OUTPUT")
                      /\ faults = 0 => \A i \in Ifaces : ~Redirects(i)
    BY DEF SafeAtRest
  <2>1. \A cmd : ~Due(cmd)
    BY RestLeaves
  <2>2. DueInv /\ TypeOK
    BY DEF RulesInv
  <2>3. /\ hooks \in [Hooks -> Nat] /\ Nil \notin Hooks
    BY <2>2, ValuesAssumption DEF TypeOK
  <2>4. ASSUME NEW c \in Chains, RulesDue(c)
        PROVE  ~(chain[c] # Absent /\ Contains(chain[c], "REDIRECT"))
    <3>1. chain[c] \in {Absent, <<>>}
      BY <2>1, <2>4 DEF RulesDue
    <3>2. ~Contains(<<>>, "REDIRECT")
      BY DEF Contains
    <3> QED
      BY <3>1, <3>2
  <2>5. ASSUME NEW c \in {"OUTPUT", "PROXY"}, JumpDue(OutputJump(c))
        PROVE  ~(hooks[OutputJump(c)] > 0)
    <3>1. Count(OutputJump(c)) = hooks[OutputJump(c)]
      BY <2>3, Typed DEF Count
    <3> QED
      BY <2>1, <2>5, <3>1 DEF JumpDue
  <2>6. ASSUME faults = 0, NEW i \in Ifaces, Redirects(i) PROVE FALSE
    <3>1. PICK h \in Hooks : chain[h[2]] # Absent /\ Contains(chain[h[2]], "REDIRECT")
      BY <2>6 DEF Redirects
    <3>2. h[2] \in Chains
      BY HooksAre
    <3>3. RulesDue(h[2])
      BY <2>2, <2>6, <3>2 DEF DueInv
    <3> QED
      BY <2>4, <3>1, <3>2, <3>3
  <2>7. ASSUME faults <= 1, Redirects("nat OUTPUT") PROVE FALSE
    <3>1. PICK h \in Hooks :
            /\ h[1] = "nat OUTPUT" /\ hooks[h] > 0
            /\ chain[h[2]] # Absent /\ Contains(chain[h[2]], "REDIRECT")
      BY <2>7 DEF Redirects
    <3>2. PICK c \in {"OUTPUT", "PROXY"} : h = OutputJump(c)
      BY <3>1, DeviceJumps
    <3>3. h[2] = c /\ c \in Chains
      BY <3>2 DEF OutputJump, Chains
    <3>4. JumpDue(OutputJump(c)) \/ RulesDue(c)
      BY <2>2, <2>7 DEF DueInv
    <3> QED
      BY <2>4, <2>5, <3>1, <3>2, <3>3, <3>4
  <2> QED
    BY <2>6, <2>7
<1> QED
  BY <1>1, Invariance, PTL

\* With at most one failed command no jump is ever there twice, so that the one
\* -D of a Cleanup is enough.
THEOREM HookedOnceHolds == Spec => []HookedOnce
<1>1. RulesInv => HookedOnce
  <2> SUFFICES ASSUME RulesInv, faults <= 1
               PROVE  forward <= 1 /\ \A h \in Hooks : hooks[h] <= 1
    BY DEF HookedOnce
  <2>1. \A x \in Jumps : Count(x) <= 1
    BY DEF RulesInv, CountInv
  <2>2. Nil \in Jumps /\ \A h \in Hooks : h \in Jumps /\ h # Nil
    BY ValuesAssumption DEF Jumps
  <2> QED
    BY <2>1, <2>2 DEF Count
<1> QED
  BY <1>1, Invariance, PTL

\* A tunnel whose Apply has ended has done the whole of it.
LEMMA OnIsBuilt ==
  ASSUME RulesInv, NEW t \in Tunnels \ touched, phase[t] = "on"
  PROVE  /\ cfg[t] \in Configs
         /\ chain["OUTPUT"] = Start("OUTPUT", 3)
         /\ chain["PREROUTING"] = Start("PREROUTING", 2)
         /\ hooks[OutputJump("OUTPUT")] > 0
         /\ cfg[t].hotspot =>
              \A i \in ToSet(cfg[t].ifaces) : hooks[<<i, "PREROUTING">>] > 0
<1>1. ProgramInv /\ BuiltInv
  BY DEF RulesInv
<1>2. /\ t \notin fatal /\ todo[t] = <<>> /\ cfg[t] \in Configs
  BY <1>1, ActorsAre DEF ProgramInv, Installing
<1>3. Made(Built(t), chain, hooks, cfg[t].ifaces)
  BY <1>1, <1>2, MadeIs
<1>4. Built(t) \in {10, 12} /\ (Built(t) = 12 <=> cfg[t].hotspot)
  <2>1. /\ Len(Build(cfg[t])) \in {10, 12}
        /\ Len(Build(cfg[t])) = 12 <=> cfg[t].hotspot
    BY <1>2, ApplyAt
  <2>2. Len(todo[t]) = 0
    BY <1>2
  <2> QED
    BY <2>1, <2>2 DEF Built
<1>5. Built(t) >= 7 /\ Built(t) >= 9 /\ Built(t) >= 10 /\ Built(t) \in Int
      /\ (cfg[t].hotspot => Built(t) >= 11)
  BY <1>4
<1> QED
  BY <1>2, <1>3, <1>5 DEF Made

\* A tunnel that nobody disturbed and that reports its rules applied has both
\* chains whole, in order and jumped to, whichever commands failed.
THEOREM AppliedIsCompleteHolds == Spec => []AppliedIsComplete
<1>1. RulesInv => AppliedIsComplete
  <2> SUFFICES ASSUME RulesInv, NEW t \in Tunnels \ touched, phase[t] = "on"
               PROVE  /\ \A c \in {"OUTPUT", "PREROUTING"} :
                           chain[c] = Bypasses(c)
                      /\ hooks[<<"nat OUTPUT", "OUTPUT">>] > 0
                      /\ cfg[t].hotspot =>
                           \A i \in ToSet(cfg[t].ifaces) :
                             hooks[<<i, "PREROUTING">>] > 0
    BY DEF AppliedIsComplete
  <2>1. /\ chain["OUTPUT"] = Start("OUTPUT", 3)
        /\ chain["PREROUTING"] = Start("PREROUTING", 2)
        /\ hooks[OutputJump("OUTPUT")] > 0
        /\ cfg[t].hotspot =>
             \A i \in ToSet(cfg[t].ifaces) : hooks[<<i, "PREROUTING">>] > 0
    BY OnIsBuilt
  <2>2. /\ Start("OUTPUT", 3) = Bypasses("OUTPUT")
        /\ Start("PREROUTING", 2) = Bypasses("PREROUTING")
    BY StartsAre, Zenon DEF Bypasses
  <2> QED
    BY <2>1, <2>2 DEF OutputJump
<1> QED
  BY <1>1, Invariance, PTL

\* When no command has failed, the jump is there once Apply has made it, which
\* is after the chain is whole.
LEMMA HookedIsBuilt ==
  ASSUME RulesInv, NEW t \in Tunnels \ touched, phase[t] \in {"apply", "on"},
         faults = 0, hooks[OutputJump("OUTPUT")] > 0
  PROVE  chain["OUTPUT"] = Start("OUTPUT", 3)
<1>1. ProgramInv /\ BuiltInv /\ CountInv /\ TypeOK /\ CalmInv
  BY DEF RulesInv
<1>2. /\ t \notin fatal /\ cfg[t] \in Configs
      /\ t \in Tunnels /\ t \in Actors /\ faults <= 1 /\ faults # 1
  BY <1>1, ActorsAre DEF CalmInv, ProgramInv, Installing
<1>3. CASE phase[t] = "on"
  BY <1>3, OnIsBuilt
<1>4. CASE phase[t] = "apply"
  <2> DEFINE x == OutputJump("OUTPUT")
             k == cfg[t]
             p == Apply(k)
             n == Len(todo[t])
             l == Len(Build(k))
  <2>1. x \in Jumps /\ Count(x) = hooks[x]
    BY Typed, ValuesAssumption DEF Jumps, Count
  <2> HIDE DEF x
  <2>2. Count(x) > 0 /\ Count(x) <= 1
    <3>1. Count(x) <= 1
      BY <1>1, <1>2, <2>1 DEF CountInv
    <3> QED
      BY <2>1, <3>1 DEF x
  <2>3. Ins(x) \notin ToSet(todo[t])
    <3>1. phase[t] = "apply" /\ Ahead(t, Ins(x)) => Count(x) = 0 \/ faults = 1
      BY <1>1, <1>2, <2>1, Zenon DEF CountInv
    <3>2. Count(x) # 0
      BY <2>2
    <3> QED
      BY <1>2, <1>4, <3>1, <3>2 DEF Ahead
  <2>4. /\ p \in Seq(Commands) /\ l \in {10, 12} /\ Len(p) = 10 + l
        /\ \A j \in 1 .. l : p[10 + j] = Build(k)[j]
    BY <1>2, ApplyAt
  <2>5. n <= Len(p) /\ todo[t] = Rest(p, n)
    BY <1>1, <1>2, <1>4 DEF ProgramInv
  <2>6. Build(k)[10] = Ins(x)
    <3>1. PICK i \in Ifaces : k.ifaces = <<i>>
      BY <1>2, ConfigIs
    <3> QED
      BY <1>2, <3>1, BuildAt DEF x
  <2>7. n \in Nat
    BY <1>1, <1>2 DEF TypeOK
  <2> HIDE DEF p, n, l, k
  <2>8. p[20] = Ins(x)
    <3>1. 10 \in 1 .. l /\ 10 + 10 = 20
      BY <2>4
    <3>2. p[10 + 10] = Build(k)[10]
      BY <2>4, <3>1
    <3> QED
      BY <2>6, <3>1, <3>2
  <2>9. 20 \in 1 .. Len(p) /\ n \in 0 .. Len(p)
    BY <2>4, <2>5, <2>7
  <2>10. 20 > Len(p) - n => p[20] \in ToSet(Rest(p, n))
    <3>1. p \in Seq(Commands)
      BY <2>4
    <3>2. \A j \in 1 .. Len(p) : j > Len(p) - n => p[j] \in ToSet(Rest(p, n))
      BY <2>9, <3>1, RestIs
    <3> QED
      BY <2>9, <3>2, Zenon
  <2>11. ~(20 > Len(p) - n)
    BY <2>3, <2>5, <2>8, <2>10
  <2>12. l - n >= 10
    BY <2>4, <2>7, <2>9, <2>11
  <2>13. Built(t) = l - n
    BY DEF Built, l, n, k
  <2>14. Built(t) >= 7
    BY <2>4, <2>7, <2>12, <2>13
  <2>15. Made(Built(t), chain, hooks, cfg[t].ifaces)
    BY <1>1, <1>2, MadeIs
  <2> QED
    BY <2>14, <2>15 DEF Made
<1> QED
  BY <1>3, <1>4

\* While the device is redirected by an Apply that goes well the rule that lets
\* the daemon's own connections out comes first in the chain.
THEOREM NoLoopHolds == Spec => []NoLoop
<1>1. RulesInv => NoLoop
  <2>1. ASSUME RulesInv, faults = 0, NEW t \in Tunnels \ touched,
               phase[t] \in {"apply", "on"}, hooks[OutputJump("OUTPUT")] > 0
        PROVE  Head(chain["OUTPUT"]) = "uid 0 RETURN"
    <3>1. \A u, b, r : Head(<<u, b, r>>) = u
      OBVIOUS
    <3>2. chain["OUTPUT"] = <<"uid 0 RETURN", "RETURN", "REDIRECT">>
      BY <2>1, HookedIsBuilt, StartsAre, Zenon
    <3> QED
      BY <3>1, <3>2, Zenon
  <2>2. ASSUME RulesInv, faults = 0, NEW t \in Tunnels,
               phase[t] \in {"apply", "on"}
        PROVE  ~(hooks[OutputJump("PROXY")] > 0)
    <3>1. hooks[OutputJump("PROXY")] = 0 \/ faults = 1
      <4>1. faults <= 1 /\ CountInv
        BY <2>2 DEF RulesInv
      <4> QED
        BY <2>2, <4>1, Zenon DEF CountInv
    <3> QED
      BY <2>2, <3>1
  <2>3. ASSUME Redirects("nat OUTPUT")
        PROVE  \/ hooks[OutputJump("OUTPUT")] > 0
               \/ hooks[OutputJump("PROXY")] > 0
    BY <2>3, DeviceJumps, Zenon DEF Redirects
  <2> QED
    BY <2>1, <2>2, <2>3, Zenon DEF NoLoop
<1> QED
  BY <1>1, Invariance, PTL

(***************************************************************************)
(* What the rules are to the device.                                       *)
(***************************************************************************)
DeviceVars == <<port, Undisturbed, Redirected>>

LEMMA RedirectedIs ==
  /\ Redirected \in BOOLEAN /\ (Redirected)' \in BOOLEAN
  /\ chain' = chain /\ hooks' = hooks => (Redirected' <=> Redirected)
<1>1. Redirected \in BOOLEAN /\ (Redirected)' \in BOOLEAN
  BY Zenon DEF Redirected, Redirects
<1>2. ASSUME chain' = chain, hooks' = hooks
      PROVE  Redirected' <=> Redirected
  BY <1>2, Zenon DEF Redirected, Redirects
<1> QED
  BY <1>1, <1>2

\* A table with no new jump and no new rule redirects nothing new.
LEMMA LessRedirects ==
  ASSUME \A h \in Hooks : hooks'[h] > 0 => hooks[h] > 0,
         \A c \in Chains : chain'[c] = chain[c] \/ chain'[c] \in {Absent, <<>>}
  PROVE  Redirected' => Redirected
<1>1. ASSUME NEW h \in Hooks, chain'[h[2]] # Absent,
             Contains(chain'[h[2]], "REDIRECT")
      PROVE  chain'[h[2]] = chain[h[2]]
  <2>1. h[2] \in Chains
    BY HooksAre
  <2>2. ~Contains(<<>>, "REDIRECT")
    BY DEF Contains
  <2>3. chain'[h[2]] # <<>>
    BY <1>1, <2>2, Zenon
  <2> QED
    BY <1>1, <2>1, <2>3, Zenon
<1> QED
  BY <1>1, Zenon DEF Redirected, Redirects

\* A command that removes redirects nothing.
LEMMA RemovingLifts ==
  ASSUME TypeOK, NEW cmd \in Commands, cmd.op \in Removing, ~Refused(cmd),
         Effect(cmd)
  PROVE  Redirected' => Redirected
<1>1. ASSUME NEW x \in Jumps, cmd = Del(x)
      PROVE  Redirected' => Redirected
  <2>1. /\ chain' = chain
        /\ \A y \in Jumps :
             Count(y)' = IF y = x THEN Count(y) - 1 ELSE Count(y)
    BY <1>1, DelRuns
  <2>2. ASSUME NEW h \in Hooks, hooks'[h] > 0 PROVE hooks[h] > 0
    <3>1. h \in Jumps /\ h # Nil
      BY ValuesAssumption DEF Jumps
    <3>2. Count(h)' = hooks'[h] /\ Count(h) = hooks[h] /\ hooks[h] \in Nat
      BY <3>1 DEF Count, TypeOK
    <3>3. Count(h)' = Count(h) - 1 \/ Count(h)' = Count(h)
      BY <2>1, <3>1
    <3> QED
      BY <2>2, <3>2, <3>3
  <2> QED
    BY <2>1, <2>2, LessRedirects
<1>2. ASSUME NEW c \in Chains, NEW o \in {"-F", "-X"}, cmd = Cmd(o, c)
      PROVE  Redirected' => Redirected
  <2>1. /\ chain' = [chain EXCEPT ![c] = IF o = "-X" THEN Absent ELSE <<>>]
        /\ hooks' = hooks
    BY <1>2, ChainRuns
  <2>2. \A d \in Chains : chain'[d] = chain[d] \/ chain'[d] \in {Absent, <<>>}
    BY <2>1 DEF TypeOK
  <2> QED
    BY <2>1, <2>2, LessRedirects
<1>3. ASSUME NEW x \in Jumps, cmd = Ins(x) PROVE FALSE
  <2>1. Ins(x).op \notin Removing
    BY DelIs
  <2> QED
    BY <1>3, <2>1
<1>4. ASSUME NEW o \in {"-N", "-A"}, NEW z, cmd = Cmd(o, z) PROVE FALSE
  <2>1. cmd.op = o
    BY <1>4, CmdIs
  <2> QED
    BY <2>1 DEF Removing
<1> QED
  BY <1>1, <1>2, <1>3, <1>4, CommandIs

\* Only Apply redirects.
LEMMA RunRedirects ==
  ASSUME RulesInv, NEW a \in Actors, Run(a), phase[a] # "apply"
  PROVE  Redirected' => Redirected
<1>1. TypeOK /\ ProgramInv
  BY DEF RulesInv
<1> DEFINE cmd == Head(todo[a])
<1>2. /\ cmd \in Commands /\ Ahead(a, cmd)
      /\ \/ ~Refused(cmd) /\ Effect(cmd)
         \/ tableVars' = tableVars
  BY <1>1, RunIs
<1>3. cmd.op \in Removing
  BY <1>1, <1>2 DEF ProgramInv, Ahead
<1> HIDE DEF cmd
<1>4. CASE ~Refused(cmd) /\ Effect(cmd)
  BY <1>1, <1>2, <1>3, <1>4, RemovingLifts
<1>5. CASE tableVars' = tableVars
  <2>1. chain' = chain /\ hooks' = hooks
    BY <1>5 DEF tableVars
  <2> QED
    BY <2>1, RedirectedIs
<1> QED
  BY <1>2, <1>4, <1>5

\* What an undisturbed tunnel has applied redirects the device.
LEMMA AppliedRedirects ==
  ASSUME RulesInv, Undisturbed # {}
  PROVE  Redirected
<1>1. PICK t \in Tunnels \ touched : phase[t] = "on"
  BY DEF Undisturbed
<1>2. /\ chain["OUTPUT"] = Start("OUTPUT", 3)
      /\ hooks[OutputJump("OUTPUT")] > 0
  BY <1>1, OnIsBuilt
<1>3. \A u, b, r : Contains(<<u, b, r>>, r)
  <2> TAKE u, b, r
  <2>1. 3 \in 1 .. Len(<<u, b, r>>) /\ <<u, b, r>>[3] = r
    OBVIOUS
  <2> QED
    BY <2>1 DEF Contains
<1>4. Contains(chain["OUTPUT"], "REDIRECT")
  BY <1>2, <1>3, StartsAre, Zenon
<1>5. chain["OUTPUT"] # Absent
  <2>1. 3 \in 0 .. 3
    OBVIOUS
  <2> QED
    BY <1>2, <2>1, StartsAre, Zenon
<1>6. /\ OutputJump("OUTPUT") \in Hooks
      /\ OutputJump("OUTPUT")[1] = "nat OUTPUT"
      /\ OutputJump("OUTPUT")[2] = "OUTPUT"
  <2>1. \A u, v : <<u, v>>[1] = u /\ <<u, v>>[2] = v
    OBVIOUS
  <2>2. OutputJump("OUTPUT") \in Hooks
    BY Typed
  <2> QED
    BY <2>1, <2>2, Zenon DEF OutputJump
<1> QED
  BY <1>2, <1>4, <1>5, <1>6, Zenon DEF Redirected, Redirects

\* At most one tunnel has applied its rules, and it has the port.
LEMMA UndisturbedIs ==
  ASSUME ProgramInv
  PROVE  /\ \A t \in Undisturbed : /\ Undisturbed = {t} /\ t \in Tunnels
                                   /\ port = t /\ todo[t] = <<>>
         /\ \A t \in Tunnels : phase[t] \in {"clean", "apply"} => Undisturbed = {}
<1>1. \A t \in Undisturbed : t \in Tunnels /\ phase[t] = "on"
  BY DEF Undisturbed
<1>2. ASSUME NEW t \in Tunnels, phase[t] \in Installing, NEW u \in Undisturbed
      PROVE  u = t
  BY <1>1, <1>2, OneInstalls DEF Installing
<1>3. ASSUME NEW t \in Undisturbed PROVE Undisturbed = {t}
  BY <1>1, <1>2, <1>3 DEF Installing
<1>4. ASSUME NEW t \in Tunnels, phase[t] \in {"clean", "apply"}
      PROVE  Undisturbed = {}
  BY <1>1, <1>2, <1>4 DEF Installing
<1>5. \A t \in Undisturbed : port = t /\ todo[t] = <<>>
  BY <1>1, ActorsAre DEF ProgramInv, Installing
<1> QED
  BY <1>1, <1>3, <1>4, <1>5

\* A step that moves one actor between phases other than "on" disturbs nothing.
LEMMA OthersStay ==
  ASSUME TypeOK, NEW a \in Actors, NEW ph, NEW s, Goto(a, ph, s), ph # "on",
         phase[a] # "on", UNCHANGED touched
  PROVE  Undisturbed' = Undisturbed
<1>1. /\ phase'[a] = ph
      /\ \A b \in Actors \ {a} : phase'[b] = phase[b]
  BY Goes
<1>2. \A t \in Tunnels : phase'[t] = "on" <=> phase[t] = "on"
  BY <1>1, ActorsAre
<1> QED
  BY <1>2 DEF Undisturbed

\* A step is one of the promise's, or none.
LEMMA RunDevice ==
  ASSUME RulesInv, NEW a \in Actors, Run(a)
  PROVE  [Device!Next]_DeviceVars
<1>1. TypeOK /\ ProgramInv
  BY DEF RulesInv
<1>2. /\ todo[a] # <<>> /\ port' = port /\ phase' = phase
      /\ touched' = touched \cup {t \in Tunnels \ {a} : phase[t] \in Installing}
  BY <1>1, RunIs
<1>3. phase[a] # "apply" => (Redirected' => Redirected)
  BY RunRedirects
<1>4. Redirected \in BOOLEAN /\ (Redirected)' \in BOOLEAN
  BY RedirectedIs
<1>5. CASE Undisturbed = {}
  <2>1. Undisturbed' = {}
    BY <1>2, <1>5 DEF Undisturbed
  <2>2. CASE Redirected' = Redirected
    BY <1>2, <1>5, <2>1, <2>2 DEF DeviceVars
  <2>3. CASE Redirected' = FALSE
    <3>1. Device!Lift
      BY <1>2, <1>5, <2>1, <2>3 DEF Device!Lift
    <3> QED
      BY <3>1 DEF Device!Next
  <2>4. CASE Redirected' = TRUE /\ Redirected = FALSE
    <3>1. phase[a] = "apply"
      BY <1>3, <2>4
    <3>2. a \in Tunnels /\ port = a
      BY <1>1, <3>1, ActorsAre DEF ProgramInv, Installing
    <3>3. port # Nil
      BY <3>2, ActorsAssumption
    <3>4. Device!Redirect
      BY <1>2, <1>5, <2>1, <2>4, <3>3 DEF Device!Redirect
    <3> QED
      BY <3>4 DEF Device!Next
  <2> QED
    BY <1>4, <2>2, <2>3, <2>4
<1>6. ASSUME NEW t \in Undisturbed
      PROVE  Device!Disturb
  <2>1. Undisturbed = {t} /\ t \in Tunnels /\ phase[t] = "on" /\ todo[t] = <<>>
    BY <1>1, UndisturbedIs DEF Undisturbed
  <2>2. t # a
    BY <1>2, <2>1
  <2>3. phase[a] # "apply"
    <3>1. phase[a] = "apply" => a \in Tunnels
      BY <1>1, ActorsAre DEF ProgramInv
    <3> QED
      BY <1>1, <1>6, <3>1, UndisturbedIs
  <2>4. t \in touched'
    BY <1>2, <2>1, <2>2 DEF Installing
  <2>5. Undisturbed' = {}
    <3>1. Undisturbed' \subseteq Undisturbed
      BY <1>2 DEF Undisturbed
    <3>2. t \notin Undisturbed'
      BY <2>4 DEF Undisturbed
    <3> QED
      BY <2>1, <3>1, <3>2
  <2>6. Redirected' => Redirected
    BY <1>3, <2>3
  <2> QED
    BY <1>2, <1>4, <2>5, <2>6 DEF Device!Disturb
<1> QED
  BY <1>5, <1>6 DEF Device!Next

LEMMA DeviceStep ==
  ASSUME RulesInv, Undisturbed' # {} => (Redirected)', [Next]_vars
  PROVE  [Device!Next]_DeviceVars
<1>1. TypeOK /\ ProgramInv
  BY DEF RulesInv
<1>2. ASSUME tableVars' = tableVars PROVE Redirected' = Redirected
  <2>1. chain' = chain /\ hooks' = hooks
    BY <1>2 DEF tableVars
  <2> QED
    BY <2>1, RedirectedIs
<1>3. ASSUME tableVars' = tableVars, port' = port, Undisturbed' = Undisturbed
      PROVE  [Device!Next]_DeviceVars
  BY <1>2, <1>3 DEF DeviceVars
<1>4. ASSUME NEW t \in Tunnels, NEW k \in Configs, Listen(t, k)
      PROVE  [Device!Next]_DeviceVars
  <2>1. /\ phase[t] = "off" /\ port = Nil /\ port' = t
        /\ Goto(t, "clean", Cleanup(k.ifaces))
        /\ tableVars' = tableVars /\ touched' = touched
    BY <1>4 DEF Listen
  <2>2. Undisturbed' = Undisturbed
    BY <1>1, <2>1, OthersStay, ActorsAre
  <2>3. Device!Take(t)
    BY <1>2, <2>1, <2>2 DEF Device!Take
  <2> QED
    BY <2>3 DEF Device!Next
<1>5. ASSUME NEW t \in Tunnels, StartApply(t)
      PROVE  [Device!Next]_DeviceVars
  <2>1. /\ phase[t] = "clean" /\ port' = port
        /\ Goto(t, "apply", Apply(cfg[t]))
        /\ tableVars' = tableVars /\ touched' = touched
    BY <1>5 DEF StartApply
  <2>2. Undisturbed' = Undisturbed
    BY <1>1, <2>1, OthersStay, ActorsAre
  <2> QED
    BY <1>3, <2>1, <2>2
<1>6. ASSUME NEW t \in Tunnels, Applied(t)
      PROVE  [Device!Next]_DeviceVars
  <2>1. /\ phase[t] = "apply" /\ Goto(t, "on", <<>>)
        /\ tableVars' = tableVars /\ touched' = touched /\ port' = port
    BY <1>6 DEF Applied
  <2>2. /\ phase'[t] = "on"
        /\ \A b \in Actors \ {t} : phase'[b] = phase[b]
    BY <1>1, <2>1, Goes, ActorsAre
  <2>3. Undisturbed = {}
    BY <1>1, <2>1, UndisturbedIs
  <2>4. Undisturbed' = IF t \in touched THEN {} ELSE {t}
    BY <2>1, <2>2, <2>3, ActorsAre DEF Undisturbed
  <2>5. CASE t \in touched
    BY <1>3, <2>1, <2>3, <2>4, <2>5
  <2>6. CASE t \notin touched
    <3>1. port = t
      BY <1>1, <2>1 DEF ProgramInv, Installing
    <3>2. Redirected' = Redirected
      BY <1>2, <2>1
    <3>3. Redirected
      BY <2>4, <2>6, <3>2
    <3>4. Device!Apply(t)
      BY <2>1, <2>4, <2>6, <3>1, <3>2, <3>3 DEF Device!Apply
    <3> QED
      BY <3>4 DEF Device!Next
  <2> QED
    BY <2>5, <2>6
<1>7. ASSUME NEW t \in Tunnels, Stop(t)
      PROVE  [Device!Next]_DeviceVars
  <2>1. /\ phase[t] \in {"on", "apply"} /\ port' = Nil
        /\ Goto(t, "stop", Cleanup(cfg[t].ifaces))
        /\ tableVars' = tableVars /\ touched' = touched \ {t}
    BY <1>7 DEF Stop
  <2>2. /\ phase'[t] = "stop"
        /\ \A b \in Actors \ {t} : phase'[b] = phase[b]
    BY <1>1, <2>1, Goes, ActorsAre
  <2>3. ASSUME NEW u \in Tunnels, phase'[u] = "on" PROVE FALSE
    <3>1. u # t /\ phase[u] = "on"
      BY <2>2, <2>3, ActorsAre
    <3> QED
      BY <1>1, <2>1, <3>1, OneInstalls DEF Installing
  <2>4. Undisturbed' = {}
    BY <2>3 DEF Undisturbed
  <2>5. Device!Leave
    BY <1>2, <2>1, <2>4 DEF Device!Leave
  <2> QED
    BY <2>5 DEF Device!Next
<1>8. ASSUME NEW a \in Actors, Cleaned(a)
      PROVE  [Device!Next]_DeviceVars
  <2>1. /\ phase[a] = "stop" /\ port' = port /\ Goto(a, "off", <<>>)
        /\ tableVars' = tableVars /\ touched' = touched
    BY <1>8 DEF Cleaned
  <2>2. Undisturbed' = Undisturbed
    BY <1>1, <2>1, OthersStay
  <2> QED
    BY <1>3, <2>1, <2>2
<1>9. ASSUME NetClean
      PROVE  [Device!Next]_DeviceVars
  <2>1. /\ phase[Script] = "off" /\ port' = port
        /\ Goto(Script, "stop", Cleanup(Default))
        /\ tableVars' = tableVars /\ touched' = touched
    BY <1>9 DEF NetClean
  <2>2. Undisturbed' = Undisturbed
    BY <1>1, <2>1, OthersStay, ActorsAre
  <2> QED
    BY <1>3, <2>1, <2>2
<1>10. ASSUME Kill
       PROVE  [Device!Next]_DeviceVars
  <2>1. /\ port' = Nil /\ tableVars' = tableVars
        /\ phase' = [a \in Actors |-> IF a = Script THEN phase[a] ELSE "off"]
    BY <1>10 DEF Kill
  <2>2. \A t \in Tunnels : phase'[t] = "off"
    BY <2>1, ActorsAre
  <2>3. Undisturbed' = {}
    BY <2>2 DEF Undisturbed
  <2>4. Device!Leave
    BY <1>2, <2>1, <2>3 DEF Device!Leave
  <2> QED
    BY <2>4 DEF Device!Next
<1>11. ASSUME UNCHANGED vars
       PROVE  [Device!Next]_DeviceVars
  <2>1. /\ tableVars' = tableVars /\ port' = port
        /\ phase' = phase /\ touched' = touched
    BY <1>11 DEF vars
  <2>2. Undisturbed' = Undisturbed
    BY <2>1 DEF Undisturbed
  <2> QED
    BY <1>3, <2>1, <2>2
<1>12. ASSUME NEW a \in Actors, Run(a)
       PROVE  [Device!Next]_DeviceVars
  BY <1>12, RunDevice
<1> QED
  BY <1>4, <1>5, <1>6, <1>7, <1>8, <1>9, <1>10, <1>11, <1>12 DEF Next

\* Whichever commands run, are refused or fail, and whoever dies: the device's
\* connections come to be redirected only by the tunnel that has the port, and
\* those of a tunnel whose rules are applied stay so until it gives the port up
\* or a command of another process comes in between.
THEOREM RedirectionKeptHolds == Spec => RedirectionKept
<1>1. Init => Device!Init
  <2> SUFFICES ASSUME Init PROVE Device!Init
    OBVIOUS
  <2>1. port = Nil /\ phase = [a \in Actors |-> "off"]
    BY DEF Init
  <2>2. Undisturbed = {}
    BY <2>1, ActorsAre DEF Undisturbed
  <2> QED
    BY <2>1, <2>2, RedirectedIs DEF Device!Init
<1>2. RulesInv => (Undisturbed # {} => Redirected)
  BY AppliedRedirects
<1>3. /\ RulesInv /\ (Undisturbed # {} => Redirected)' /\ [Next]_vars
      => [Device!Next]_<<port, Undisturbed, Redirected>>
  BY DeviceStep DEF DeviceVars
<1> QED
  BY <1>1, <1>2, <1>3, Invariance, PTL DEF Spec, RedirectionKept, Device!Spec

=============================================================================
