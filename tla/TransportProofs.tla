-------------------------- MODULE TransportProofs --------------------------
(***************************************************************************)
(* For any number of attempts and any set of plans: no attempt takes from  *)
(* the cache an answer known when its host was evicted, and the SSH client *)
(* finds the banner its server sent wherever the reads cut it, but for the *)
(* attempts whose probe ended within it.                                   *)
(***************************************************************************)
EXTENDS Transport, SequenceTheorems, TLAPS

(***************************************************************************)
(* Where a mark can be in a sequence that is joined or cut.                *)
(***************************************************************************)
LEMMA ContainsConcat ==
    ASSUME NEW S, NEW s \in Seq(S), NEW t \in Seq(S), NEW x
    PROVE  Contains(s \o t, x) <=> Contains(s, x) \/ Contains(t, x)
<1>1. /\ Len(s \o t) = Len(s) + Len(t) /\ Len(s) \in Nat /\ Len(t) \in Nat
      /\ \A i \in 1..Len(s) : (s \o t)[i] = s[i]
      /\ \A i \in 1..Len(t) : (s \o t)[i + Len(s)] = t[i]
  BY ConcatProperties, LenProperties
<1>2. ASSUME NEW i \in 1..Len(s \o t), i \notin 1..Len(s)
      PROVE  i - Len(s) \in 1..Len(t) /\ (i - Len(s)) + Len(s) = i
  BY <1>1, <1>2
<1>3. Contains(s \o t, x) => Contains(s, x) \/ Contains(t, x)
  BY <1>1, <1>2 DEF Contains
<1>4. Contains(s, x) => Contains(s \o t, x)
  BY <1>1 DEF Contains
<1>5. Contains(t, x) => Contains(s \o t, x)
  <2> SUFFICES ASSUME NEW i \in 1..Len(t), t[i] = x PROVE Contains(s \o t, x)
    BY DEF Contains
  <2>1. i + Len(s) \in 1..Len(s \o t) /\ (s \o t)[i + Len(s)] = x
    BY <1>1
  <2> QED BY <2>1 DEF Contains
<1> QED BY <1>3, <1>4, <1>5

LEMMA ContainsAppend ==
    ASSUME NEW S, NEW s \in Seq(S), NEW y \in S, NEW x
    PROVE  /\ Append(s, y) \in Seq(S)
           /\ Contains(Append(s, y), x) <=> Contains(s, x) \/ x = y
<1>1. Append(s, y) = s \o <<y>> /\ <<y>> \in Seq(S)
  BY AppendIsConcat
<1>2. Contains(<<y>>, x) <=> x = y
  BY DEF Contains
<1>3. Contains(s \o <<y>>, x) <=> Contains(s, x) \/ Contains(<<y>>, x)
  BY <1>1, ContainsConcat
<1> QED BY <1>1, <1>2, <1>3, AppendProperties

LEMMA ContainsCut ==
    ASSUME NEW S, NEW s \in Seq(S), NEW n \in 1..Len(s), NEW x
    PROVE  /\ SubSeq(s, 1, n) \in Seq(S) /\ SubSeq(s, n + 1, Len(s)) \in Seq(S)
           /\ Contains(s, x) <=> \/ Contains(SubSeq(s, 1, n), x)
                                 \/ Contains(SubSeq(s, n + 1, Len(s)), x)
<1> DEFINE u == SubSeq(s, 1, n)
           v == SubSeq(s, n + 1, Len(s))
<1>1. u \in Seq(S) /\ v \in Seq(S)
  OBVIOUS
<1>2. s = u \o v
  OBVIOUS
<1> HIDE DEF u, v
<1>3. Contains(u \o v, x) <=> Contains(u, x) \/ Contains(v, x)
  BY <1>1, ContainsConcat
<1>4. /\ u \in Seq(S) /\ v \in Seq(S)
      /\ (Contains(s, x) <=> Contains(u, x) \/ Contains(v, x))
  BY <1>1, <1>2, <1>3
<1> QED BY <1>4 DEF u, v

\* What is left of the bytes that were read, for SSH to read them again.
LEMMA BannerIsSeq ==
    /\ <<>> \in Seq(Marks) /\ <<"ban", "ner">> \in Seq(Marks)
    /\ HasBanner(<<"ban", "ner">>)
<1>1. "ban" \in Marks /\ "ner" \in Marks
  BY DEF Marks
<1>2. <<"ban", "ner">> \in Seq(Marks) /\ <<>> \in Seq(Marks)
  BY <1>1
<1>3. \E i \in 1..Len(<<"ban", "ner">>) : <<"ban", "ner">>[i] = "ban"
  <2> WITNESS 1 \in 1..Len(<<"ban", "ner">>)
  <2> QED OBVIOUS
<1>4. \E i \in 1..Len(<<"ban", "ner">>) : <<"ban", "ner">>[i] = "ner"
  <2> WITNESS 2 \in 1..Len(<<"ban", "ner">>)
  <2> QED OBVIOUS
<1> QED BY <1>2, <1>3, <1>4 DEF HasBanner, Contains

-----------------------------------------------------------------------------
(* Every step keeps the invariant.                                         *)

\* An attempt that gives up leaves nothing behind.
LEMMA LeaveKeeps ==
    ASSUME TransportInv, NEW a \in Attempts, Leave(a)
    PROVE  TransportInv'
<1> USE PlansAssumption DEF TransportInv, Leave, Goto
<1>1. TypeOK'
  <2> USE DEF TypeOK
  <2>1. pc' \in [Attempts -> Steps] /\ again' \subseteq Attempts
    BY DEF Steps
  <2>2. plan' \in [Attempts -> Plans \cup {Nil}]
    OBVIOUS
  <2>3. ans' \in [Attempts -> Answers \cup {Nil}]
    OBVIOUS
  <2>4. \A b \in Attempts : ans'[b] # Nil <=> pc'[b] \in {"ask", "dial"}
    OBVIOUS
  <2>5. remote' \in [Attempts -> Peers]
    BY DEF Peers
  <2>6. inbound' \in [Attempts -> Seq(Marks)] /\ got' \in [Attempts -> Seq(Marks)]
        /\ torn' \subseteq Attempts
    OBVIOUS
  <2> QED BY <2>1, <2>2, <2>3, <2>4, <2>5, <2>6
<1>2. PlanInv'
  BY DEF TypeOK, PlanInv
<1>3. NoneOld'
  BY DEF TypeOK, NoneOld, Answers
<1>4. WireInv'
  BY DEF TypeOK, WireInv, Dialing, Lost
<1> QED BY <1>1, <1>2, <1>3, <1>4

\* The types.
LEMMA TypeStep ==
    TransportInv /\ Next => TypeOK'
<1> SUFFICES ASSUME TransportInv, Next PROVE TypeOK'
  OBVIOUS
<1> USE PlansAssumption DEF TransportInv, TypeOK, PlanInv, Steps, Answers,
        Goto, dialVars, wireVars
<1>1. ASSUME NEW a \in Attempts, Leave(a) PROVE TypeOK'
  BY <1>1, LeaveKeeps
<1>2. ASSUME NEW a \in Attempts, NEW p \in Plans, Begin(a, p) PROVE TypeOK'
  BY <1>2 DEF Begin
<1>3. ASSUME NEW a \in Attempts, Lookup(a) PROVE TypeOK'
  <2>1. /\ UNCHANGED <<cache, plan, again, remote, inbound, got, torn>>
        /\ pc[a] = "lookup" /\ plan[a] \in Plans
    BY <1>3 DEF Lookup
  <2>2. cache[Key(a)] \in Answers \cup {Nil}
    BY <2>1 DEF Key
  <2>3. PICK l \in {"dial", "ask"}, w \in Answers :
           pc' = [pc EXCEPT ![a] = l] /\ ans' = [ans EXCEPT ![a] = w]
    BY <1>3, <2>2 DEF Lookup
  <2>4. pc' \in [Attempts -> Steps]
    BY <2>3
  <2>5. ans' \in [Attempts -> Answers \cup {Nil}]
    BY <2>3
  <2>6. ASSUME NEW b \in Attempts PROVE ans'[b] # Nil <=> pc'[b] \in {"ask", "dial"}
    <3>1. CASE b = a BY <2>3, <3>1
    <3>2. CASE b # a BY <2>3, <3>2
    <3> QED BY <3>1, <3>2
  <2> QED BY <2>1, <2>4, <2>5, <2>6
<1>4. ASSUME NEW a \in Attempts, Answered(a) PROVE TypeOK'
  BY <1>4 DEF Answered, Key
<1>5. ASSUME NEW a \in Attempts, Unanswered(a), ~Leave(a) PROVE TypeOK'
  <2>1. UNCHANGED <<cache, plan, again, remote, inbound, got, torn>>
    BY <1>5 DEF Unanswered
  <2>2. PICK l \in {"system", "last"} :
           pc' = [pc EXCEPT ![a] = l] /\ ans' = [ans EXCEPT ![a] = Nil]
    BY <1>5 DEF Unanswered
  <2>3. pc' \in [Attempts -> Steps] /\ ans' \in [Attempts -> Answers \cup {Nil}]
    BY <2>2
  <2>4. ASSUME NEW b \in Attempts PROVE ans'[b] # Nil <=> pc'[b] \in {"ask", "dial"}
    <3>1. CASE b = a BY <2>2, <3>1
    <3>2. CASE b # a BY <2>2, <3>2
    <3> QED BY <3>1, <3>2
  <2> QED BY <2>1, <2>3, <2>4
<1>6. ASSUME NEW a \in Attempts, Connected(a) PROVE TypeOK'
  BY <1>6 DEF Connected, Dialed, Opening, Peer, Peers
<1>7. ASSUME NEW a \in Attempts, DialFails(a), ~Leave(a) PROVE TypeOK'
  BY <1>7 DEF DialFails
<1>8. ASSUME NEW a \in Attempts, Reply(a) PROVE TypeOK'
  <2>1. PICK n \in 1..Len(inbound[a]) : Read(a, n)
    BY <1>8 DEF Reply
  <2>2. SubSeq(inbound[a], n + 1, Len(inbound[a])) \in Seq(Marks)
    BY ContainsCut
  <2>3. inbound' \in [Attempts -> Seq(Marks)]
    BY <2>1, <2>2 DEF Read
  <2>4. pc[a] = "reply" /\ pc' \in [Attempts -> Steps]
        /\ \A b \in Attempts : ans'[b] # Nil <=> pc'[b] \in {"ask", "dial"}
    BY <1>8 DEF Reply, Opening
  <2> QED BY <1>8, <2>3, <2>4 DEF Reply
<1>9. ASSUME NEW a \in Attempts, Secured(a) PROVE TypeOK'
  BY <1>9 DEF Secured, Opening, Peers
<1>10. ASSUME NEW a \in Attempts, SendPayload(a), ~Leave(a) PROVE TypeOK'
  BY <1>10 DEF SendPayload
<1>11. ASSUME NEW a \in Attempts, Probe(a) PROVE TypeOK'
  <2>1. PICK n \in 1..Len(inbound[a]) :
          /\ Read(a, n)
          /\ got' = [got EXCEPT ![a] = got[a] \o SubSeq(inbound[a], 1, n)]
    BY <1>11 DEF Probe
  <2>2. /\ SubSeq(inbound[a], 1, n) \in Seq(Marks)
        /\ SubSeq(inbound[a], n + 1, Len(inbound[a])) \in Seq(Marks)
    BY ContainsCut
  <2>3. inbound' \in [Attempts -> Seq(Marks)]
    BY <2>1, <2>2 DEF Read
  <2>4. got[a] \o SubSeq(inbound[a], 1, n) \in Seq(Marks)
    BY <2>2, ConcatProperties
  <2>5. got' \in [Attempts -> Seq(Marks)]
    BY <2>1, <2>4
  <2> QED BY <1>11, <2>3, <2>5 DEF Probe
<1>12. ASSUME NEW a \in Attempts, ProbeEnds(a), ~Leave(a) PROVE TypeOK'
  <2>1. got' \in [Attempts -> Seq(Marks)]
    BY <1>12, BannerIsSeq DEF ProbeEnds, Prefix
  <2>2. pc[a] = "probe" /\ pc' \in [Attempts -> Steps]
        /\ \A b \in Attempts : ans'[b] # Nil <=> pc'[b] \in {"ask", "dial"}
    BY <1>12 DEF ProbeEnds
  <2> QED BY <1>12, <2>1, <2>2 DEF ProbeEnds
<1>13. ASSUME NEW a \in Attempts, Evict(a) PROVE TypeOK'
  <2>1. PICK h \in Hosts :
          /\ cache' = [k \in Modes \X Hosts |->
                         IF k \in KeysOf(a, h) THEN Nil
                         ELSE IF k[2] = h /\ cache[k] # Nil THEN "old" ELSE cache[k]]
          /\ ans' = [b \in Attempts |->
                       IF ans[b] = Nil \/ Host(b) # h THEN ans[b]
                       ELSE IF pc[b] = "ask" THEN "late" ELSE "old"]
    BY <1>13 DEF Evict
  <2>2. cache' \in [Modes \X Hosts -> Answers \cup {Nil}]
    BY <2>1
  <2>3. ans' \in [Attempts -> Answers \cup {Nil}]
    BY <2>1
  <2>4. pc[a] \in {"evict", "evict proxy"}
        /\ (pc' = [pc EXCEPT ![a] = "ssh"] \/ pc' = [pc EXCEPT ![a] = "evict proxy"])
    BY <1>13 DEF Evict
  <2>5. pc' \in [Attempts -> Steps]
    BY <2>4
  <2>6. ASSUME NEW b \in Attempts
        PROVE  ans'[b] # Nil <=> pc'[b] \in {"ask", "dial"}
    BY <2>1, <2>4
  <2> QED BY <1>13, <2>2, <2>3, <2>5, <2>6 DEF Evict
<1>14. ASSUME NEW a \in Attempts, Authenticated(a) PROVE TypeOK'
  <2>1. inbound' \in [Attempts -> Seq(Marks)] /\ got' \in [Attempts -> Seq(Marks)]
    BY <1>14, BannerIsSeq DEF Authenticated
  <2>2. pc[a] = "ssh" /\ pc' = [pc EXCEPT ![a] = "open"]
    BY <1>14 DEF Authenticated
  <2>3. pc' \in [Attempts -> Steps]
    BY <2>2
  <2>4. \A b \in Attempts : ans'[b] # Nil <=> pc'[b] \in {"ask", "dial"}
    BY <1>14, <2>2 DEF Authenticated
  <2> QED BY <1>14, <2>1, <2>3, <2>4 DEF Authenticated
<1>15. ASSUME NEW a \in Attempts, PeerAnswers(a) PROVE TypeOK'
  <2>1. PICK x \in Marks : Arrives(a, x)
    BY <1>15 DEF PeerAnswers, Marks
  <2>2. Append(inbound[a], x) \in Seq(Marks)
    BY ContainsAppend
  <2>3. inbound' \in [Attempts -> Seq(Marks)]
    BY <2>1, <2>2 DEF Arrives
  <2>4. remote' \in [Attempts -> Peers]
    BY <1>15 DEF PeerAnswers, Peers
  <2> QED BY <1>15, <2>3, <2>4 DEF PeerAnswers
<1>16. ASSUME NEW a \in Attempts, PeerCloses(a) PROVE TypeOK'
  BY <1>16 DEF PeerCloses, Peers
<1>17. CASE Expire
  BY <1>17 DEF Expire
<1> QED
  BY <1>1, <1>2, <1>3, <1>4, <1>5, <1>6, <1>7, <1>8, <1>9, <1>10,
     <1>11, <1>12, <1>13, <1>14, <1>15, <1>16, <1>17
     DEF Next, Step, ReplyFails, SecureFails, AuthFails, Close

\* An attempt has a plan from its begin to its end.
LEMMA PlanStep ==
    TransportInv /\ Next => PlanInv'
<1> SUFFICES ASSUME TransportInv, Next PROVE PlanInv'
  OBVIOUS
<1> USE PlansAssumption DEF TransportInv, TypeOK, PlanInv, Goto, dialVars,
        wireVars
<1>1. ASSUME NEW a \in Attempts, Leave(a) PROVE PlanInv'
  BY <1>1, LeaveKeeps
<1>2. ASSUME NEW a \in Attempts, NEW p \in Plans, Begin(a, p) PROVE PlanInv'
  BY <1>2 DEF Begin
<1>3. ASSUME NEW a \in Attempts, Lookup(a) PROVE PlanInv'
  BY <1>3 DEF Lookup, Key
<1>4. ASSUME NEW a \in Attempts, Answered(a) PROVE PlanInv'
  BY <1>4 DEF Answered, Key
<1>5. ASSUME NEW a \in Attempts, Unanswered(a), ~Leave(a) PROVE PlanInv'
  BY <1>5 DEF Unanswered
<1>6. ASSUME NEW a \in Attempts, Connected(a) PROVE PlanInv'
  BY <1>6 DEF Connected, Dialed, Opening, Peer
<1>7. ASSUME NEW a \in Attempts, DialFails(a), ~Leave(a) PROVE PlanInv'
  BY <1>7 DEF DialFails
<1>8. ASSUME NEW a \in Attempts, Reply(a) PROVE PlanInv'
  BY <1>8 DEF Reply, Read, Opening
<1>9. ASSUME NEW a \in Attempts, Secured(a) PROVE PlanInv'
  BY <1>9 DEF Secured, Opening
<1>10. ASSUME NEW a \in Attempts, SendPayload(a), ~Leave(a) PROVE PlanInv'
  BY <1>10 DEF SendPayload
<1>11. ASSUME NEW a \in Attempts, Probe(a) PROVE PlanInv'
  BY <1>11 DEF Probe, Read
<1>12. ASSUME NEW a \in Attempts, ProbeEnds(a), ~Leave(a) PROVE PlanInv'
  BY <1>12 DEF ProbeEnds, Prefix
<1>13. ASSUME NEW a \in Attempts, Evict(a) PROVE PlanInv'
  BY <1>13 DEF Evict, KeysOf, Host
<1>14. ASSUME NEW a \in Attempts, Authenticated(a) PROVE PlanInv'
  BY <1>14 DEF Authenticated
<1>15. ASSUME NEW a \in Attempts, PeerAnswers(a) PROVE PlanInv'
  BY <1>15 DEF PeerAnswers, Arrives
<1>16. ASSUME NEW a \in Attempts, PeerCloses(a) PROVE PlanInv'
  BY <1>16 DEF PeerCloses
<1>17. CASE Expire
  BY <1>17 DEF Expire
<1> QED
  BY <1>1, <1>2, <1>3, <1>4, <1>5, <1>6, <1>7, <1>8, <1>9, <1>10,
     <1>11, <1>12, <1>13, <1>14, <1>15, <1>16, <1>17
     DEF Next, Step, ReplyFails, SecureFails, AuthFails, Close

\* Evicting a host empties its entries for every mode.
LEMMA OldStep ==
    TransportInv /\ Next => NoneOld'
<1> SUFFICES ASSUME TransportInv, Next PROVE NoneOld'
  OBVIOUS
<1> USE PlansAssumption DEF TransportInv, TypeOK, PlanInv, NoneOld, Answers,
        Goto, dialVars, wireVars
<1>1. ASSUME NEW a \in Attempts, Leave(a) PROVE NoneOld'
  BY <1>1, LeaveKeeps
<1>2. ASSUME NEW a \in Attempts, NEW p \in Plans, Begin(a, p) PROVE NoneOld'
  BY <1>2 DEF Begin
<1>3. ASSUME NEW a \in Attempts, Lookup(a) PROVE NoneOld'
  BY <1>3 DEF Lookup, Key
<1>4. ASSUME NEW a \in Attempts, Answered(a) PROVE NoneOld'
  BY <1>4 DEF Answered, Key
<1>5. ASSUME NEW a \in Attempts, Unanswered(a), ~Leave(a) PROVE NoneOld'
  BY <1>5 DEF Unanswered
<1>6. ASSUME NEW a \in Attempts, Connected(a) PROVE NoneOld'
  BY <1>6 DEF Connected, Dialed, Opening, Peer
<1>7. ASSUME NEW a \in Attempts, DialFails(a), ~Leave(a) PROVE NoneOld'
  BY <1>7 DEF DialFails
<1>8. ASSUME NEW a \in Attempts, Reply(a) PROVE NoneOld'
  BY <1>8 DEF Reply, Read, Opening
<1>9. ASSUME NEW a \in Attempts, Secured(a) PROVE NoneOld'
  BY <1>9 DEF Secured, Opening
<1>10. ASSUME NEW a \in Attempts, SendPayload(a), ~Leave(a) PROVE NoneOld'
  BY <1>10 DEF SendPayload
<1>11. ASSUME NEW a \in Attempts, Probe(a) PROVE NoneOld'
  BY <1>11 DEF Probe, Read
<1>12. ASSUME NEW a \in Attempts, ProbeEnds(a), ~Leave(a) PROVE NoneOld'
  BY <1>12 DEF ProbeEnds, Prefix
<1>13. ASSUME NEW a \in Attempts, Evict(a) PROVE NoneOld'
  <2>1. PICK h \in Hosts :
          /\ cache' = [k \in Modes \X Hosts |->
                         IF k \in KeysOf(a, h) THEN Nil
                         ELSE IF k[2] = h /\ cache[k] # Nil THEN "old" ELSE cache[k]]
          /\ ans' = [b \in Attempts |->
                       IF ans[b] = Nil \/ Host(b) # h THEN ans[b]
                       ELSE IF pc[b] = "ask" THEN "late" ELSE "old"]
    BY <1>13 DEF Evict
  <2>2. ASSUME NEW m \in Modes, NEW g \in Hosts
        PROVE  cache'[<<m, g>>] # "old"
    <3>1. <<m, g>> \in Modes \X Hosts /\ <<m, g>>[2] = g
      OBVIOUS
    <3>2. CASE g = h
      BY <2>1, <3>1, <3>2 DEF KeysOf
    <3>3. CASE g # h
      BY <2>1, <3>1, <3>3 DEF KeysOf
    <3> QED BY <3>2, <3>3
  <2>3. UNCHANGED plan /\ pc[a] \in {"evict", "evict proxy"}
        /\ \A b \in Attempts \ {a} : pc'[b] = pc[b]
    BY <1>13 DEF Evict
  <2>4. ASSUME NEW b \in Attempts, ans'[b] = "old" PROVE pc'[b] = "dial"
    <3>1. ans[b] # Nil /\ pc[b] \in {"ask", "dial"}
      BY <2>1, <2>4
    <3>2. b # a
      BY <2>3, <3>1
    <3>3. pc[b] # "ask"
      BY <2>1, <2>4, <3>1
    <3> QED BY <2>3, <3>1, <3>2, <3>3
  <2> QED BY <2>2, <2>4
<1>14. ASSUME NEW a \in Attempts, Authenticated(a) PROVE NoneOld'
  BY <1>14 DEF Authenticated
<1>15. ASSUME NEW a \in Attempts, PeerAnswers(a) PROVE NoneOld'
  BY <1>15 DEF PeerAnswers, Arrives
<1>16. ASSUME NEW a \in Attempts, PeerCloses(a) PROVE NoneOld'
  BY <1>16 DEF PeerCloses
<1>17. CASE Expire
  BY <1>17 DEF Expire
<1> QED
  BY <1>1, <1>2, <1>3, <1>4, <1>5, <1>6, <1>7, <1>8, <1>9, <1>10,
     <1>11, <1>12, <1>13, <1>14, <1>15, <1>16, <1>17
     DEF Next, Step, ReplyFails, SecureFails, AuthFails, Close

\* What the peer has sent is unread, read or handed to SSH.
LEMMA WireStep ==
    TransportInv /\ Next => WireInv'
<1> SUFFICES ASSUME TransportInv, Next PROVE WireInv'
  OBVIOUS
<1> USE PlansAssumption DEF TransportInv, TypeOK, PlanInv, WireInv, Dialing, Lost,
        Goto, dialVars, wireVars
<1>1. ASSUME NEW a \in Attempts, Leave(a) PROVE WireInv'
  BY <1>1, LeaveKeeps
<1>2. ASSUME NEW a \in Attempts, NEW p \in Plans, Begin(a, p) PROVE WireInv'
  BY <1>2 DEF Begin
<1>3. ASSUME NEW a \in Attempts, Lookup(a) PROVE WireInv'
  BY <1>3 DEF Lookup, Key
<1>4. ASSUME NEW a \in Attempts, Answered(a) PROVE WireInv'
  BY <1>4 DEF Answered, Key
<1>5. ASSUME NEW a \in Attempts, Unanswered(a), ~Leave(a) PROVE WireInv'
  BY <1>5 DEF Unanswered
<1>6. ASSUME NEW a \in Attempts, Connected(a) PROVE WireInv'
  BY <1>6 DEF Connected, Dialed, Opening, Peer
<1>7. ASSUME NEW a \in Attempts, DialFails(a), ~Leave(a) PROVE WireInv'
  BY <1>7 DEF DialFails
<1>8. ASSUME NEW a \in Attempts, Reply(a) PROVE WireInv'
  BY <1>8 DEF Reply, Read, Opening
<1>9. ASSUME NEW a \in Attempts, Secured(a) PROVE WireInv'
  BY <1>9 DEF Secured, Opening
<1>10. ASSUME NEW a \in Attempts, SendPayload(a), ~Leave(a) PROVE WireInv'
  BY <1>10 DEF SendPayload
<1>11. ASSUME NEW a \in Attempts, Probe(a) PROVE WireInv'
  <2>1. PICK n \in 1..Len(inbound[a]) :
          /\ Read(a, n)
          /\ got' = [got EXCEPT ![a] = got[a] \o SubSeq(inbound[a], 1, n)]
    BY <1>11 DEF Probe
  <2> DEFINE u == SubSeq(inbound[a], 1, n)
             v == SubSeq(inbound[a], n + 1, Len(inbound[a]))
  <2>2. /\ u \in Seq(Marks) /\ v \in Seq(Marks)
        /\ \A x \in {"ban", "ner"} :
             Contains(inbound[a], x) <=> Contains(u, x) \/ Contains(v, x)
    BY ContainsCut
  <2>3. /\ pc[a] = "probe" /\ UNCHANGED <<pc, plan, remote, torn>>
        /\ got' = [got EXCEPT ![a] = got[a] \o u] /\ inbound' = [inbound EXCEPT ![a] = v]
    BY <1>11, <2>1 DEF Probe, Read
  <2> HIDE DEF u, v
  <2>4. got[a] \in Seq(Marks) /\ inbound[a] \in Seq(Marks)
    OBVIOUS
  <2>5. got[a] \o u \in Seq(Marks)
    BY <2>2, <2>4, ConcatProperties
  <2>6. ASSUME NEW x \in {"ban", "ner"}
        PROVE  Contains(got[a] \o inbound[a], x) => Contains((got[a] \o u) \o v, x)
    <3>1. Contains(got[a] \o inbound[a], x)
          <=> Contains(got[a], x) \/ Contains(inbound[a], x)
      BY <2>4, ContainsConcat
    <3>2. Contains((got[a] \o u) \o v, x)
          <=> Contains(got[a] \o u, x) \/ Contains(v, x)
      <4>1. v \in Seq(Marks)
        BY <2>2
      <4> QED BY <2>5, <4>1, ContainsConcat
    <3>3. Contains(got[a] \o u, x) <=> Contains(got[a], x) \/ Contains(u, x)
      BY <2>2, <2>4, ContainsConcat
    <3> QED BY <2>2, <3>1, <3>2, <3>3
  <2> QED BY <2>3, <2>6
<1>12. ASSUME NEW a \in Attempts, ProbeEnds(a), ~Leave(a) PROVE WireInv'
  <2>1. /\ pc[a] = "probe" /\ UNCHANGED <<plan, remote, inbound>>
        /\ \/ pc' = [pc EXCEPT ![a] = "evict"]
           \/ pc' = [pc EXCEPT ![a] = "ssh"]
        /\ got' = [got EXCEPT ![a] = IF HasBanner(got[a]) THEN <<"ban", "ner">> ELSE <<>>]
        /\ torn' = IF Torn(got[a]) THEN torn \cup {a} ELSE torn
    BY <1>12 DEF ProbeEnds, Prefix
  <2>2. /\ got[a] \in Seq(Marks) /\ inbound[a] \in Seq(Marks)
        /\ got'[a] = (IF HasBanner(got[a]) THEN <<"ban", "ner">> ELSE <<>>)
        /\ got'[a] \in Seq(Marks)
    BY <2>1, BannerIsSeq
  <2>3. ASSUME NEW x \in {"ban", "ner"}, a \notin torn',
               Contains(got[a] \o inbound[a], x)
        PROVE  Contains(got'[a] \o inbound[a], x)
    <3>1. Contains(got[a], x) \/ Contains(inbound[a], x)
      BY <2>2, <2>3, ContainsConcat
    <3>2. Contains(got'[a] \o inbound[a], x)
          <=> Contains(got'[a], x) \/ Contains(inbound[a], x)
      BY <2>2, ContainsConcat
    <3>3. Contains(got[a], x) => HasBanner(got[a])
      BY <2>1, <2>3 DEF Torn
    <3>4. HasBanner(got[a]) => Contains(got'[a], x)
      BY <2>2, BannerIsSeq DEF HasBanner
    <3> QED BY <3>1, <3>2, <3>3, <3>4
  <2>4. torn \subseteq torn' /\ torn' \ {a} = torn \ {a}
    BY <2>1
  <2> QED BY <2>1, <2>3, <2>4
<1>13. ASSUME NEW a \in Attempts, Evict(a) PROVE WireInv'
  <2>1. /\ UNCHANGED <<plan, remote, inbound, got, torn>>
        /\ pc[a] \in {"evict", "evict proxy"}
    BY <1>13 DEF Evict
  <2>2. PICK l \in {"evict proxy", "ssh"} : pc' = [pc EXCEPT ![a] = l]
    BY <1>13 DEF Evict
  <2>3. \A b \in Attempts \ {a} : pc'[b] = pc[b]
    BY <2>2
  <2>4. pc'[a] \in {"evict proxy", "ssh"}
    BY <2>2
  <2> QED BY <2>1, <2>3, <2>4
<1>14. ASSUME NEW a \in Attempts, Authenticated(a) PROVE WireInv'
  BY <1>14 DEF Authenticated
<1>15. ASSUME NEW a \in Attempts, PeerAnswers(a) PROVE WireInv'
  <2>1. PICK y \in Marks : Arrives(a, y)
    BY <1>15 DEF PeerAnswers, Marks
  <2>2. got[a] \in Seq(Marks) /\ inbound[a] \in Seq(Marks)
    OBVIOUS
  <2>3. /\ \A b \in Attempts \ {a} : inbound'[b] = inbound[b]
        /\ inbound'[a] = Append(inbound[a], y)
        /\ UNCHANGED <<pc, plan, got, torn>>
    BY <1>15, <2>1 DEF PeerAnswers, Arrives
  <2>4. \A b \in Attempts \ {a} : remote'[b] = remote[b]
    BY <1>15 DEF PeerAnswers
  <2>5. \/ remote'[a] = remote[a]
        \/ remote'[a] = "gone" /\ remote[a] = "proxy"
        \/ /\ pc[a] = "reply"
           /\ remote'[a] = IF plan[a].tls THEN "hello" ELSE "up"
        \/ remote[a] = "up" /\ remote'[a] = "half" /\ inbound'[a] = Append(inbound[a], "ban")
        \/ remote[a] = "half" /\ remote'[a] = "sent" /\ inbound'[a] = Append(inbound[a], "ner")
    BY <1>15 DEF PeerAnswers, Arrives
  <2>6. ASSUME NEW x \in {"ban", "ner"}
        PROVE  /\ Contains(got[a] \o inbound[a], x)
                  => Contains(got'[a] \o inbound'[a], x)
               /\ inbound'[a] = Append(inbound[a], x)
                  => Contains(got'[a] \o inbound'[a], x)
    <3>1. /\ inbound'[a] \in Seq(Marks)
          /\ Contains(inbound'[a], x) <=> Contains(inbound[a], x) \/ x = y
      BY <2>2, <2>3, ContainsAppend
    <3>2. Contains(got[a] \o inbound[a], x)
          <=> Contains(got[a], x) \/ Contains(inbound[a], x)
      BY <2>2, ContainsConcat
    <3>3. Contains(got[a] \o inbound'[a], x)
          <=> Contains(got[a], x) \/ Contains(inbound'[a], x)
      BY <2>2, <3>1, ContainsConcat
    <3>4. x \in Marks
      BY DEF Marks
    <3>5. inbound'[a] = Append(inbound[a], x) => Contains(inbound'[a], x)
      BY <2>2, <3>4, ContainsAppend
    <3> QED BY <2>3, <3>1, <3>2, <3>3, <3>5
  <2>7. /\ (pc[a] \in Dialing => remote[a] = "none")'
        /\ (pc[a] = "reply" => plan[a].connect)'
        /\ (pc[a] = "tls" => plan[a].tls)'
        /\ (pc[a] \in {"reply", "tls"} /\ plan[a].tls
            => remote[a] \notin {"up", "half", "sent"})'
    BY <2>3, <2>5
  <2>8. (pc[a] # "open" /\ remote[a] \in {"half", "sent"} /\ ~Lost(a)
         => Contains(got[a] \o inbound[a], "ban"))'
    BY <2>3, <2>5, <2>6
  <2>9. (pc[a] # "open" /\ remote[a] = "sent" /\ ~Lost(a)
         => Contains(got[a] \o inbound[a], "ner"))'
    BY <2>3, <2>5, <2>6
  <2>10. ASSUME NEW b \in Attempts \ {a}
         PROVE  /\ UNCHANGED <<pc[b], plan[b], remote[b], inbound[b], got[b]>>
                /\ b \in torn' <=> b \in torn
    BY <2>3, <2>4
  <2>11. \A b \in Attempts \ {a} :
           /\ (pc[b] \in Dialing => remote[b] = "none")'
           /\ (pc[b] = "reply" => plan[b].connect)'
           /\ (pc[b] = "tls" => plan[b].tls)'
           /\ (pc[b] \in {"reply", "tls"} /\ plan[b].tls
               => remote[b] \notin {"up", "half", "sent"})'
           /\ (pc[b] # "open" /\ remote[b] \in {"half", "sent"} /\ ~Lost(b)
               => Contains(got[b] \o inbound[b], "ban"))'
           /\ (pc[b] # "open" /\ remote[b] = "sent" /\ ~Lost(b)
               => Contains(got[b] \o inbound[b], "ner"))'
    BY <2>10
  <2> HIDE DEF Dialing, Lost
  <2> QED BY <2>7, <2>8, <2>9, <2>11
<1>16. ASSUME NEW a \in Attempts, PeerCloses(a) PROVE WireInv'
  BY <1>16 DEF PeerCloses
<1>17. CASE Expire
  BY <1>17 DEF Expire
<1> QED
  BY <1>1, <1>2, <1>3, <1>4, <1>5, <1>6, <1>7, <1>8, <1>9, <1>10,
     <1>11, <1>12, <1>13, <1>14, <1>15, <1>16, <1>17
     DEF Next, Step, ReplyFails, SecureFails, AuthFails, Close

LEMMA Invariance == Spec => []TransportInv
<1>1. Init => TransportInv
  <2> SUFFICES ASSUME Init PROVE TransportInv
    OBVIOUS
  <2>1. TypeOK
    BY PlansAssumption, BannerIsSeq DEF Init, TypeOK, Steps, Peers
  <2>2. PlanInv /\ NoneOld /\ WireInv
    BY PlansAssumption DEF Init, PlanInv, NoneOld, WireInv, Answers, Dialing, Peers
  <2> QED BY <2>1, <2>2 DEF TransportInv
<1>2. TransportInv /\ Next => TransportInv'
  BY TypeStep, PlanStep, OldStep, WireStep DEF TransportInv
<1>3. TransportInv /\ UNCHANGED vars => TransportInv'
  BY DEF vars, dialVars, wireVars, TransportInv, TypeOK, PlanInv, NoneOld,
         WireInv, Lost
<1> QED BY <1>1, <1>2, <1>3, PTL DEF Spec

-----------------------------------------------------------------------------
\* An attempt and what it shares with the others keep their types.
THEOREM Typing == Spec => []TypeOK
<1>1. TransportInv => TypeOK
  BY DEF TransportInv
<1> QED BY Invariance, <1>1, PTL

\* However the attempts overlap, whichever modes they resolve with and whenever
\* entries expire: no attempt, the ones still dialing what was evicted included,
\* brings back to the cache what was known when it was evicted.
THEOREM RetryAsksAnewHolds == Spec => RetryAsksAnew
<1>1. TransportInv /\ [Next]_vars
      => [\A a \in Attempts :
            pc[a] = "lookup" /\ pc'[a] = "dial" => ans'[a] # "old"]_vars
  <2> SUFFICES ASSUME TransportInv, Next, NEW a \in Attempts,
                      pc[a] = "lookup", pc'[a] = "dial"
               PROVE  ans'[a] # "old"
    BY DEF vars
  <2> USE DEF TransportInv, TypeOK, Goto, Leave
  <2>1. ~Expire
    BY DEF Expire
  <2>2. ASSUME NEW b \in Attempts, NEW p \in Plans PROVE ~Begin(b, p)
    BY DEF Begin
  <2>3. ASSUME NEW b \in Attempts
        PROVE  /\ ~Answered(b) /\ ~Unanswered(b) /\ ~Connected(b) /\ ~DialFails(b)
               /\ ~AuthFails(b) /\ ~Close(b)
    BY DEF Answered, Unanswered, Connected, Dialed, DialFails, AuthFails, Close,
           Opening
  <2>4. ASSUME NEW b \in Attempts
        PROVE  /\ ~Reply(b) /\ ~ReplyFails(b) /\ ~Secured(b) /\ ~SecureFails(b)
               /\ ~SendPayload(b)
    BY DEF Reply, ReplyFails, Secured, SecureFails, SendPayload, Opening
  <2>5. ASSUME NEW b \in Attempts
        PROVE  /\ ~Probe(b) /\ ~ProbeEnds(b) /\ ~Evict(b) /\ ~Authenticated(b)
               /\ ~PeerAnswers(b) /\ ~PeerCloses(b)
    BY DEF Probe, ProbeEnds, Evict, Authenticated, PeerAnswers, PeerCloses
  <2>6. PICK b \in Attempts : Lookup(b)
    BY <2>1, <2>2, <2>3, <2>4, <2>5 DEF Next, Step
  <2>7. b = a
    BY <2>6 DEF Lookup
  <2>8. Key(a) \in Modes \X Hosts
    BY PlansAssumption DEF PlanInv, Key
  <2> QED BY <2>6, <2>7, <2>8 DEF Lookup, NoneOld
<1> QED BY Invariance, <1>1, PTL DEF Spec, RetryAsksAnew

\* Neither readProbe nor the prefix it leaves to SSH loses the banner, wherever
\* the reads cut it and whatever precedes it, unless the probe ends between its
\* first and its last byte.
THEOREM BannerKeptHolds == Spec => []BannerKept
<1>1. TransportInv => BannerKept
  <2> SUFFICES ASSUME TransportInv, NEW a \in Attempts, pc[a] = "ssh",
                      remote[a] = "sent", ~Lost(a)
               PROVE  HasBanner(got[a] \o inbound[a])
    BY DEF BannerKept, Lost
  <2> QED BY DEF TransportInv, WireInv, HasBanner
<1> QED BY Invariance, <1>1, PTL

============================================================================
