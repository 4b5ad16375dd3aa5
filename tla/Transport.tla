------------------------------ MODULE Transport ------------------------------
(***************************************************************************)
(* How a connection to the SSH server is made (attemptSSHAuth,             *)
(* openPreparedSSHConn and dialTCPResolved in main.go) and the resolver's  *)
(* cache that the attempts share (internal/dnsx): the slots of the pool    *)
(* and connectionManager attempt side by side, each in its goroutine, and  *)
(* one that meets a rate limit evicts what the others may be asking for.   *)
(*                                                                         *)
(* Abstractions: of an answer of a resolver, whether its host was evicted  *)
(* since it was asked for; the dials to the addresses of an answer are     *)
(* one; carrier DNS, direct DNS and the shell tools are one question.      *)
(* What is read is a sequence of marks: the proxy's answer to CONNECT, an  *)
(* HTTP response, the SSH banner in two, of which the first is a part of   *)
(* "SSH-" only; a read takes any number of them.                           *)
(*                                                                         *)
(* A definition named Mut... is the next one with a plausible bug.         *)
(***************************************************************************)
EXTENDS Naturals, SequencesExt

CONSTANTS
    Attempts,      \* goroutines that call attemptSSHAuth
    Plans,         \* the profiles and DNS modes they are called with
    Nil            \* no plan, no answer

Hosts == {"ssh", "proxy"}
Modes == {"device", "google"}

\* An answer: its host not evicted since it was asked for; evicted while the
\* question was under way; evicted when the answer was known, in the cache or
\* to an attempt dialing it.
Answers == {"fresh", "late", "old"}

ASSUME PlansAssumption ==
    /\ Plans \subseteq [mode : Modes, host : Hosts, hasProxy : BOOLEAN,
                        fallback : BOOLEAN, connect : BOOLEAN, tls : BOOLEAN,
                        payload : {"none", "write", "read"}]
    /\ Nil \notin Plans /\ Nil \notin Answers

VARIABLES
    cache,    \* <<mode, host>> -> the answer hostCache holds, or Nil
    pc,       \* attempt -> where it is
    plan,     \* attempt -> its profile and mode, or Nil
    again,    \* the attempts in the second half of dialTCPResolved
    ans,      \* attempt -> the answer it dials, or is asking for, or Nil
    remote,   \* attempt -> what its peer has come to
    inbound,  \* attempt -> what has arrived and is unread
    got,      \* attempt -> what readProbe has read; then the prefix SSH reads
    torn      \* history: the attempts whose probe ended within the banner

dialVars == <<again, ans>>
wireVars == <<remote, inbound, got, torn>>
vars == <<cache, pc, plan, dialVars, wireVars>>

Marks == {"accepted", "refused", "status", "limited", "ban", "ner"}
Peers == {"none", "proxy", "hello", "up", "half", "sent", "gone"}
Steps == {"idle", "lookup", "ask", "dial", "system", "last", "reply", "tls",
          "payload", "probe", "evict", "evict proxy", "ssh", "open"}

TypeOK ==
    /\ cache \in [Modes \X Hosts -> Answers \cup {Nil}]
    /\ pc \in [Attempts -> Steps] /\ plan \in [Attempts -> Plans \cup {Nil}]
    /\ again \subseteq Attempts
    /\ ans \in [Attempts -> Answers \cup {Nil}]
    /\ \A a \in Attempts : ans[a] # Nil <=> pc[a] \in {"ask", "dial"}
    /\ remote \in [Attempts -> Peers]
    /\ inbound \in [Attempts -> Seq(Marks)] /\ got \in [Attempts -> Seq(Marks)]
    /\ torn \subseteq Attempts

Init ==
    /\ cache = [k \in Modes \X Hosts |-> Nil]
    /\ pc = [a \in Attempts |-> "idle"] /\ plan = [a \in Attempts |-> Nil]
    /\ again = {}
    /\ ans = [a \in Attempts |-> Nil]
    /\ remote = [a \in Attempts |-> "none"]
    /\ inbound = [a \in Attempts |-> <<>>] /\ got = [a \in Attempts |-> <<>>]
    /\ torn = {}

Goto(a, l) == pc' = [pc EXCEPT ![a] = l]
Host(a) == plan[a].host
Key(a) == <<plan[a].mode, plan[a].host>>

\* An error return: what was dialed is closed.
Leave(a) ==
    /\ Goto(a, "idle") /\ plan' = [plan EXCEPT ![a] = Nil]
    /\ again' = again \ {a}
    /\ ans' = [ans EXCEPT ![a] = Nil]
    /\ remote' = [remote EXCEPT ![a] = "none"]
    /\ inbound' = [inbound EXCEPT ![a] = <<>>]
    /\ got' = [got EXCEPT ![a] = <<>>]
    /\ torn' = torn \ {a}
    /\ UNCHANGED cache

-----------------------------------------------------------------------------
(* dialTCPResolved and the resolver.                                       *)

\* Device mode tries the system's resolver first, the other modes the
\* configured servers.  (A literal address skips both.)
Begin(a, p) ==
    /\ pc[a] = "idle"
    /\ plan' = [plan EXCEPT ![a] = p]
    /\ Goto(a, IF p.mode = "device" THEN "system" ELSE "lookup")
    /\ UNCHANGED <<cache, dialVars, wireVars>>

\* ResolveHost: the cache under its lock; a question is asked without it.
Lookup(a) ==
    /\ pc[a] = "lookup"
    /\ IF cache[Key(a)] # Nil
       THEN Goto(a, "dial") /\ ans' = [ans EXCEPT ![a] = cache[Key(a)]]
       ELSE /\ Goto(a, "ask")
            /\ ans' = [ans EXCEPT ![a] = "fresh"]
    /\ UNCHANGED <<cache, plan, again, wireVars>>

\* The answer is put into the cache, whatever was evicted in the meantime.
Answered(a) ==
    /\ pc[a] = "ask"
    /\ cache' = [cache EXCEPT ![Key(a)] = ans[a]]
    /\ Goto(a, "dial")
    /\ UNCHANGED <<plan, dialVars, wireVars>>

\* No answer: the system's resolver, and after it the fallback addresses.
Unanswered(a) ==
    /\ pc[a] = "ask"
    /\ \/ /\ a \notin again /\ Goto(a, "system")
          /\ ans' = [ans EXCEPT ![a] = Nil]
          /\ UNCHANGED <<cache, plan, again, wireVars>>
       \/ /\ a \in again /\ plan[a].fallback /\ Goto(a, "last")
          /\ ans' = [ans EXCEPT ![a] = Nil]
          /\ UNCHANGED <<cache, plan, again, wireVars>>
       \/ a \in again /\ ~plan[a].fallback /\ Leave(a)

\* What is said first on a connection.
Opening(p) == IF p.connect THEN "reply" ELSE IF p.tls THEN "tls"
              ELSE IF p.payload # "none" THEN "payload" ELSE "ssh"
Peer(p) == IF p.connect THEN "proxy" ELSE IF p.tls THEN "hello" ELSE "up"

Dialed(a) ==
    /\ pc[a] \in {"dial", "system", "last"}
    /\ Goto(a, Opening(plan[a]))
    /\ remote' = [remote EXCEPT ![a] = Peer(plan[a])]
    /\ ans' = [ans EXCEPT ![a] = Nil] /\ again' = again \ {a}
    /\ UNCHANGED <<plan, inbound, got, torn>>

MutConnected(a) ==
    /\ Dialed(a)
    /\ cache' = IF ans[a] # Nil THEN [cache EXCEPT ![Key(a)] = ans[a]] ELSE cache
Connected(a) == Dialed(a) /\ UNCHANGED cache

\* Every address was refused or timed out.  The answer stays in the cache.
DialFails(a) ==
    \/ /\ pc[a] = "dial" /\ a \notin again /\ Goto(a, "system")
       /\ ans' = [ans EXCEPT ![a] = Nil]
       /\ UNCHANGED <<cache, plan, again, wireVars>>
    \/ /\ pc[a] = "system" /\ Goto(a, "lookup")
       /\ again' = again \cup {a}
       /\ UNCHANGED <<cache, plan, ans, wireVars>>
    \/ pc[a] = "last" /\ Leave(a)
    \/ pc[a] = "dial" /\ a \in again /\ Leave(a)

\* Five minutes after it was put there an entry is no longer found.
Expire ==
    /\ \E k \in Modes \X Hosts : /\ cache[k] # Nil
                                 /\ cache' = [cache EXCEPT ![k] = Nil]
    /\ UNCHANGED <<pc, plan, dialVars, wireVars>>

-----------------------------------------------------------------------------
(* The peer: a proxy, a CDN, the SSH server, or whatever answers.          *)

\* Of what was read: an HTTP response; "SSH-", of which the peer sends the
\* first part before the second.
Responded(s) == Contains(s, "status") \/ Contains(s, "limited")
HasBanner(s) == Contains(s, "ban") /\ Contains(s, "ner")

Arrives(a, x) == inbound' = [inbound EXCEPT ![a] = Append(@, x)]

PeerAnswers(a) ==
    /\ \/ /\ remote[a] = "proxy" /\ pc[a] = "reply"
          /\ \/ /\ Arrives(a, "accepted")
                /\ remote' = [remote EXCEPT ![a] = IF plan[a].tls THEN "hello" ELSE "up"]
             \/ Arrives(a, "refused") /\ remote' = [remote EXCEPT ![a] = "gone"]
       \/ /\ remote[a] = "up" /\ pc[a] \in {"probe", "ssh"} /\ plan[a].payload # "none"
          /\ ~Responded(inbound[a] \o got[a])
          /\ \E x \in {"status", "limited"} : Arrives(a, x)
          /\ UNCHANGED remote
       \/ /\ remote[a] = "up"
          /\ Arrives(a, "ban") /\ remote' = [remote EXCEPT ![a] = "half"]
       \/ /\ remote[a] = "half"
          /\ Arrives(a, "ner") /\ remote' = [remote EXCEPT ![a] = "sent"]
    /\ UNCHANGED <<cache, pc, plan, dialVars, got, torn>>

\* (Before the SSH handshake the code treats a stream that ends as it treats
\* one that is silent until the deadline.)
PeerCloses(a) ==
    /\ pc[a] = "ssh" /\ remote[a] \in {"up", "half", "sent"}
    /\ remote' = [remote EXCEPT ![a] = "gone"]
    /\ UNCHANGED <<cache, pc, plan, dialVars, inbound, got, torn>>

\* A read returns some of what has arrived.
Read(a, n) == n \in 1..Len(inbound[a])
                /\ inbound' = [inbound EXCEPT ![a] = SubSeq(@, n + 1, Len(@))]

-----------------------------------------------------------------------------
(* openPreparedSSHConn after the dial.                                     *)

\* httpCONNECT makes one read: what came with the answer is dropped with it.
Reply(a) ==
    /\ pc[a] = "reply"
    /\ \E n \in 1..Len(inbound[a]) :
         /\ Head(inbound[a]) = "accepted"
         /\ Read(a, n)
         /\ Goto(a, Opening([plan[a] EXCEPT !.connect = FALSE]))
         /\ UNCHANGED <<cache, plan, dialVars, remote, got, torn>>

\* The read deadline, the end of the stream, a refusal.
MutReplyFails(a) ==
    /\ pc[a] = "reply"
    /\ inbound[a] # <<>> /\ Head(inbound[a]) = "refused"
    /\ Leave(a)
ReplyFails(a) ==
    /\ pc[a] = "reply"
    /\ inbound[a] # <<>> => Head(inbound[a]) = "refused"
    /\ Leave(a)

\* The handshake, under a deadline.
Secured(a) ==
    /\ pc[a] = "tls" /\ remote[a] = "hello"
    /\ Goto(a, Opening([plan[a] EXCEPT !.connect = FALSE, !.tls = FALSE]))
    /\ remote' = [remote EXCEPT ![a] = "up"]
    /\ UNCHANGED <<cache, plan, dialVars, inbound, got, torn>>

SecureFails(a) == pc[a] = "tls" /\ Leave(a)

SendPayload(a) ==
    /\ pc[a] = "payload"
    /\ \/ /\ Goto(a, IF plan[a].payload = "read" THEN "probe" ELSE "ssh")
          /\ UNCHANGED <<cache, plan, dialVars, wireVars>>
       \/ Leave(a)

\* readProbe reads until it has seen "SSH-" ...
Probe(a) ==
    /\ pc[a] = "probe" /\ ~HasBanner(got[a])
    /\ \E n \in 1..Len(inbound[a]) :
         /\ Read(a, n)
         /\ got' = [got EXCEPT ![a] = @ \o SubSeq(inbound[a], 1, n)]
    /\ UNCHANGED <<cache, pc, plan, dialVars, remote, torn>>

\* ... or its deadline, its 64 KB or the stream end it.  With a banner SSH
\* reads on from it.  With a response alone it reads on after what was read,
\* which is dropped, the first part of a banner with it, and what the response
\* was asked with is evicted if it was a redirect or a 503.  With neither, or
\* a status that is not allowed, or an error, the attempt is over.
MutPrefix(a) == [got EXCEPT ![a] = <<>>]
Prefix(a) ==
    [got EXCEPT ![a] = IF HasBanner(@) THEN <<"ban", "ner">> ELSE <<>>]

Torn(s) == ~HasBanner(s) /\ (Contains(s, "ban") \/ Contains(s, "ner"))

ProbeEnds(a) ==
    /\ pc[a] = "probe"
    /\ \/ /\ HasBanner(got[a]) \/ Responded(got[a])
          /\ Goto(a, IF ~HasBanner(got[a]) /\ Contains(got[a], "limited")
                     THEN "evict" ELSE "ssh")
          /\ got' = Prefix(a)
          /\ torn' = IF Torn(got[a]) THEN torn \cup {a} ELSE torn
          /\ UNCHANGED <<cache, plan, dialVars, remote, inbound>>
       \/ (HasBanner(got[a]) => Responded(got[a])) /\ Leave(a)

\* EvictHost: every mode's entry of the host.
KeysOf(a, h) == Modes \X {h}

Evict(a) ==
    /\ \E h \in Hosts :
         /\ \/ /\ pc[a] = "evict" /\ h = "ssh"
               /\ Goto(a, IF plan[a].hasProxy THEN "evict proxy" ELSE "ssh")
            \/ pc[a] = "evict proxy" /\ h = "proxy" /\ Goto(a, "ssh")
         /\ cache' = [k \in Modes \X Hosts |->
                        IF k \in KeysOf(a, h) THEN Nil
                        ELSE IF k[2] = h /\ cache[k] # Nil THEN "old" ELSE cache[k]]
         /\ ans' = [b \in Attempts |->
                      IF ans[b] = Nil \/ Host(b) # h THEN ans[b]
                      ELSE IF pc[b] = "ask" THEN "late" ELSE "old"]
    /\ UNCHANGED <<plan, again, wireVars>>

\* attemptSSHAuth: NewClientConn, which has no deadline, reads the prefix
\* and then the connection.  The client goes to the caller.
Authenticated(a) ==
    /\ pc[a] = "ssh" /\ remote[a] = "sent" /\ HasBanner(got[a] \o inbound[a])
    /\ Goto(a, "open")
    /\ inbound' = [inbound EXCEPT ![a] = <<>>] /\ got' = [got EXCEPT ![a] = <<>>]
    /\ UNCHANGED <<cache, plan, dialVars, remote, torn>>

\* The server refuses, the stream ends, or what follows is no banner.
AuthFails(a) ==
    /\ pc[a] = "ssh"
    /\ remote[a] = "gone" \/ Contains(got[a] \o inbound[a], "ner")
    /\ Leave(a)

\* The pool, or the tunnel's end, closes the client.
Close(a) == pc[a] = "open" /\ Leave(a)

-----------------------------------------------------------------------------
Step(a) ==
    \/ Lookup(a) \/ Answered(a) \/ Unanswered(a) \/ Connected(a) \/ DialFails(a)
    \/ Reply(a) \/ ReplyFails(a) \/ Secured(a) \/ SecureFails(a)
    \/ SendPayload(a) \/ Probe(a) \/ ProbeEnds(a) \/ Evict(a)
    \/ Authenticated(a) \/ AuthFails(a)

Next ==
    \/ \E a \in Attempts : \/ \E p \in Plans : Begin(a, p)
                           \/ Step(a) \/ Close(a)
                           \/ PeerAnswers(a) \/ PeerCloses(a)
    \/ Expire

\* Goroutines run, and every wait but NewClientConn's has a deadline.
Fairness == \A a \in Attempts : WF_vars(Step(a))

Spec == Init /\ [][Next]_vars
FairSpec == Spec /\ Fairness

-----------------------------------------------------------------------------
(* Properties.                                                             *)

\* dnsx.go:119-121: after a rate limit "the next reconnect attempt
\* re-resolves".  No lookup takes from the cache, for whichever mode, an answer
\* known when its host was evicted: the attempts that are dialing such an answer
\* go on with it but do not bring it back.  (An answer that was being asked for
\* then, "late", does come back, and is dialed for five minutes.)
RetryAsksAnew ==
    [][\A a \in Attempts :
         pc[a] = "lookup" /\ pc'[a] = "dial" => ans'[a] # "old"]_vars

\* The SSH client finds the server's banner wherever the reads of the probe
\* cut it and whatever response comes before it.  Two losses are excepted: what
\* comes with a proxy's answer to CONNECT, in clear, is dropped by httpCONNECT,
\* and a probe that ended with a response and no more than a part of "SSH-"
\* read drops that part.
BannerKept ==
    \A a \in Attempts :
        /\ pc[a] = "ssh" /\ remote[a] = "sent"
        /\ ~(plan[a].connect /\ ~plan[a].tls) /\ a \notin torn
        => HasBanner(got[a] \o inbound[a])

\* What the proofs add: an attempt under way has a plan, the cache holds nothing
\* known when it was evicted, and the peer speaks only to an attempt that is
\* connected, behind TLS only once the handshake is done.
PlanInv == \A a \in Attempts : pc[a] # "idle" => plan[a] \in Plans
NoneOld ==
    /\ \A k \in Modes \X Hosts : cache[k] # "old"
    /\ \A a \in Attempts : ans[a] = "old" => pc[a] = "dial"
Dialing == {"idle", "lookup", "ask", "dial", "system", "last"}
Lost(a) == (plan[a].connect /\ ~plan[a].tls) \/ a \in torn
WireInv ==
    \A a \in Attempts :
        /\ pc[a] \in Dialing => remote[a] = "none"
        /\ pc[a] = "reply" => plan[a].connect
        /\ pc[a] = "tls" => plan[a].tls
        /\ pc[a] \in {"reply", "tls"} /\ plan[a].tls
           => remote[a] \notin {"up", "half", "sent"}
        /\ pc[a] # "open" /\ remote[a] \in {"half", "sent"} /\ ~Lost(a)
           => Contains(got[a] \o inbound[a], "ban")
        /\ pc[a] # "open" /\ remote[a] = "sent" /\ ~Lost(a)
           => Contains(got[a] \o inbound[a], "ner")
TransportInv == TypeOK /\ PlanInv /\ NoneOld /\ WireInv

\* Whatever the peer does, or does not do, an attempt comes to an error or
\* to the SSH handshake (which waits for the server as long as it takes).
AttemptEnds ==
    \A a \in Attempts :
        pc[a] \notin {"idle", "ssh", "open"} ~> pc[a] \in {"idle", "ssh"}
=============================================================================
