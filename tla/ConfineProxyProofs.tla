-------------------------- MODULE ConfineProxyProofs --------------------------
(***************************************************************************)
(* Proofs about ConfineProxy for any number of requests, workloads and     *)
(* revocations, any policy, any guard and any answers of DNS.              *)
(***************************************************************************)
EXTENDS ConfineProxy, TLAPS

-----------------------------------------------------------------------------
(* A step of one handler leaves the others alone *)

\* What the other handlers see of a step of r: nothing of theirs changes, the
\* evidence only grows, and nothing is tracked for a revoked workload.
StepOf(r) ==
    /\ byAddr' = byAddr /\ serving' = serving /\ revoked' = revoked
    /\ src' = src /\ host' = host
    /\ events \subseteq events'
    /\ \A s \in Requests \ {r} :
        /\ pc'[s] = pc[s] /\ ident'[s] = ident[s]
        /\ addrs'[s] = addrs[s] /\ dialed'[s] = dialed[s]
        /\ s \in moved' <=> s \in moved
        /\ \A end \in {"client", "upstream"} :
            /\ <<s, end>> \in open' <=> <<s, end>> \in open
            /\ \A w \in Workloads : <<s, end>> \in conns'[w] <=> <<s, end>> \in conns[w]
    /\ \A w \in revoked : conns'[w] = {}

\* Hence only r's own part of the invariant is left to show.
LEMMA OthersUndisturbed ==
    ASSUME ProxyInv, TypeOK', NEW r \in Requests, StepOf(r),
           HandlerOK(r)', TrackingOK(r)'
    PROVE  ProxyInv'
  <1>1. RevokedHoldsNothing'
    BY DEF StepOf, RevokedHoldsNothing
  <1>2. ASSUME NEW s \in Requests, s # r
        PROVE  HandlerOK(s)' /\ TrackingOK(s)'
    <2>1. HandlerOK(s) /\ TrackingOK(s)
      BY <1>2 DEF ProxyInv
    <2>2. /\ pc'[s] = pc[s] /\ ident'[s] = ident[s]
          /\ addrs'[s] = addrs[s] /\ dialed'[s] = dialed[s]
          /\ s \in moved' <=> s \in moved
          /\ Upstream(s) \in open' <=> Upstream(s) \in open
          /\ Client(s) \in open' <=> Client(s) \in open
          /\ \A w \in Workloads : Upstream(s) \in conns'[w] <=> Upstream(s) \in conns[w]
          /\ \A w \in Workloads : Client(s) \in conns'[w] <=> Client(s) \in conns[w]
      BY <1>2 DEF StepOf, Upstream, Client
    <2>3. /\ byAddr' = byAddr /\ serving' = serving /\ src' = src /\ host' = host
          /\ events \subseteq events'
      BY DEF StepOf
    <2>4. HandlerOK(s)'
      BY <2>1, <2>2, <2>3 DEF HandlerOK, Reached, Event, Upstream, Client
    <2>5. TrackingOK(s)'
      BY <2>1, <2>2 DEF TrackingOK, Upstream, Client
    <2> QED BY <2>4, <2>5
  <1> QED BY <1>1, <1>2 DEF ProxyInv

\* What DNS answers is a sequence of addresses.
LEMMA AnswersAreSequences ==
    ASSUME NEW h \in Hosts \cup {Malformed}, NEW ips \in Answers(h)
    PROVE  ips \in Seq(IPs)
  <1>1. CASE h \in IPs
    <2>1. ips = <<h>>
      BY <1>1 DEF Answers
    <2>2. <<h>> \in Seq(IPs)
      BY <1>1
    <2> QED BY <2>1, <2>2
  <1>2. CASE h \notin IPs
    <2>1. PICK n \in 1..2 : ips \in [1..n -> IPs]
      BY <1>2 DEF Answers
    <2> QED BY <2>1
  <1> QED BY <1>1, <1>2

\* A request refused before DNS opens nothing.
LEMMA AuthorizeRefusesOK ==
    ASSUME ProxyInv, NEW r \in Requests, AuthorizeRefuses(r)
    PROVE  ProxyInv'
  <1>1. TypeOK /\ RevokedHoldsNothing /\ HandlerOK(r) /\ TrackingOK(r)
    BY DEF ProxyInv
  <1>2. TypeOK'
    BY <1>1 DEF TypeOK, Conns, HandlerOK, Authorized, Dialed, Client, Upstream,
         AuthorizeRefuses, refuse, Recorded, NotRecorded, Goto, resolvePeer, Lookup,
         registryVars, handlerVars, countVars, adminVars
  <1>3. StepOf(r)
    BY <1>1 DEF StepOf, TypeOK, Client, Upstream, RevokedHoldsNothing, AuthorizeRefuses,
         refuse, Recorded, NotRecorded, Goto, resolvePeer, Lookup, registryVars,
         handlerVars, countVars, adminVars
  <1>4. HandlerOK(r)'
    BY <1>1 DEF HandlerOK, Reached, Dialed, Authorized, Event, TypeOK, Client, Upstream,
         AuthorizeRefuses, refuse, Recorded, NotRecorded, Goto, resolvePeer, Lookup,
         registryVars, handlerVars, countVars, adminVars
  <1>5. TrackingOK(r)'
    BY <1>1 DEF TrackingOK, TypeOK, Client, Upstream, AuthorizeRefuses, refuse, Recorded,
         NotRecorded, Goto, resolvePeer, Lookup, registryVars, handlerVars, countVars,
         adminVars
  <1> QED BY <1>2, <1>3, <1>4, <1>5, OthersUndisturbed

\* The identity is the owner of the source address, which never changes again.
LEMMA AuthorizeOK ==
    ASSUME ProxyInv, NEW r \in Requests, Authorize(r)
    PROVE  ProxyInv'
  <1>1. TypeOK /\ RevokedHoldsNothing /\ HandlerOK(r) /\ TrackingOK(r)
    BY DEF ProxyInv
  <1>2. TypeOK'
    BY <1>1 DEF TypeOK, Conns, HandlerOK, Authorized, Dialed, Client, Upstream,
         Authorize, Goto, Verdict, Lookup, registryVars, handlerVars, countVars,
         adminVars
  <1>3. StepOf(r)
    BY <1>1 DEF StepOf, TypeOK, Client, Upstream, RevokedHoldsNothing, Authorize, Goto,
         Verdict, Lookup, registryVars, handlerVars, countVars, adminVars
  <1>4. HandlerOK(r)'
    BY <1>1 DEF HandlerOK, Reached, Dialed, Authorized, Event, TypeOK, Client, Upstream,
         Authorize, Goto, Verdict, Lookup, registryVars, handlerVars, countVars,
         adminVars
  <1>5. TrackingOK(r)'
    BY <1>1 DEF TrackingOK, TypeOK, Client, Upstream, Authorize, Goto, Verdict, Lookup,
         registryVars, handlerVars, countVars, adminVars
  <1> QED BY <1>2, <1>3, <1>4, <1>5, OthersUndisturbed

\* Only answers that the guard lets through whole are kept.
LEMMA ResolveOK ==
    ASSUME ProxyInv, NEW r \in Requests, Resolve(r)
    PROVE  ProxyInv'
  <1>1. TypeOK /\ RevokedHoldsNothing /\ HandlerOK(r) /\ TrackingOK(r)
    BY DEF ProxyInv
  <1>2. TypeOK'
    <2>1. addrs' \in [Requests -> Seq(IPs)]
      BY <1>1, AnswersAreSequences DEF TypeOK, Resolve
    <2>2. pc'[r] = "record" /\ pc' = [pc EXCEPT ![r] = "record"]
      BY <1>1 DEF TypeOK, Resolve, Goto
    <2> QED BY <1>1, <2>1, <2>2 DEF TypeOK, Resolve, Goto, registryVars, handlerVars,
         countVars, adminVars
  <1>3. StepOf(r)
    BY <1>1 DEF StepOf, TypeOK, Client, Upstream, RevokedHoldsNothing, Resolve, Goto,
         registryVars, handlerVars, countVars, adminVars
  <1>4. HandlerOK(r)'
    <2>1. PICK ips \in Answers(host[r]) :
              (\A i \in DOMAIN ips : ips[i] \notin Refused) /\ addrs'[r] = ips
      BY <1>1 DEF TypeOK, Resolve
    <2>2. ips \in Seq(IPs)
      BY <1>1, AnswersAreSequences DEF TypeOK
    <2>3. \A i \in DOMAIN addrs'[r] : addrs'[r][i] \in IPs \ Refused
      BY <2>1, <2>2
    <2> QED BY <1>1, <2>3 DEF HandlerOK, Reached, Dialed, Authorized, Event, TypeOK,
                              Client, Upstream, Resolve, Goto, registryVars, handlerVars, countVars, adminVars
  <1>5. TrackingOK(r)'
    BY <1>1 DEF TrackingOK, TypeOK, Client, Upstream, Resolve, Goto, registryVars,
         handlerVars, countVars, adminVars
  <1> QED BY <1>2, <1>3, <1>4, <1>5, OthersUndisturbed

\* A refused answer ends the request.
LEMMA ResolveRefusesOK ==
    ASSUME ProxyInv, NEW r \in Requests, ResolveRefuses(r)
    PROVE  ProxyInv'
  <1>1. TypeOK /\ RevokedHoldsNothing /\ HandlerOK(r) /\ TrackingOK(r)
    BY DEF ProxyInv
  <1>2. TypeOK'
    <2>1. denied' \in {denied, denied + 1} /\ pc' = [pc EXCEPT ![r] = "done"]
      BY DEF ResolveRefuses, refuse, Recorded, NotRecorded, Goto
    <2> QED BY <1>1, <2>1 DEF TypeOK, Conns, ResolveRefuses, registryVars, adminVars
  <1>3. StepOf(r)
    BY <1>1 DEF StepOf, TypeOK, Client, Upstream, RevokedHoldsNothing, ResolveRefuses,
         refuse, Recorded, NotRecorded, Goto, registryVars, handlerVars, countVars,
         adminVars
  <1>4. HandlerOK(r)'
    BY <1>1 DEF HandlerOK, Reached, Dialed, Authorized, Event, TypeOK, Client, Upstream,
         ResolveRefuses, refuse, Recorded, NotRecorded, Goto, registryVars, handlerVars,
         countVars, adminVars
  <1>5. TrackingOK(r)'
    BY <1>1 DEF TrackingOK, TypeOK, Client, Upstream, ResolveRefuses, refuse, Recorded,
         NotRecorded, Goto, registryVars, handlerVars, countVars, adminVars
  <1> QED BY <1>2, <1>3, <1>4, <1>5, OthersUndisturbed

\* The dial is reached with the allow record written, or failing open.
LEMMA RecordAllowOK ==
    ASSUME ProxyInv, NEW r \in Requests, RecordAllow(r)
    PROVE  ProxyInv'
  <1>1. TypeOK /\ RevokedHoldsNothing /\ HandlerOK(r) /\ TrackingOK(r)
    BY DEF ProxyInv
  <1>2. TypeOK'
    BY <1>1 DEF TypeOK, Conns, HandlerOK, Authorized, Dialed, Client, Upstream,
         RecordAllow, Recorded, NotRecorded, Goto, registryVars, handlerVars, countVars,
         adminVars
  <1>3. StepOf(r)
    BY <1>1 DEF StepOf, TypeOK, Client, Upstream, RevokedHoldsNothing, RecordAllow,
         Recorded, NotRecorded, Goto, registryVars, handlerVars, countVars, adminVars
  <1>4. HandlerOK(r)'
    BY <1>1 DEF HandlerOK, Reached, Dialed, Authorized, Event, TypeOK, Client, Upstream,
         RecordAllow, Recorded, NotRecorded, Goto, registryVars, handlerVars, countVars,
         adminVars
  <1>5. TrackingOK(r)'
    BY <1>1 DEF TrackingOK, TypeOK, Client, Upstream, RecordAllow, Recorded, NotRecorded,
         Goto, registryVars, handlerVars, countVars, adminVars
  <1> QED BY <1>2, <1>3, <1>4, <1>5, OthersUndisturbed

\* Failing closed, a lost record ends the request.
LEMMA RecordAllowFailsOK ==
    ASSUME ProxyInv, NEW r \in Requests, RecordAllowFails(r)
    PROVE  ProxyInv'
  <1>1. TypeOK /\ RevokedHoldsNothing /\ HandlerOK(r) /\ TrackingOK(r)
    BY DEF ProxyInv
  <1>2. TypeOK'
    BY <1>1 DEF TypeOK, Conns, HandlerOK, Authorized, Dialed, Client, Upstream,
         RecordAllowFails, refuse, Recorded, NotRecorded, Goto, registryVars,
         handlerVars, countVars, adminVars
  <1>3. StepOf(r)
    BY <1>1 DEF StepOf, TypeOK, Client, Upstream, RevokedHoldsNothing, RecordAllowFails,
         refuse, Recorded, NotRecorded, Goto, registryVars, handlerVars, countVars,
         adminVars
  <1>4. HandlerOK(r)'
    BY <1>1 DEF HandlerOK, Reached, Dialed, Authorized, Event, TypeOK, Client, Upstream,
         RecordAllowFails, refuse, Recorded, NotRecorded, Goto, registryVars,
         handlerVars, countVars, adminVars
  <1>5. TrackingOK(r)'
    BY <1>1 DEF TrackingOK, TypeOK, Client, Upstream, RecordAllowFails, refuse, Recorded,
         NotRecorded, Goto, registryVars, handlerVars, countVars, adminVars
  <1> QED BY <1>2, <1>3, <1>4, <1>5, OthersUndisturbed

\* The address dialed is one of the validated ones.
LEMMA dialValidatedOK ==
    ASSUME ProxyInv, NEW r \in Requests, dialValidated(r)
    PROVE  ProxyInv'
  <1>1. TypeOK /\ RevokedHoldsNothing /\ HandlerOK(r) /\ TrackingOK(r)
    BY DEF ProxyInv
  <1>2. TypeOK'
    BY <1>1 DEF TypeOK, Conns, HandlerOK, Authorized, Dialed, Client, Upstream,
         dialValidated, Goto, registryVars, handlerVars, countVars, adminVars
  <1>3. StepOf(r)
    BY <1>1 DEF StepOf, TypeOK, Client, Upstream, RevokedHoldsNothing, dialValidated,
         Goto, registryVars, handlerVars, countVars, adminVars
  <1>4. HandlerOK(r)'
    BY <1>1 DEF HandlerOK, Reached, Dialed, Authorized, Event, TypeOK, Client, Upstream,
         dialValidated, Goto, registryVars, handlerVars, countVars, adminVars
  <1>5. TrackingOK(r)'
    BY <1>1 DEF TrackingOK, TypeOK, Client, Upstream, dialValidated, Goto, registryVars,
         handlerVars, countVars, adminVars
  <1> QED BY <1>2, <1>3, <1>4, <1>5, OthersUndisturbed

\* No address answered.
LEMMA DialFailsOK ==
    ASSUME ProxyInv, NEW r \in Requests, DialFails(r)
    PROVE  ProxyInv'
  <1>1. TypeOK /\ RevokedHoldsNothing /\ HandlerOK(r) /\ TrackingOK(r)
    BY DEF ProxyInv
  <1>2. TypeOK'
    BY <1>1 DEF TypeOK, Conns, HandlerOK, Authorized, Dialed, Client, Upstream,
         DialFails, refuse, Recorded, NotRecorded, Goto, registryVars, handlerVars,
         countVars, adminVars
  <1>3. StepOf(r)
    BY <1>1 DEF StepOf, TypeOK, Client, Upstream, RevokedHoldsNothing, DialFails, refuse,
         Recorded, NotRecorded, Goto, registryVars, handlerVars, countVars, adminVars
  <1>4. HandlerOK(r)'
    BY <1>1 DEF HandlerOK, Reached, Dialed, Authorized, Event, TypeOK, Client, Upstream,
         DialFails, refuse, Recorded, NotRecorded, Goto, registryVars, handlerVars,
         countVars, adminVars
  <1>5. TrackingOK(r)'
    BY <1>1 DEF TrackingOK, TypeOK, Client, Upstream, DialFails, refuse, Recorded,
         NotRecorded, Goto, registryVars, handlerVars, countVars, adminVars
  <1> QED BY <1>2, <1>3, <1>4, <1>5, OthersUndisturbed

\* The client connection is taken over.
LEMMA HijackOK ==
    ASSUME ProxyInv, NEW r \in Requests, Hijack(r)
    PROVE  ProxyInv'
  <1>1. TypeOK /\ RevokedHoldsNothing /\ HandlerOK(r) /\ TrackingOK(r)
    BY DEF ProxyInv
  <1>2. TypeOK'
    BY <1>1 DEF TypeOK, Conns, HandlerOK, Authorized, Dialed, Client, Upstream, Hijack,
         Goto, registryVars, handlerVars, countVars, adminVars
  <1>3. StepOf(r)
    BY <1>1 DEF StepOf, TypeOK, Client, Upstream, RevokedHoldsNothing, Hijack, Goto,
         registryVars, handlerVars, countVars, adminVars
  <1>4. HandlerOK(r)'
    BY <1>1 DEF HandlerOK, Reached, Dialed, Authorized, Event, TypeOK, Client, Upstream,
         Hijack, Goto, registryVars, handlerVars, countVars, adminVars
  <1>5. TrackingOK(r)'
    BY <1>1 DEF TrackingOK, TypeOK, Client, Upstream, Hijack, Goto, registryVars,
         handlerVars, countVars, adminVars
  <1> QED BY <1>2, <1>3, <1>4, <1>5, OthersUndisturbed

\* The upstream is closed when the client cannot be taken over.
LEMMA HijackFailsOK ==
    ASSUME ProxyInv, NEW r \in Requests, HijackFails(r)
    PROVE  ProxyInv'
  <1>1. TypeOK /\ RevokedHoldsNothing /\ HandlerOK(r) /\ TrackingOK(r)
    BY DEF ProxyInv
  <1>2. TypeOK'
    <2>1. denied' \in {denied, denied + 1} /\ pc' = [pc EXCEPT ![r] = "done"]
      BY DEF HijackFails, refuse, Recorded, NotRecorded, Goto
    <2> QED BY <1>1, <2>1 DEF TypeOK, Conns, HijackFails, registryVars, adminVars
  <1>3. StepOf(r)
    BY <1>1 DEF StepOf, TypeOK, Client, Upstream, RevokedHoldsNothing, HijackFails,
         refuse, Recorded, NotRecorded, Goto, registryVars, handlerVars, countVars,
         adminVars
  <1>4. HandlerOK(r)'
    BY <1>1 DEF HandlerOK, Reached, Dialed, Authorized, Event, TypeOK, Client, Upstream,
         HijackFails, refuse, Recorded, NotRecorded, Goto, registryVars, handlerVars,
         countVars, adminVars
  <1>5. TrackingOK(r)'
    BY <1>1 DEF TrackingOK, TypeOK, Client, Upstream, HijackFails, refuse, Recorded,
         NotRecorded, Goto, registryVars, handlerVars, countVars, adminVars
  <1> QED BY <1>2, <1>3, <1>4, <1>5, OthersUndisturbed

\* Track only adds to a workload that is not revoked.
LEMMA TrackClientOK ==
    ASSUME ProxyInv, NEW r \in Requests, TrackClient(r)
    PROVE  ProxyInv'
  <1>1. TypeOK /\ RevokedHoldsNothing /\ HandlerOK(r) /\ TrackingOK(r)
    BY DEF ProxyInv
  <1>2. TypeOK'
    BY <1>1 DEF TypeOK, Conns, HandlerOK, Authorized, Dialed, Client, Upstream,
         TrackClient, Track, Tracks, Goto, registryVars, handlerVars, countVars,
         adminVars
  <1>3. StepOf(r)
    BY <1>1 DEF StepOf, TypeOK, Client, Upstream, RevokedHoldsNothing, TrackClient,
         Track, Tracks, Goto, registryVars, handlerVars, countVars, adminVars
  <1>4. HandlerOK(r)'
    BY <1>1 DEF HandlerOK, Reached, Dialed, Authorized, Event, TypeOK, Client, Upstream,
         TrackClient, Track, Tracks, Goto, registryVars, handlerVars, countVars,
         adminVars
  <1>5. TrackingOK(r)'
    BY <1>1 DEF TrackingOK, TypeOK, Client, Upstream, TrackClient, Track, Tracks, Goto,
         registryVars, handlerVars, countVars, adminVars
  <1> QED BY <1>2, <1>3, <1>4, <1>5, OthersUndisturbed

\* A revoked workload gets neither connection.
LEMMA TrackClientFailsOK ==
    ASSUME ProxyInv, NEW r \in Requests, TrackClientFails(r)
    PROVE  ProxyInv'
  <1>1. TypeOK /\ RevokedHoldsNothing /\ HandlerOK(r) /\ TrackingOK(r)
    BY DEF ProxyInv
  <1>2. TypeOK'
    BY <1>1 DEF TypeOK, Conns, HandlerOK, Authorized, Dialed, Client, Upstream,
         TrackClientFails, refuse, Recorded, NotRecorded, Goto, registryVars,
         handlerVars, countVars, adminVars
  <1>3. StepOf(r)
    BY <1>1 DEF StepOf, TypeOK, Client, Upstream, RevokedHoldsNothing, TrackClientFails,
         refuse, Recorded, NotRecorded, Goto, registryVars, handlerVars, countVars,
         adminVars
  <1>4. HandlerOK(r)'
    BY <1>1 DEF HandlerOK, Reached, Dialed, Authorized, Event, TypeOK, Client, Upstream,
         TrackClientFails, refuse, Recorded, NotRecorded, Goto, registryVars,
         handlerVars, countVars, adminVars
  <1>5. TrackingOK(r)'
    BY <1>1 DEF TrackingOK, TypeOK, Client, Upstream, TrackClientFails, refuse, Recorded,
         NotRecorded, Goto, registryVars, handlerVars, countVars, adminVars
  <1> QED BY <1>2, <1>3, <1>4, <1>5, OthersUndisturbed

\* Track only adds to a workload that is not revoked.
LEMMA TrackUpstreamOK ==
    ASSUME ProxyInv, NEW r \in Requests, TrackUpstream(r)
    PROVE  ProxyInv'
  <1>1. TypeOK /\ RevokedHoldsNothing /\ HandlerOK(r) /\ TrackingOK(r)
    BY DEF ProxyInv
  <1>2. TypeOK'
    BY <1>1 DEF TypeOK, Conns, HandlerOK, Authorized, Dialed, Client, Upstream,
         TrackUpstream, Track, Tracks, Goto, registryVars, handlerVars, countVars,
         adminVars
  <1>3. StepOf(r)
    BY <1>1 DEF StepOf, TypeOK, Client, Upstream, RevokedHoldsNothing, TrackUpstream,
         Track, Tracks, Goto, registryVars, handlerVars, countVars, adminVars
  <1>4. HandlerOK(r)'
    BY <1>1 DEF HandlerOK, Reached, Dialed, Authorized, Event, TypeOK, Client, Upstream,
         TrackUpstream, Track, Tracks, Goto, registryVars, handlerVars, countVars,
         adminVars
  <1>5. TrackingOK(r)'
    BY <1>1 DEF TrackingOK, TypeOK, Client, Upstream, TrackUpstream, Track, Tracks, Goto,
         registryVars, handlerVars, countVars, adminVars
  <1> QED BY <1>2, <1>3, <1>4, <1>5, OthersUndisturbed

\* The tracked client is released and both ends closed.
LEMMA TrackUpstreamFailsOK ==
    ASSUME ProxyInv, NEW r \in Requests, TrackUpstreamFails(r)
    PROVE  ProxyInv'
  <1>1. TypeOK /\ RevokedHoldsNothing /\ HandlerOK(r) /\ TrackingOK(r)
    BY DEF ProxyInv
  <1>2. TypeOK'
    BY <1>1 DEF TypeOK, Conns, HandlerOK, Authorized, Dialed, Client, Upstream,
         TrackUpstreamFails, Release, Goto, registryVars, handlerVars, countVars,
         adminVars
  <1>3. StepOf(r)
    BY <1>1 DEF StepOf, TypeOK, Client, Upstream, RevokedHoldsNothing,
         TrackUpstreamFails, Release, Goto, registryVars, handlerVars, countVars,
         adminVars
  <1>4. HandlerOK(r)'
    BY <1>1 DEF HandlerOK, Reached, Dialed, Authorized, Event, TypeOK, Client, Upstream,
         TrackUpstreamFails, Release, Goto, registryVars, handlerVars, countVars,
         adminVars
  <1>5. TrackingOK(r)'
    BY <1>1 DEF TrackingOK, TypeOK, Client, Upstream, TrackUpstreamFails, Release, Goto,
         registryVars, handlerVars, countVars, adminVars
  <1> QED BY <1>2, <1>3, <1>4, <1>5, OthersUndisturbed

\* The tunnel starts.
LEMMA EstablishOK ==
    ASSUME ProxyInv, NEW r \in Requests, Establish(r)
    PROVE  ProxyInv'
  <1>1. TypeOK /\ RevokedHoldsNothing /\ HandlerOK(r) /\ TrackingOK(r)
    BY DEF ProxyInv
  <1>2. TypeOK'
    BY <1>1 DEF TypeOK, Conns, HandlerOK, Authorized, Dialed, Client, Upstream,
         Establish, Goto, registryVars, handlerVars, countVars, adminVars
  <1>3. StepOf(r)
    BY <1>1 DEF StepOf, TypeOK, Client, Upstream, RevokedHoldsNothing, Establish, Goto,
         registryVars, handlerVars, countVars, adminVars
  <1>4. HandlerOK(r)'
    BY <1>1 DEF HandlerOK, Reached, Dialed, Authorized, Event, TypeOK, Client, Upstream,
         Establish, Goto, registryVars, handlerVars, countVars, adminVars
  <1>5. TrackingOK(r)'
    BY <1>1 DEF TrackingOK, TypeOK, Client, Upstream, Establish, Goto, registryVars,
         handlerVars, countVars, adminVars
  <1> QED BY <1>2, <1>3, <1>4, <1>5, OthersUndisturbed

\* A tunnel whose client is gone is released and closed.
LEMMA EstablishFailsOK ==
    ASSUME ProxyInv, NEW r \in Requests, EstablishFails(r)
    PROVE  ProxyInv'
  <1>1. TypeOK /\ RevokedHoldsNothing /\ HandlerOK(r) /\ TrackingOK(r)
    BY DEF ProxyInv
  <1>2. TypeOK'
    BY <1>1 DEF TypeOK, Conns, HandlerOK, Authorized, Dialed, Client, Upstream,
         EstablishFails, Release, Goto, registryVars, handlerVars, countVars, adminVars
  <1>3. StepOf(r)
    BY <1>1 DEF StepOf, TypeOK, Client, Upstream, RevokedHoldsNothing, EstablishFails,
         Release, Goto, registryVars, handlerVars, countVars, adminVars
  <1>4. HandlerOK(r)'
    BY <1>1 DEF HandlerOK, Reached, Dialed, Authorized, Event, TypeOK, Client, Upstream,
         EstablishFails, Release, Goto, registryVars, handlerVars, countVars, adminVars
  <1>5. TrackingOK(r)'
    BY <1>1 DEF TrackingOK, TypeOK, Client, Upstream, EstablishFails, Release, Goto,
         registryVars, handlerVars, countVars, adminVars
  <1> QED BY <1>2, <1>3, <1>4, <1>5, OthersUndisturbed

\* Bytes go out through an open tunnel.
LEMMA PipeOK ==
    ASSUME ProxyInv, NEW r \in Requests, Pipe(r)
    PROVE  ProxyInv'
  <1>1. TypeOK /\ RevokedHoldsNothing /\ HandlerOK(r) /\ TrackingOK(r)
    BY DEF ProxyInv
  <1>2. TypeOK'
    BY <1>1 DEF TypeOK, Conns, HandlerOK, Authorized, Dialed, Client, Upstream, Pipe,
         registryVars, handlerVars, countVars, adminVars
  <1>3. StepOf(r)
    BY <1>1 DEF StepOf, TypeOK, Client, Upstream, RevokedHoldsNothing, Pipe,
         registryVars, handlerVars, countVars, adminVars
  <1>4. HandlerOK(r)'
    BY <1>1 DEF HandlerOK, Reached, Dialed, Authorized, Event, TypeOK, Client, Upstream,
         Pipe, registryVars, handlerVars, countVars, adminVars
  <1>5. TrackingOK(r)'
    BY <1>1 DEF TrackingOK, TypeOK, Client, Upstream, Pipe, registryVars, handlerVars,
         countVars, adminVars
  <1> QED BY <1>2, <1>3, <1>4, <1>5, OthersUndisturbed

\* Both ends of a tunnel are closed together.
LEMMA PipeEndsOK ==
    ASSUME ProxyInv, NEW r \in Requests, PipeEnds(r)
    PROVE  ProxyInv'
  <1>1. TypeOK /\ RevokedHoldsNothing /\ HandlerOK(r) /\ TrackingOK(r)
    BY DEF ProxyInv
  <1>2. TypeOK'
    BY <1>1 DEF TypeOK, Conns, HandlerOK, Authorized, Dialed, Client, Upstream, PipeEnds,
         Goto, registryVars, handlerVars, countVars, adminVars
  <1>3. StepOf(r)
    BY <1>1 DEF StepOf, TypeOK, Client, Upstream, RevokedHoldsNothing, PipeEnds, Goto,
         registryVars, handlerVars, countVars, adminVars
  <1>4. HandlerOK(r)'
    BY <1>1 DEF HandlerOK, Reached, Dialed, Authorized, Event, TypeOK, Client, Upstream,
         PipeEnds, Goto, registryVars, handlerVars, countVars, adminVars
  <1>5. TrackingOK(r)'
    BY <1>1 DEF TrackingOK, TypeOK, Client, Upstream, PipeEnds, Goto, registryVars,
         handlerVars, countVars, adminVars
  <1> QED BY <1>2, <1>3, <1>4, <1>5, OthersUndisturbed

\* The tunnel is released.
LEMMA ClosedOK ==
    ASSUME ProxyInv, NEW r \in Requests, Closed(r)
    PROVE  ProxyInv'
  <1>1. TypeOK /\ RevokedHoldsNothing /\ HandlerOK(r) /\ TrackingOK(r)
    BY DEF ProxyInv
  <1>2. TypeOK'
    BY <1>1 DEF TypeOK, Conns, HandlerOK, Authorized, Dialed, Client, Upstream, Closed,
         Release, Recorded, NotRecorded, Goto, registryVars, handlerVars, countVars,
         adminVars
  <1>3. StepOf(r)
    BY <1>1 DEF StepOf, TypeOK, Client, Upstream, RevokedHoldsNothing, Closed, Release,
         Recorded, NotRecorded, Goto, registryVars, handlerVars, countVars, adminVars
  <1>4. HandlerOK(r)'
    BY <1>1 DEF HandlerOK, Reached, Dialed, Authorized, Event, TypeOK, Client, Upstream,
         Closed, Release, Recorded, NotRecorded, Goto, registryVars, handlerVars,
         countVars, adminVars
  <1>5. TrackingOK(r)'
    BY <1>1 DEF TrackingOK, TypeOK, Client, Upstream, Closed, Release, Recorded,
         NotRecorded, Goto, registryVars, handlerVars, countVars, adminVars
  <1> QED BY <1>2, <1>3, <1>4, <1>5, OthersUndisturbed

\* A forwarded request goes out.
LEMMA ExchangeOK ==
    ASSUME ProxyInv, NEW r \in Requests, Exchange(r)
    PROVE  ProxyInv'
  <1>1. TypeOK /\ RevokedHoldsNothing /\ HandlerOK(r) /\ TrackingOK(r)
    BY DEF ProxyInv
  <1>2. TypeOK'
    BY <1>1 DEF TypeOK, Conns, HandlerOK, Authorized, Dialed, Client, Upstream, Exchange,
         registryVars, handlerVars, countVars, adminVars
  <1>3. StepOf(r)
    BY <1>1 DEF StepOf, TypeOK, Client, Upstream, RevokedHoldsNothing, Exchange,
         registryVars, handlerVars, countVars, adminVars
  <1>4. HandlerOK(r)'
    BY <1>1 DEF HandlerOK, Reached, Dialed, Authorized, Event, TypeOK, Client, Upstream,
         Exchange, registryVars, handlerVars, countVars, adminVars
  <1>5. TrackingOK(r)'
    BY <1>1 DEF TrackingOK, TypeOK, Client, Upstream, Exchange, registryVars,
         handlerVars, countVars, adminVars
  <1> QED BY <1>2, <1>3, <1>4, <1>5, OthersUndisturbed

\* The exchange fails and its connection is closed.
LEMMA RoundTripFailsOK ==
    ASSUME ProxyInv, NEW r \in Requests, RoundTripFails(r)
    PROVE  ProxyInv'
  <1>1. TypeOK /\ RevokedHoldsNothing /\ HandlerOK(r) /\ TrackingOK(r)
    BY DEF ProxyInv
  <1>2. TypeOK'
    BY <1>1 DEF TypeOK, Conns, HandlerOK, Authorized, Dialed, Client, Upstream,
         RoundTripFails, refuse, Recorded, NotRecorded, Goto, registryVars, handlerVars,
         countVars, adminVars
  <1>3. StepOf(r)
    BY <1>1 DEF StepOf, TypeOK, Client, Upstream, RevokedHoldsNothing, RoundTripFails,
         refuse, Recorded, NotRecorded, Goto, registryVars, handlerVars, countVars,
         adminVars
  <1>4. HandlerOK(r)'
    BY <1>1 DEF HandlerOK, Reached, Dialed, Authorized, Event, TypeOK, Client, Upstream,
         RoundTripFails, refuse, Recorded, NotRecorded, Goto, registryVars, handlerVars,
         countVars, adminVars
  <1>5. TrackingOK(r)'
    BY <1>1 DEF TrackingOK, TypeOK, Client, Upstream, RoundTripFails, refuse, Recorded,
         NotRecorded, Goto, registryVars, handlerVars, countVars, adminVars
  <1> QED BY <1>2, <1>3, <1>4, <1>5, OthersUndisturbed

\* The response arrives.
LEMMA RoundTripOK ==
    ASSUME ProxyInv, NEW r \in Requests, RoundTrip(r)
    PROVE  ProxyInv'
  <1>1. TypeOK /\ RevokedHoldsNothing /\ HandlerOK(r) /\ TrackingOK(r)
    BY DEF ProxyInv
  <1>2. TypeOK'
    BY <1>1 DEF TypeOK, Conns, HandlerOK, Authorized, Dialed, Client, Upstream,
         RoundTrip, Goto, registryVars, handlerVars, countVars, adminVars
  <1>3. StepOf(r)
    BY <1>1 DEF StepOf, TypeOK, Client, Upstream, RevokedHoldsNothing, RoundTrip, Goto,
         registryVars, handlerVars, countVars, adminVars
  <1>4. HandlerOK(r)'
    BY <1>1 DEF HandlerOK, Reached, Dialed, Authorized, Event, TypeOK, Client, Upstream,
         RoundTrip, Goto, registryVars, handlerVars, countVars, adminVars
  <1>5. TrackingOK(r)'
    BY <1>1 DEF TrackingOK, TypeOK, Client, Upstream, RoundTrip, Goto, registryVars,
         handlerVars, countVars, adminVars
  <1> QED BY <1>2, <1>3, <1>4, <1>5, OthersUndisturbed

\* The response ends and its connection is closed.
LEMMA BodyEndsOK ==
    ASSUME ProxyInv, NEW r \in Requests, BodyEnds(r)
    PROVE  ProxyInv'
  <1>1. TypeOK /\ RevokedHoldsNothing /\ HandlerOK(r) /\ TrackingOK(r)
    BY DEF ProxyInv
  <1>2. TypeOK'
    BY <1>1 DEF TypeOK, Conns, HandlerOK, Authorized, Dialed, Client, Upstream, BodyEnds,
         Goto, registryVars, handlerVars, countVars, adminVars
  <1>3. StepOf(r)
    BY <1>1 DEF StepOf, TypeOK, Client, Upstream, RevokedHoldsNothing, BodyEnds, Goto,
         registryVars, handlerVars, countVars, adminVars
  <1>4. HandlerOK(r)'
    BY <1>1 DEF HandlerOK, Reached, Dialed, Authorized, Event, TypeOK, Client, Upstream,
         BodyEnds, Goto, registryVars, handlerVars, countVars, adminVars
  <1>5. TrackingOK(r)'
    BY <1>1 DEF TrackingOK, TypeOK, Client, Upstream, BodyEnds, Goto, registryVars,
         handlerVars, countVars, adminVars
  <1> QED BY <1>2, <1>3, <1>4, <1>5, OthersUndisturbed

-----------------------------------------------------------------------------
(* Revocations and start-up *)

\* A step that touches no handler, no evidence of one and no connection.
LEMMA HandlersUntouched ==
    ASSUME ProxyInv, TypeOK', RevokedHoldsNothing',
           UNCHANGED <<pc, src, host, ident, addrs, dialed, moved>>,
           open' \subseteq open, events \subseteq events',
           serving => byAddr' = byAddr, serving => serving',
           \A w \in Workloads : conns'[w] \subseteq conns[w]
    PROVE  ProxyInv'
  <1> SUFFICES ASSUME NEW r \in Requests
               PROVE  HandlerOK(r)' /\ TrackingOK(r)'
    BY DEF ProxyInv
  <1>1. HandlerOK(r) /\ TrackingOK(r) /\ TypeOK
    BY DEF ProxyInv
  <1>2. HandlerOK(r)'
    <2>1. pc[r] \in Authorized \/ Reached(r) => serving
      BY <1>1 DEF HandlerOK, Authorized, Reached, Dialed
    <2>2. Reached(r)' => Reached(r)
      BY DEF Reached, Upstream
    <2> QED BY <1>1, <2>1, <2>2 DEF HandlerOK, Event, Upstream, Client
  <1>3. TrackingOK(r)'
    BY <1>1 DEF TrackingOK, Upstream, Client
  <1> QED BY <1>2, <1>3

\* Revoke clears the workload it flags; the other steps of the kill switch
\* close connections or change nothing.
LEMMA AdminOK ==
    ASSUME ProxyInv, NEW o \in Operators, AdminStep(o)
    PROVE  ProxyInv'
  <1>1. TypeOK /\ RevokedHoldsNothing
    BY DEF ProxyInv
  <1>2. CASE Revoke(o)
    <2>1. TypeOK'
      BY <1>1, <1>2 DEF TypeOK, Revoke, RevokeFlag, handlerVars, countVars
    <2>2. /\ RevokedHoldsNothing'
          /\ \A w \in Workloads : conns'[w] \subseteq conns[w]
      BY <1>1, <1>2 DEF TypeOK, RevokedHoldsNothing, Revoke, RevokeFlag
    <2>3. /\ UNCHANGED <<pc, src, host, ident, addrs, dialed, moved, byAddr, serving>>
          /\ open' = open /\ events' = events
      BY <1>2 DEF Revoke, RevokeFlag, handlerVars
    <2> QED BY <2>1, <2>2, <2>3, HandlersUntouched
  <1>3. CASE \E c \in Conns : CloseDoomed(o, c)
    <2>1. PICK c \in Conns : CloseDoomed(o, c)
      BY <1>3
    <2>2. TypeOK'
      BY <1>1, <2>1 DEF TypeOK, CloseDoomed, registryVars, handlerVars, countVars
    <2>3. /\ UNCHANGED <<pc, src, host, ident, addrs, dialed, moved, byAddr, serving, revoked, conns>>
          /\ open' \subseteq open /\ events' = events
      BY <2>1 DEF CloseDoomed, registryVars, handlerVars
    <2>4. RevokedHoldsNothing'
      BY <1>1, <2>3 DEF RevokedHoldsNothing
    <2> QED BY <2>2, <2>3, <2>4, HandlersUntouched
  <1>4. CASE RevokeUnknown(o) \/ RevokeAgain(o) \/ RevokeReturns(o) \/ RecordRevoked(o)
    <2>1. TypeOK'
      BY <1>1, <1>4 DEF TypeOK, RevokeUnknown, RevokeAgain, RevokeReturns, RecordRevoked,
                        registryVars, handlerVars, countVars
    <2>2. /\ UNCHANGED <<pc, src, host, ident, addrs, dialed, moved, byAddr, serving, revoked, conns>>
          /\ open' = open /\ events \subseteq events'
      BY <1>4 DEF RevokeUnknown, RevokeAgain, RevokeReturns, RecordRevoked, Recorded,
                  NotRecorded, registryVars, handlerVars
    <2>3. RevokedHoldsNothing'
      BY <1>1, <2>2 DEF RevokedHoldsNothing
    <2> QED BY <2>1, <2>2, <2>3, HandlersUntouched
  <1> QED BY <1>2, <1>3, <1>4 DEF AdminStep

\* Addresses are bound only before the first request is served.
LEMMA StartOK ==
    ASSUME ProxyInv,
           Serve \/ \E w \in Workloads, a \in Addrs : RegisterWorkload(w, a)
    PROVE  ProxyInv'
  <1>1. TypeOK /\ RevokedHoldsNothing
    BY DEF ProxyInv
  <1>2. CASE Serve
    <2>1. TypeOK'
      BY <1>1, <1>2 DEF TypeOK, Serve, registryVars, handlerVars, countVars, adminVars
    <2>2. /\ UNCHANGED <<pc, src, host, ident, addrs, dialed, moved, byAddr, revoked, conns>>
          /\ open' = open /\ events' = events /\ serving'
      BY <1>2 DEF Serve, registryVars, handlerVars
    <2>3. RevokedHoldsNothing'
      BY <1>1, <2>2 DEF RevokedHoldsNothing
    <2> QED BY <2>1, <2>2, <2>3, HandlersUntouched
  <1>3. ASSUME NEW w \in Workloads, NEW a \in Addrs, RegisterWorkload(w, a)
        PROVE  ProxyInv'
    <2>1. TypeOK'
      BY <1>1, <1>3 DEF TypeOK, RegisterWorkload, Register, handlerVars, countVars,
           adminVars
    <2>2. /\ UNCHANGED <<pc, src, host, ident, addrs, dialed, moved, revoked, conns>>
          /\ open' = open /\ events \subseteq events' /\ ~serving /\ serving' = serving
      BY <1>3 DEF RegisterWorkload, Register, Recorded, handlerVars
    <2>3. RevokedHoldsNothing'
      BY <1>1, <2>2 DEF RevokedHoldsNothing
    <2> QED BY <2>1, <2>2, <2>3, HandlersUntouched
  <1> QED BY <1>2, <1>3

-----------------------------------------------------------------------------
(* The invariant, and what follows from it *)

\* Nothing is open, tracked or revoked at first.
LEMMA ProxyInit == Init => ProxyInv
  <1> SUFFICES ASSUME Init PROVE ProxyInv
    OBVIOUS
  <1>1. TypeOK
    <2>1. addrs \in [Requests -> Seq(IPs)]
      <3>1. <<>> \in Seq(IPs)
        OBVIOUS
      <3> QED BY <3>1 DEF Init
    <2>2. serving \in BOOLEAN
      BY DEF Init
    <2>3. allowed \in Nat /\ denied \in Nat
      BY DEF Init
    <2> QED BY <2>1, <2>2, <2>3 DEF Init, RegistryInit, TypeOK
  <1>2. RevokedHoldsNothing
    BY DEF Init, RegistryInit, RevokedHoldsNothing
  <1>3. \A r \in Requests : HandlerOK(r) /\ TrackingOK(r)
    BY DEF Init, RegistryInit, HandlerOK, TrackingOK, Reached, Dialed, Authorized
  <1> QED BY <1>1, <1>2, <1>3 DEF ProxyInv

\* Every step keeps the invariant.
LEMMA ProxyStep == ProxyInv /\ [Next]_vars => ProxyInv'
  <1> SUFFICES ASSUME ProxyInv, [Next]_vars PROVE ProxyInv'
    OBVIOUS
  <1>1. ASSUME NEW r \in Requests, HandlerStep(r) PROVE ProxyInv'
    BY <1>1, AuthorizeRefusesOK, AuthorizeOK, ResolveOK, ResolveRefusesOK,
       RecordAllowOK, RecordAllowFailsOK, dialValidatedOK, DialFailsOK DEF HandlerStep
  <1>2. ASSUME NEW r \in Requests, ConnectStep(r) PROVE ProxyInv'
    BY <1>2, HijackOK, HijackFailsOK, TrackClientOK, TrackClientFailsOK,
       TrackUpstreamOK, TrackUpstreamFailsOK, EstablishOK, EstablishFailsOK,
       PipeOK, PipeEndsOK, ClosedOK DEF ConnectStep
  <1>3. ASSUME NEW r \in Requests, HTTPStep(r) PROVE ProxyInv'
    BY <1>3, ExchangeOK, RoundTripFailsOK, RoundTripOK, BodyEndsOK DEF HTTPStep
  <1>4. CASE UNCHANGED vars
    <2>1. TypeOK' /\ RevokedHoldsNothing'
      BY <1>4 DEF vars, registryVars, handlerVars, countVars, adminVars, ProxyInv,
                  TypeOK, RevokedHoldsNothing
    <2> QED BY <1>4, <2>1, HandlersUntouched DEF vars, registryVars, handlerVars
  <1> QED BY <1>1, <1>2, <1>3, <1>4, AdminOK, StartOK DEF Next

\* ProxyInv is an invariant of the proxy.
THEOREM ProxyInvariant == Spec => []ProxyInv
  BY ProxyInit, ProxyStep, PTL DEF Spec

\* No destination is reached before its allow record is in the evidence log.
THEOREM RecordGatesEgress == Spec => []RecordedFirst
  <1>1. ProxyInv => RecordedFirst
    BY DEF ProxyInv, HandlerOK, RecordedFirst
  <1> QED BY <1>1, ProxyInvariant, PTL

\* Whatever DNS answers, only addresses the guard lets through are reached, and
\* only for destinations the policy allows to the owner of the source address.
THEOREM EgressIsPermitted == Spec => []OnlyPermitted
  <1>1. ProxyInv => OnlyPermitted
    BY DEF ProxyInv, HandlerOK, OnlyPermitted
  <1> QED BY <1>1, ProxyInvariant, PTL

\* A handler that raced a revocation never leaves a tracked connection behind.
THEOREM RevokedStaysEmpty == Spec => []RevokedHoldsNothing
  <1>1. ProxyInv => RevokedHoldsNothing
    BY DEF ProxyInv
  <1> QED BY <1>1, ProxyInvariant, PTL

\* Every path out of a handler closes and releases what it opened.
THEOREM HandlersCleanUp == Spec => []NothingLeaks
  <1>1. ASSUME ProxyInv PROVE NothingLeaks
    <2>1. TypeOK /\ \A r \in Requests : HandlerOK(r) /\ TrackingOK(r)
      BY <1>1 DEF ProxyInv
    <2>2. ASSUME NEW r \in Requests, pc[r] = "done"
          PROVE  \A end \in {"client", "upstream"} :
                    <<r, end>> \notin open /\ \A w \in Workloads : <<r, end>> \notin conns[w]
      BY <2>1, <2>2 DEF HandlerOK, TrackingOK, Dialed, Client, Upstream
    <2>3. ASSUME NEW w \in Workloads, NEW c \in conns[w]
          PROVE  ident[c[1]] = w
      <3>1. c \in Conns
        BY <2>1, <2>3 DEF TypeOK
      <3>2. PICK r \in Requests, end \in {"client", "upstream"} : c = <<r, end>>
        BY <3>1 DEF Conns
      <3>3. c[1] = r /\ (c = Client(r) \/ c = Upstream(r))
        BY <3>2 DEF Client, Upstream
      <3> QED BY <2>1, <2>3, <3>3 DEF TrackingOK
    <2> QED BY <2>2, <2>3 DEF NothingLeaks
  <1> QED BY <1>1, ProxyInvariant, PTL

-----------------------------------------------------------------------------
(* The kill switch, for tunnels *)

\* A step of the kill switch keeps every open tunnel tracked or doomed.
LEMMA TunnelAdmin ==
    ASSUME ProxyInv, TunnelInv, NEW o \in Operators, AdminStep(o)
    PROVE  TunnelInv'
  <1>1. TypeOK
    BY DEF ProxyInv
  <1> DEFINE Held(r) ==
        \/ Upstream(r) \in conns[ident[r]]
        \/ \E p \in Operators : opc[p] = "closing" /\ Upstream(r) \in doomed[p]
  <1>2. /\ UNCHANGED <<pc, ident, target>> /\ revoked \subseteq revoked' /\ open' \subseteq open
    BY DEF AdminStep, RevokeUnknown, Revoke, RevokeFlag, RevokeAgain, RevokeReturns,
           RecordRevoked, CloseDoomed, registryVars, handlerVars
  <1>3. \A p \in Operators :
          opc'[p] \in {"closing", "returned", "answered"} => target'[p] \in revoked'
    <2>1. \A p \in Operators \ {o} : opc'[p] = opc[p]
      BY <1>1 DEF TypeOK, AdminStep, RevokeUnknown, Revoke, RevokeAgain, RevokeReturns,
                  RecordRevoked, CloseDoomed
    <2>2. opc'[o] \in {"closing", "returned", "answered"} => target[o] \in revoked'
      BY <1>1, <1>2 DEF TunnelInv, TypeOK, AdminStep, RevokeUnknown, Revoke, RevokeFlag,
                  RevokeAgain, RevokeReturns, RecordRevoked, CloseDoomed
    <2> QED BY <1>2, <2>1, <2>2 DEF TunnelInv
  <1>4. ASSUME NEW r \in Requests, pc[r] \in {"established", "pipe"},
               Upstream(r) \in open', Held(r)
        PROVE  Held(r)'
    <2>1. ident[r] \in Workloads
      BY <1>4 DEF ProxyInv, HandlerOK, Authorized, Dialed
    <2>2. CASE Revoke(o)
      <3>1. CASE Upstream(r) \in conns[ident[r]] /\ ident[r] = target[o]
        <4>1. opc'[o] = "closing" /\ Upstream(r) \in doomed'[o]
          BY <1>1, <2>2, <3>1 DEF TypeOK, Revoke
        <4> QED BY <4>1 DEF Upstream
      <3>2. CASE Upstream(r) \in conns[ident[r]] /\ ident[r] # target[o]
        <4>1. conns'[ident'[r]] = conns[ident[r]]
          BY <1>1, <1>2, <2>1, <2>2, <3>2 DEF TypeOK, Revoke, RevokeFlag
        <4> QED BY <3>2, <4>1 DEF Upstream
      <3>3. ASSUME NEW p \in Operators, opc[p] = "closing", Upstream(r) \in doomed[p]
            PROVE  Held(r)'
        <4>1. opc'[p] = "closing" /\ doomed'[p] = doomed[p]
          BY <1>1, <2>2, <3>3 DEF TypeOK, Revoke
        <4> QED BY <3>3, <4>1 DEF Upstream
      <3> QED BY <1>4, <3>1, <3>2, <3>3
    <2>3. ASSUME NEW c \in Conns, CloseDoomed(o, c)
          PROVE  Held(r)'
      <3>1. c # Upstream(r)
        BY <1>4, <2>3 DEF CloseDoomed
      <3>2. /\ conns' = conns /\ opc' = opc
            /\ \A p \in Operators : Upstream(r) \in doomed[p] => Upstream(r) \in doomed'[p]
        BY <1>1, <2>3, <3>1 DEF TypeOK, CloseDoomed, registryVars
      <3> QED BY <1>2, <1>4, <3>2 DEF Upstream
    <2>4. CASE RevokeUnknown(o) \/ RevokeAgain(o) \/ RevokeReturns(o) \/ RecordRevoked(o)
      <3>1. /\ conns' = conns /\ doomed' = doomed
            /\ opc[o] = "closing" => doomed[o] = {}
            /\ \A p \in Operators \ {o} : opc'[p] = opc[p]
        BY <1>1, <2>4 DEF TypeOK, RevokeUnknown, RevokeAgain, RevokeReturns, RecordRevoked,
                          registryVars
      <3> QED BY <1>2, <1>4, <3>1 DEF Upstream
    <2> QED BY <2>2, <2>3, <2>4 DEF AdminStep
  <1>5. TunnelsTracked'
    BY <1>2, <1>4 DEF TunnelInv, TunnelsTracked, Upstream
  <1> QED BY <1>2, <1>3, <1>5 DEF TunnelInv

\* A step of a handler: both connections of a tunnel are tracked before it is
\* established, and released only after they were closed.
LEMMA TunnelHandler ==
    ASSUME Methods = {"CONNECT"}, ProxyInv, TunnelInv, NEW r \in Requests,
           HandlerStep(r) \/ ConnectStep(r) \/ HTTPStep(r)
    PROVE  TunnelInv'
  <1>1. TypeOK /\ HandlerOK(r) /\ method[r] = "CONNECT" /\ pc[r] \notin {"exchange", "body"}
    BY DEF ProxyInv, TunnelInv, TypeOK
  <1>2. /\ UNCHANGED <<opc, target, doomed, revoked>>
        /\ \A s \in Requests \ {r} :
            /\ pc'[s] = pc[s] /\ ident'[s] = ident[s]
            /\ Upstream(s) \in open' <=> Upstream(s) \in open
            /\ \A w \in Workloads : Upstream(s) \in conns'[w] <=> Upstream(s) \in conns[w]
    <2>1. CASE HandlerStep(r)
      BY <1>1, <2>1 DEF TypeOK, HandlerStep, AuthorizeRefuses, Authorize, Resolve,
            ResolveRefuses, RecordAllow, RecordAllowFails, dialValidated, DialFails,
            refuse, Goto, Upstream, registryVars, adminVars
    <2>2. CASE ConnectStep(r)
      <3>1. CASE TrackClient(r)
        BY <1>1, <3>1 DEF TypeOK, TrackClient, Track, Goto, Upstream, Client, adminVars
      <3>2. CASE TrackUpstream(r)
        BY <1>1, <3>2 DEF TypeOK, TrackUpstream, Track, Goto, Upstream, Client, adminVars
      <3>3. CASE TrackUpstreamFails(r)
        BY <1>1, <3>3 DEF TypeOK, TrackUpstreamFails, Release, Goto, Upstream, Client,
             adminVars
      <3>4. CASE EstablishFails(r)
        BY <1>1, <3>4 DEF TypeOK, EstablishFails, Release, Goto, Upstream, Client, adminVars
      <3>5. CASE Closed(r)
        BY <1>1, <3>5 DEF TypeOK, Closed, Release, Goto, Upstream, Client, adminVars
      <3>6. CASE Hijack(r) \/ HijackFails(r) \/ TrackClientFails(r)
        BY <1>1, <3>6 DEF TypeOK, Hijack, HijackFails, TrackClientFails, refuse, Goto,
              Upstream, Client, adminVars, registryVars
      <3>7. CASE Establish(r) \/ Pipe(r) \/ PipeEnds(r)
        BY <1>1, <3>7 DEF TypeOK, Establish, Pipe, PipeEnds, Goto, Upstream, Client,
              adminVars, registryVars, handlerVars
      <3> QED BY <2>2, <3>1, <3>2, <3>3, <3>4, <3>5, <3>6, <3>7 DEF ConnectStep
    <2>3. CASE HTTPStep(r)
      BY <1>1, <2>3 DEF HTTPStep, Exchange, RoundTripFails, RoundTrip, BodyEnds
    <2> QED BY <2>1, <2>2, <2>3
  <1>3. /\ pc'[r] \notin {"exchange", "body"}
        /\ pc'[r] \in {"established", "pipe"} /\ Upstream(r) \in open' =>
              \/ Upstream(r) \in conns'[ident'[r]]
              \/ /\ pc[r] \in {"established", "pipe"} /\ Upstream(r) \in open
                 /\ conns' = conns /\ ident' = ident
    <2>1. CASE HandlerStep(r)
      BY <1>1, <2>1 DEF TypeOK, HandlerStep, AuthorizeRefuses, Authorize, Resolve,
            ResolveRefuses, RecordAllow, RecordAllowFails, dialValidated, DialFails,
            refuse, Goto
    <2>2. CASE ConnectStep(r)
      <3>1. ident[r] \in Workloads
        BY <1>1, <2>2 DEF HandlerOK, Authorized, Dialed, ConnectStep, Hijack, HijackFails,
            TrackClient, TrackClientFails, TrackUpstream, TrackUpstreamFails, Establish,
            EstablishFails, Pipe, PipeEnds, Closed
      <3> QED BY <1>1, <2>2, <3>1 DEF TypeOK, ConnectStep, Hijack, HijackFails, TrackClient,
            TrackClientFails, TrackUpstream, TrackUpstreamFails, Establish,
            EstablishFails, Pipe, PipeEnds, Closed, Track, Release, refuse, Goto,
            Upstream, Client, registryVars, handlerVars
    <2>3. CASE HTTPStep(r)
      BY <1>1, <2>3 DEF HTTPStep, Exchange, RoundTripFails, RoundTrip, BodyEnds
    <2> QED BY <2>1, <2>2, <2>3
  <1>4. TunnelsTracked'
    <2> SUFFICES ASSUME NEW s \in Requests, pc'[s] \in {"established", "pipe"},
                        Upstream(s) \in open'
                 PROVE  \/ Upstream(s) \in conns'[ident'[s]]
                        \/ \E o \in Operators : opc[o] = "closing" /\ Upstream(s) \in doomed[o]
      BY <1>2 DEF TunnelsTracked, Upstream
    <2>1. CASE s = r
      BY <1>2, <1>3, <2>1 DEF TunnelInv, TunnelsTracked
    <2>2. CASE s # r
      <3>1. HandlerOK(s) /\ pc[s] \in {"established", "pipe"} /\ Upstream(s) \in open
        BY <1>2, <2>2 DEF ProxyInv
      <3>2. ident[s] \in Workloads
        BY <3>1 DEF HandlerOK, Authorized, Dialed
      <3> QED BY <1>2, <2>2, <3>1, <3>2 DEF TunnelInv, TunnelsTracked
    <2> QED BY <2>1, <2>2
  <1> QED BY <1>2, <1>3, <1>4 DEF TunnelInv

\* While only tunnels are served and a workload is revoked by one call, a
\* returned call means that every tunnel of the workload is cut: each open one
\* was tracked when the call collected them, and it closed what it collected.
THEOREM KillSwitchCutsTunnels ==
    ASSUME Methods = {"CONNECT"}, \A o, p \in Operators : o = p
    PROVE  Spec => []RevokeCuts
  <1>1. Init => TunnelInv
    BY DEF Init, TunnelInv, TunnelsTracked
  <1>2. ProxyInv /\ TunnelInv /\ [Next]_vars => TunnelInv'
    <2> SUFFICES ASSUME ProxyInv, TunnelInv, [Next]_vars PROVE TunnelInv'
      OBVIOUS
    <2>1. CASE Serve \/ \E w \in Workloads, a \in Addrs : RegisterWorkload(w, a)
      BY <2>1 DEF TunnelInv, TunnelsTracked, Upstream, Serve, RegisterWorkload, Register,
                  registryVars, handlerVars, adminVars
    <2>2. CASE UNCHANGED vars
      BY <2>2 DEF TunnelInv, TunnelsTracked, Upstream, vars, registryVars, handlerVars,
           adminVars
    <2> QED BY <2>1, <2>2, TunnelAdmin, TunnelHandler DEF Next
  <1>3. ProxyInv /\ TunnelInv => RevokeCuts
    <2> SUFFICES ASSUME ProxyInv, TunnelInv, NEW o \in Operators,
                        opc[o] \in {"returned", "answered"}, NEW r \in Requests,
                        ident[r] = target[o], pc[r] \in {"pipe", "exchange", "body"},
                        Upstream(r) \in open
                 PROVE  FALSE
      BY DEF RevokeCuts
    <2>1. target[o] \in revoked /\ pc[r] = "pipe"
      BY DEF TunnelInv
    <2>2. conns[ident[r]] = {}
      BY <2>1 DEF ProxyInv, RevokedHoldsNothing
    <2>3. \A p \in Operators : opc[p] # "closing"
      OBVIOUS
    <2> QED BY <2>1, <2>2, <2>3 DEF TunnelInv, TunnelsTracked
  <1> QED BY <1>1, <1>2, <1>3, ProxyInvariant, PTL DEF Spec
=============================================================================
