-------------------------- MODULE HttpAdapterProofs --------------------------
(***************************************************************************)
(* What a range request that succeeds has brought, for any number of       *)
(* requests, any servers, and however often the object is replaced.        *)
(*                                                                         *)
(* AcceptedInv is the inductive invariant: Probe's result is there before  *)
(* the first range request starts and stays as it is, and an answer that   *)
(* a range request accepted was for that range, from the probed version    *)
(* where If-Range is honoured.  ReadersAreSafe needs nothing but the types *)
(* of the connections.                                                     *)
(***************************************************************************)
EXTENDS HttpAdapter, Integers, TLAPS

PhaseNames == {"idle", "dial", "headers", "body", "leaving", "ok", "failed"}
ConnNames  == {"none", "dialing", "open", "freed"}

HttpShape ==
    /\ backend \in {"go", "openssl"}
    /\ conn \in [Requests -> ConnNames]
    /\ phase \in [Requests -> PhaseNames]
    /\ left \in [Requests -> Int]
    /\ got = [r \in Requests |-> got[r]]

TellsVersions == server.ifRange /\ server.distinct

AcceptedInv ==
    /\ HttpShape
    /\ phase[Probe] = "ok" => found.ok
    /\ found.ok => found.validator = Validator(found.version)
    /\ \A r \in Ranges :
        /\ phase[r] # "idle" => phase[Probe] = "ok"
        /\ phase[r] \in {"body", "ok"} =>
            got[r].range = r /\ (TellsVersions => got[r].version = found.version)
        /\ phase[r] = "ok" => left[r] = 0

\* An answer that OpenRange accepts is for its range, and if the server honours If-Range
\* with validators that tell versions apart, from the version that was probed.
LEMMA AcceptedIsProbed ==
    ASSUME NEW r \in Ranges, NEW a \in AnyAnswers(r) \cup GoodAnswers(r), Accepts(r, a),
           found.validator = Validator(found.version)
    PROVE  a.range = r /\ (TellsVersions => version = found.version)
BY HttpAssumption
   DEF Accepts, AnyAnswers, GoodAnswers, GoodStatuses, Says, IfRangeHolds, Validator, TellsVersions

\* Nothing is accepted before the first request.
LEMMA AcceptedInit == HttpInit => AcceptedInv /\ ReadersAreSafe
BY HttpAssumption, ConnAssumption
   DEF HttpInit, ConnInit, AcceptedInv, HttpShape, PhaseNames, ConnNames, NoResult, ReadersAreSafe,
       Requests

\* Connections and requests keep their types.
LEMMA ShapeStep == ASSUME HttpShape, [HttpNext]_httpVars PROVE HttpShape'
<1> USE HttpAssumption DEF HttpShape, PhaseNames, ConnNames, Becomes, Goto, Unmoved
<1>1. ASSUME NEW r \in Requests, Own(r) PROVE HttpShape'
  BY <1>1 DEF Own, Start, BeginDial, Sent, WriteReturns, ReadBody, BeginRead, FinishBody, CloseQuiet,
     EndBody, ReadAfterClose, AbandonDial, AbandonHeaders, AbandonBody, CallClose, Closes,
     CloseReturns, connVars, requestVars
<1>2. ASSUME NEW r \in Requests, Timers(r) PROVE HttpShape'
  BY <1>2 DEF Timers, TimesOut, ConnectTimesOut, ConnectFails, DialFails, connVars, requestVars
<1>3. ASSUME NEW r \in Requests, NEW a \in AnyAnswers(r) \cup GoodAnswers(r), Answered(r, a)
      PROVE  HttpShape'
  BY <1>3 DEF Answered, ReadReturns, ReadReturnsAndCloses
<1>4. ASSUME NEW r \in Requests,
             Connected(r) \/ ConnectFails(r) \/ Redirected(r) \/ BodyArrives(r) \/ BreaksOff(r)
                \/ LateAnswer(r)
      PROVE  HttpShape'
  BY <1>4 DEF Connected, DialSucceeds, ConnectFails, DialFails, Redirected, BodyArrives, BreaksOff,
     EndBody, LateAnswer, ReadReturns, ReadReturnsAndCloses, requestVars
<1>5. CASE Cancel \/ Replace \/ Quiescent \/ UNCHANGED httpVars
  BY <1>5 DEF Cancel, Replace, Quiescent, httpVars, connVars, requestVars
<1> QED BY <1>1, <1>2, <1>3, <1>4, <1>5 DEF HttpNext, Peer

\* Probe's result does not change once it is there.
LEMMA FoundStays ==
    ASSUME HttpShape, [HttpNext]_httpVars, phase[Probe] = "ok"
    PROVE  phase'[Probe] = "ok" /\ found' = found
<1>0. Probe \in Requests
  BY DEF Requests
<1> USE <1>0 DEF HttpShape, Goto, Unmoved, requestVars
<1>1. ASSUME NEW r \in Requests, Own(r) PROVE phase'[Probe] = "ok" /\ found' = found
  BY <1>1 DEF Own, Start, Sent, ReadBody, FinishBody, EndBody, ReadAfterClose, AbandonDial,
     AbandonHeaders, AbandonBody, Closes
<1>2. ASSUME NEW r \in Requests, Timers(r) PROVE phase'[Probe] = "ok" /\ found' = found
  BY <1>2 DEF Timers, TimesOut, ConnectTimesOut, ConnectFails
<1>3. ASSUME NEW r \in Requests, Peer(r) PROVE phase'[Probe] = "ok" /\ found' = found
  BY <1>3 DEF Peer, Connected, ConnectFails, Answered, Redirected, BodyArrives, BreaksOff, EndBody,
     LateAnswer
<1>4. CASE Cancel \/ Replace \/ Quiescent \/ UNCHANGED httpVars
  BY <1>4 DEF Cancel, Replace, Quiescent, httpVars
<1> QED BY <1>1, <1>2, <1>3, <1>4 DEF HttpNext

\* What Probe keeps describes one version.
LEMMA ProbeStep ==
    ASSUME AcceptedInv, [HttpNext]_httpVars
    PROVE  /\ phase'[Probe] = "ok" => found'.ok
           /\ (found.ok => found.validator = Validator(found.version))'
           /\ server' = server
<1>0. Probe \in Requests
  BY DEF Requests
<1> USE <1>0 DEF AcceptedInv, HttpShape, Goto, Unmoved, requestVars, Validator
<1> DEFINE Kept == /\ phase'[Probe] = "ok" => found'.ok
                   /\ (found.ok => found.validator = Validator(found.version))'
                   /\ server' = server
<1>1. ASSUME NEW r \in Requests, Own(r) PROVE Kept
  BY <1>1 DEF Own, Start, Sent, ReadBody, FinishBody, EndBody, ReadAfterClose, AbandonDial,
     AbandonHeaders, AbandonBody, Closes
<1>2. ASSUME NEW r \in Requests, Timers(r) PROVE Kept
  BY <1>2 DEF Timers, TimesOut, ConnectTimesOut, ConnectFails
<1>3. ASSUME NEW r \in Requests, NEW a \in AnyAnswers(r) \cup GoodAnswers(r), Answered(r, a)
      PROVE  Kept
  BY <1>3 DEF Answered, ProbeFinds
<1>4. ASSUME NEW r \in Requests,
             Connected(r) \/ ConnectFails(r) \/ Redirected(r) \/ BodyArrives(r) \/ BreaksOff(r)
                \/ LateAnswer(r)
      PROVE  Kept
  BY <1>4 DEF Connected, ConnectFails, Redirected, BodyArrives, BreaksOff, EndBody, LateAnswer
<1>5. CASE Cancel \/ Replace \/ Quiescent \/ UNCHANGED httpVars
  BY <1>5 DEF Cancel, Replace, Quiescent, httpVars
<1> QED BY <1>1, <1>2, <1>3, <1>4, <1>5 DEF HttpNext, Peer

\* The clauses of AcceptedInv about one range request.
RangeInv(r) ==
    /\ phase[r] # "idle" => phase[Probe] = "ok"
    /\ phase[r] \in {"body", "ok"} =>
        got[r].range = r /\ (TellsVersions => got[r].version = found.version)
    /\ phase[r] = "ok" => left[r] = 0

\* Whatever happens, a range request keeps what it was accepted as.
LEMMA RangeStep ==
    ASSUME AcceptedInv, [HttpNext]_httpVars, NEW r \in Ranges
    PROVE  RangeInv(r)'
<1> USE HttpAssumption DEF HttpShape, Goto, Unmoved, requestVars, RangeInv, Requests, Probe,
        TellsVersions
<1>0. /\ HttpShape /\ RangeInv(r) /\ r \in Requests /\ r # Probe
      /\ server' = server /\ (phase[Probe] = "ok" => phase'[Probe] = "ok" /\ found' = found)
  BY FoundStays, ProbeStep DEF AcceptedInv
<1>1. ASSUME NEW q \in Requests, Own(q) PROVE RangeInv(r)'
  BY <1>0, <1>1 DEF Own, Start, MayStart, Sent, ReadBody, FinishBody, EndBody, ReadAfterClose,
     AbandonDial, AbandonHeaders, AbandonBody, Closes
<1>2. ASSUME NEW q \in Requests, Timers(q) PROVE RangeInv(r)'
  BY <1>0, <1>2 DEF Timers, TimesOut, ConnectTimesOut, ConnectFails
<1>3. ASSUME NEW q \in Requests, NEW a \in AnyAnswers(q) \cup GoodAnswers(q), Answered(q, a)
      PROVE  RangeInv(r)'
  <2>1. CASE q # r
    <3>0. /\ \E to : phase' = [phase EXCEPT ![q] = to]
          /\ got' = got \/ \E g : got' = [got EXCEPT ![q] = g]
          /\ left' = left \/ \E n : left' = [left EXCEPT ![q] = n]
      BY <1>3 DEF Answered
    <3>1. phase'[r] = phase[r] /\ got'[r] = got[r] /\ left'[r] = left[r]
      <4>1. r \in Requests /\ DOMAIN phase = Requests /\ DOMAIN got = Requests /\ DOMAIN left = Requests
        BY <1>0
      <4>2. \A f, g, x : r \in DOMAIN f /\ q # r /\ g = [f EXCEPT ![q] = x] => g[r] = f[r]
        OBVIOUS
      <4> QED BY <2>1, <3>0, <4>1, <4>2, Zenon
    <3>2. CASE phase[Probe] = "ok"
      BY <1>0, <3>1, <3>2
    <3>3. CASE phase[Probe] # "ok"
      BY <1>0, <3>1, <3>3
    <3> QED BY <3>2, <3>3
  <2>2. CASE q = r /\ Accepts(r, a)
    <3>1. phase[r] = "headers" /\ phase[Probe] = "ok"
      BY <1>0, <1>3, <2>2 DEF Answered
    <3>2. a.range = r /\ (TellsVersions => version = found.version)
      BY <1>3, <2>2, <3>1, AcceptedIsProbed DEF AcceptedInv
    <3>3. /\ phase' = [phase EXCEPT ![r] = "body"]
          /\ got' = [got EXCEPT ![r] = [range |-> a.range, version |-> version]]
          /\ found' = found
      BY <1>0, <1>3, <2>2 DEF Answered
    <3> QED BY <1>0, <3>1, <3>2, <3>3
  <2>3. CASE q = r /\ ~Accepts(r, a)
    BY <1>0, <1>3, <2>3 DEF Answered
  <2> QED BY <2>1, <2>2, <2>3
<1>4. ASSUME NEW q \in Requests,
             Connected(q) \/ ConnectFails(q) \/ Redirected(q) \/ BodyArrives(q) \/ BreaksOff(q)
                \/ LateAnswer(q)
      PROVE  RangeInv(r)'
  BY <1>0, <1>4 DEF Connected, ConnectFails, Redirected, BodyArrives, BreaksOff, EndBody, LateAnswer
<1>5. CASE Cancel \/ Replace \/ Quiescent \/ UNCHANGED httpVars
  BY <1>0, <1>5 DEF Cancel, Replace, Quiescent, httpVars
<1> QED BY <1>1, <1>2, <1>3, <1>4, <1>5 DEF HttpNext, Peer

\* Close frees a connection only when nobody reads from it.
LEMMA ReadersStep ==
    ASSUME HttpShape, ReadersAreSafe, [HttpNext]_httpVars
    PROVE  ReadersAreSafe'
<1> USE HttpAssumption DEF HttpShape, ConnNames, Becomes, ReadersAreSafe
<1>0. Conns = Requests
  BY HttpAssumption
<1>1. ASSUME NEW r \in Requests, Own(r) PROVE ReadersAreSafe'
  <2>1. CASE Start(r) \/ Sent(r) \/ ReadBody(r) \/ AbandonHeaders(r) \/ AbandonBody(r)
    BY <1>0, <2>1 DEF Start, BeginDial, Sent, WriteReturns, ReadBody, BeginRead, AbandonHeaders,
       AbandonBody, CallClose
  <2>2. CASE FinishBody(r) \/ ReadAfterClose(r) \/ AbandonDial(r)
    <3>1. CASE FinishBody(r)
      <4>1. r \notin reading /\ conn' = [conn EXCEPT ![r] = "freed"] /\ reading' = reading
        BY <3>1 DEF FinishBody, CloseQuiet
      <4> QED BY <1>0, <4>1
    <3>2. CASE ReadAfterClose(r) \/ AbandonDial(r)
      <4>1. conn' = conn /\ reading' = reading
        BY <3>2, Zenon DEF ReadAfterClose, AbandonDial, connVars
      <4> QED BY <4>1
    <3> QED BY <2>2, <3>1, <3>2
  <2>3. CASE Closes(r)
    BY <1>0, <2>3 DEF Closes, CloseReturns
  <2> QED BY <1>1, <2>1, <2>2, <2>3 DEF Own
<1>2. ASSUME NEW r \in Requests, Timers(r) \/ Peer(r) PROVE ReadersAreSafe'
  <2>1. CASE Timers(r) \/ Connected(r) \/ ConnectFails(r)
    BY <1>0, <2>1 DEF Timers, TimesOut, ConnectTimesOut, Connected, DialSucceeds, ConnectFails,
       DialFails, connVars
  <2>2. CASE ReadReturns(r) \/ ReadReturnsAndCloses(r)
    BY <1>0, <2>2 DEF ReadReturns, ReadReturnsAndCloses
  <2>3. CASE Redirected(r)
    <3>1. reading' = reading \ {r} /\ \E s : conn' = [conn EXCEPT ![r] = s]
      BY <2>3 DEF Redirected
    <3> QED BY <1>0, <3>1
  <2>4. CASE BodyArrives(r) \/ BreaksOff(r) \/ LateAnswer(r) \/ \E a : Answered(r, a)
    BY <2>2, <2>4 DEF BodyArrives, BreaksOff, LateAnswer, Answered
  <2> QED BY <1>2, <2>1, <2>3, <2>4 DEF Peer
<1>3. CASE Cancel \/ Replace \/ Quiescent \/ UNCHANGED httpVars
  BY <1>3 DEF Cancel, Replace, Quiescent, httpVars, connVars
<1> QED BY <1>1, <1>2, <1>3 DEF HttpNext

-----------------------------------------------------------------------------
(* Theorems *)

\* The inductive invariant holds: every accepted answer is the one that was asked for, and no
\* connection is freed under its reader.
THEOREM AnswersAreAccepted == HttpSpec => [](AcceptedInv /\ ReadersAreSafe)
<1>1. AcceptedInv /\ ReadersAreSafe /\ [HttpNext]_httpVars => (AcceptedInv /\ ReadersAreSafe)'
  <2> SUFFICES ASSUME AcceptedInv, ReadersAreSafe, [HttpNext]_httpVars
               PROVE  AcceptedInv' /\ ReadersAreSafe'
    OBVIOUS
  <2>1. HttpShape' /\ ReadersAreSafe'
    BY ShapeStep, ReadersStep DEF AcceptedInv
  <2>2. \A r \in Ranges : RangeInv(r)'
    BY RangeStep
  <2> QED BY <2>1, <2>2, ProbeStep DEF AcceptedInv, RangeInv
<1> QED BY <1>1, AcceptedInit, PTL DEF HttpSpec

\* A range request that succeeds has delivered the bytes asked for, to the last.
THEOREM DeliveredRangesAreExact == HttpSpec => []RangesAreExact
<1>1. AcceptedInv => RangesAreExact
  BY DEF AcceptedInv, RangesAreExact
<1> QED BY <1>1, AnswersAreAccepted, PTL

\* All ranges of a job come from the version that Probe saw, where If-Range is honoured and
\* validators tell versions apart.
THEOREM RangesAreOfOneVersion == HttpSpec => []OneVersion
<1>1. AcceptedInv => OneVersion
  BY DEF AcceptedInv, TellsVersions, OneVersion
<1> QED BY <1>1, AnswersAreAccepted, PTL

\* The memory of a connection is never freed while a goroutine is inside SSL_read on it.
THEOREM NoReadAfterFree == HttpSpec => []ReadersAreSafe
<1> QED BY AnswersAreAccepted, PTL
=============================================================================
