------------------------------ MODULE HttpAdapter ------------------------------
(***************************************************************************)
(* internal/adapter/http/adapter.go: Probe, then OpenRange requests or one *)
(* OpenSequential request of a job, over TLSConn, to a server that answers *)
(* when and as it likes, and that may replace the object meanwhile.        *)
(*                                                                         *)
(* phase[r] is where the goroutine that makes request r is:                *)
(*   dial      waits for a connection                                      *)
(*   headers   inside client.Do, while the transport writes and reads      *)
(*   body      reads the body                                              *)
(*   leaving   closes the connection because the request is over           *)
(*   ok, failed                                                            *)
(* Headers other than those of ranges and validators, and the reuse of     *)
(* connections, are left out.                                              *)
(***************************************************************************)
EXTENDS TLSConn

CONSTANTS
    Ranges,        \* the OpenRange requests of the job, one chunk each
    Servers,       \* the servers considered
    LimitSets,     \* which of --timeout and --connect-timeout are set
    MaxVersion,    \* versions of the object: a bound of the model
    MaxRedirects,  \* 20 in the code
    BodyReads      \* reads that a chunk or an object takes: a bound of the model

Probe == "probe"
Sequential == "sequential"
Requests == {Probe, Sequential} \cup Ranges

\* A server: whether it does ranges and If-Range, its kind of validator, and whether
\* the validators of two versions differ.
Server == [ranges : BOOLEAN, ifRange : BOOLEAN,
           validator : {"etag", "date", "none"}, distinct : BOOLEAN]

ASSUME HttpAssumption ==
    /\ Conns = Requests
    /\ Ranges \cap {Probe, Sequential, "other"} = {}   \* names of their own
    /\ Servers \subseteq Server
    /\ LimitSets \subseteq SUBSET {"timeout", "connect"}
    /\ MaxVersion \in Nat \ {0} /\ MaxRedirects \in Nat \ {0} /\ BodyReads \in Nat \ {0}

VARIABLES
    server, limits,
    version,    \* of the object, now
    phase, hops,
    left,       \* reads until the end of the body
    got,        \* what an answer was accepted as: [range, version]
    found,      \* Probe's result
    expired,    \* requests for which client.Timeout has passed
    cancelled   \* the root context is done

requestVars == <<phase, hops, left, got, found>>
httpVars == <<server, limits, version, requestVars, expired, cancelled, connVars>>

Nothing == [range |-> "none", version |-> 0]
NoResult == [ok |-> FALSE, capable |-> FALSE, sized |-> FALSE, validator |-> <<>>, version |-> 0]
Pending(r) == phase[r] \in {"dial", "headers", "body", "leaving"}
Ended(r)   == phase[r] \in {"ok", "failed"}

HttpInit ==
    /\ ConnInit
    /\ server \in Servers /\ limits \in LimitSets
    /\ version = 1
    /\ phase = [r \in Requests |-> "idle"]
    /\ hops = [r \in Requests |-> 0]
    /\ left = [r \in Requests |-> 0]
    /\ got = [r \in Requests |-> Nothing]
    /\ found = NoResult
    /\ expired = {} /\ cancelled = FALSE

Goto(r, p) == phase' = [phase EXCEPT ![r] = p]
Unmoved == UNCHANGED <<server, limits, version, expired, cancelled>>

-----------------------------------------------------------------------------
(* What the server may answer *)

\* The validator of a version, as ETag or Last-Modified shows it.
Validator(v) == <<server.validator, IF server.distinct THEN v ELSE 1>>

Says(status, range, sized, exact) ==
    [status |-> status, range |-> range, sized |-> sized, exact |-> exact]

\* Errors, and odd answers to a range request: another range, or a body of
\* another length.
AnyAnswers(r) ==
    {Says("error", r, TRUE, TRUE)}
        \cup (IF server.ranges
                THEN {Says("partial", "other", TRUE, TRUE), Says("partial", r, TRUE, FALSE)}
                ELSE {})

\* If-Range: the range only if the object is still the one with this validator.
IfRangeHolds(r) ==
    r \in Ranges /\ server.ifRange => found.validator = Validator(version)
\* OpenSequential asks for a range only from an offset above 0, and says no If-Range.
GoodStatuses(r) ==
    (IF server.ranges /\ IfRangeHolds(r) THEN {"partial"} ELSE {"whole"})
        \cup (IF r = Sequential THEN {"whole"} ELSE {})
GoodAnswers(r) == {Says(status, r, sized, TRUE) : status \in GoodStatuses(r), sized \in BOOLEAN}

\* MUTANT: the status is not looked at.
AcceptsAnyStatus(r, a) == a.status \in {"whole", "partial"} /\ a.range = r /\ a.exact

\* MUTANT: the Content-Range of the answer is not compared.
AcceptsAnyRange(r, a) == a.status = "partial" /\ a.exact

\* OpenRange: 206, the very range, its length.  The total and the validator of the
\* answer are not looked at.  OpenSequential: 200 or 206.
Accepts(r, a) ==
    IF r \in Ranges
      THEN a.status = "partial" /\ a.range = r /\ a.exact
      ELSE a.status \in {"whole", "partial"}

\* Probe: ranges with a known total and a usable validator.
ProbeFinds(a) ==
    [ok        |-> a.status # "error",
     capable   |-> a.status = "partial" /\ a.sized /\ server.validator # "none",
     sized     |-> a.sized,
     validator |-> Validator(version),
     version   |-> version]

-----------------------------------------------------------------------------
(* A request *)

\* Probe comes first.  A job then makes range requests, if the server can, or one
\* sequential request: also where it can, for NoParallel, one connection, or -c.
MayStart(r) ==
    \/ r = Probe
    \/ /\ phase[Probe] = "ok"
       /\ IF r \in Ranges
            THEN found.capable /\ phase[Sequential] = "idle"
            ELSE \A q \in Ranges : phase[q] = "idle"

Start(r) ==
    /\ phase[r] = "idle" /\ ~cancelled /\ MayStart(r)
    /\ Goto(r, "dial") /\ BeginDial(r)
    /\ Unmoved /\ UNCHANGED <<hops, left, got, found>>

Connected(r) ==
    /\ phase[r] = "dial"
    /\ DialSucceeds(r)
    /\ Goto(r, "headers")
    /\ Unmoved /\ UNCHANGED <<hops, left, got, found>>

ConnectFails(r) ==
    /\ phase[r] = "dial"
    /\ DialFails(r)
    /\ Goto(r, "failed")
    /\ Unmoved /\ UNCHANGED <<hops, left, got, found>>

\* The dialer's timeout; Dial of OpenSSL takes none.
ConnectTimesOut(r) ==
    /\ "connect" \in limits /\ backend = "go"
    /\ ConnectFails(r)

Sent(r) ==
    /\ WriteReturns(r)
    /\ Unmoved /\ UNCHANGED requestVars

\* Probe keeps what it has learned, then reads the whole body and ignores how that ends.
Answered(r, a) ==
    /\ phase[r] = "headers"
    /\ found' = IF r = Probe THEN ProbeFinds(a) ELSE found
    /\ IF r = Probe \/ Accepts(r, a)
         THEN /\ ReadReturns(r)
              /\ Goto(r, "body")
              /\ got' = [got EXCEPT ![r] = [range |-> a.range, version |-> version]]
              /\ left' = [left EXCEPT ![r] =
                            IF r = Probe /\ a.status = "partial" THEN 1 ELSE BodyReads]
         ELSE /\ ReadReturnsAndCloses(r)
              /\ Goto(r, "failed")
              /\ UNCHANGED <<got, left>>
    /\ hops' = [hops EXCEPT ![r] = 0]
    /\ Unmoved

\* CheckRedirect: followed on another connection, with the same Range.
Redirected(r) ==
    /\ phase[r] = "headers" /\ r \in reading
    /\ IF hops[r] + 1 < MaxRedirects
         THEN Goto(r, "dial") /\ Becomes(r, "dialing")
         ELSE Goto(r, "failed") /\ Becomes(r, "freed")
    /\ hops' = [hops EXCEPT ![r] = @ + 1]
    /\ reading' = reading \ {r} /\ writing' = writing \ {r} /\ closing' = closing \ {r}
    /\ Unmoved /\ UNCHANGED <<backend, left, got, found>>

\* The end of a body, or of the attempt to read it: only Probe does not mind.
EndBody(r, complete) ==
    Goto(r, IF r = Probe THEN IF found.ok THEN "ok" ELSE "failed"
            ELSE IF complete THEN "ok" ELSE "failed")

ReadBody(r) ==
    /\ phase[r] = "body" /\ left[r] > 0
    /\ BeginRead(r)
    /\ Unmoved /\ UNCHANGED requestVars

BodyArrives(r) ==
    /\ phase[r] = "body"
    /\ ReadReturns(r)
    /\ left' = [left EXCEPT ![r] = @ - 1]
    /\ Unmoved /\ UNCHANGED <<phase, hops, got, found>>

FinishBody(r) ==
    /\ phase[r] = "body" /\ left[r] = 0
    /\ CloseQuiet(r)
    /\ EndBody(r, TRUE)
    /\ Unmoved /\ UNCHANGED <<hops, left, got, found>>

ReadAfterClose(r) ==
    /\ phase[r] = "body" /\ left[r] > 0 /\ conn[r] = "freed" /\ r \notin reading
    /\ EndBody(r, FALSE)
    /\ Unmoved /\ UNCHANGED <<hops, left, got, found, connVars>>

\* The peer closes or resets the connection.
BreaksOff(r) ==
    /\ phase[r] \in {"headers", "body"}
    /\ ReadReturnsAndCloses(r)
    /\ IF phase[r] = "body" THEN EndBody(r, FALSE) ELSE Goto(r, "failed")
    /\ Unmoved /\ UNCHANGED <<hops, left, got, found>>

-----------------------------------------------------------------------------
(* Timers and cancellation *)

\* The context of a request: the root context, and client.Timeout.  readTimeout is a
\* parameter of New that New does not use.
Over(r) == cancelled \/ r \in expired

Cancel ==
    /\ ~cancelled /\ cancelled' = TRUE
    /\ UNCHANGED <<server, limits, version, requestVars, expired, connVars>>

\* MUTANT: client.Timeout is not set.
TimesOutNever(r) == FALSE /\ r \in Requests /\ UNCHANGED httpVars

TimesOut(r) ==
    /\ "timeout" \in limits /\ Pending(r) /\ r \notin expired
    /\ expired' = expired \cup {r}
    /\ UNCHANGED <<server, limits, version, requestVars, cancelled, connVars>>

\* The transport stops waiting for a dial; the dial goes on by itself.
AbandonDial(r) ==
    /\ phase[r] = "dial" /\ Over(r)
    /\ Goto(r, "failed")
    /\ Unmoved /\ UNCHANGED <<hops, left, got, found, connVars>>

\* client.Do closes the connection and then returns.
AbandonHeaders(r) ==
    /\ phase[r] = "headers" /\ Over(r)
    /\ CallClose(r) /\ Goto(r, "leaving")
    /\ Unmoved /\ UNCHANGED <<hops, left, got, found>>

\* A goroutine of the transport closes it, while the caller reads the body.
AbandonBody(r) ==
    /\ phase[r] = "body" /\ Over(r) /\ conn[r] = "open" /\ r \notin closing
    /\ CallClose(r)
    /\ Unmoved /\ UNCHANGED requestVars

Closes(r) ==
    /\ CloseReturns(r)
    /\ IF phase[r] = "leaving" THEN Goto(r, "failed") ELSE UNCHANGED phase
    /\ Unmoved /\ UNCHANGED <<hops, left, got, found>>

\* What the peer sends to a request that is over is read and dropped.
LateAnswer(r) ==
    /\ phase[r] = "leaving"
    /\ ReadReturns(r)
    /\ Unmoved /\ UNCHANGED requestVars

Replace ==
    /\ version < MaxVersion
    /\ version' = version + 1
    /\ UNCHANGED <<server, limits, requestVars, expired, cancelled, connVars>>

-----------------------------------------------------------------------------

\* The steps of the goroutines of pget, and of its timers ...
Own(r) ==
    \/ Start(r) \/ Sent(r)
    \/ ReadBody(r) \/ FinishBody(r) \/ ReadAfterClose(r)
    \/ AbandonDial(r) \/ AbandonHeaders(r) \/ AbandonBody(r) \/ Closes(r)
Timers(r) == TimesOut(r) \/ ConnectTimesOut(r)
\* ... and what the peer does, if it does anything.
Peer(r) ==
    \/ Connected(r) \/ ConnectFails(r)
    \/ \E a \in AnyAnswers(r) \cup GoodAnswers(r) : Answered(r, a)
    \/ Redirected(r)
    \/ BodyArrives(r) \/ BreaksOff(r) \/ LateAnswer(r)

Quiescent == (\A r \in Requests : ~Pending(r)) /\ UNCHANGED httpVars

HttpNext ==
    \/ \E r \in Requests : Own(r) \/ Timers(r) \/ Peer(r)
    \/ Cancel \/ Replace \/ Quiescent

HttpSpec == HttpInit /\ [][HttpNext]_httpVars

\* Nothing is assumed of the peer.
HttpFairness == \A r \in Requests : WF_httpVars(Own(r)) /\ WF_httpVars(Timers(r))
FairHttpSpec == HttpSpec /\ HttpFairness

-----------------------------------------------------------------------------
(* Properties *)

HttpTypeOK ==
    /\ ConnTypeOK
    /\ server \in Servers /\ limits \in LimitSets
    /\ version \in 1 .. MaxVersion
    /\ phase \in [Requests -> {"idle", "dial", "headers", "body", "leaving", "ok", "failed"}]
    /\ hops \in [Requests -> 0 .. MaxRedirects]
    /\ left \in [Requests -> 0 .. BodyReads]
    /\ found.ok \in BOOLEAN /\ found.capable \in BOOLEAN
    /\ expired \subseteq Requests /\ cancelled \in BOOLEAN

\* A range request that succeeds has delivered the bytes asked for, to the last, whatever
\* the server answered and wherever the connection broke.
RangesAreExact ==
    \A r \in Ranges : phase[r] = "ok" => got[r].range = r /\ left[r] = 0

\* All ranges of a job come from the version that was probed, however often the object is
\* replaced in between, on a server that honours If-Range and whose validators tell
\* versions apart.
OneVersion ==
    server.ifRange /\ server.distinct =>
        \A r \in Ranges : phase[r] = "ok" => got[r].version = found.version

\* A request that is cancelled, or that has a --timeout, ends even if the server never
\* says another word; over OpenSSL only if reads return.
RequestEnds(r) ==
    backend = "go" \/ []<>(r \notin reading) =>
        (Pending(r) /\ (cancelled \/ "timeout" \in limits) ~> Ended(r))
RequestsAreBounded == \A r \in Requests : RequestEnds(r)

-----------------------------------------------------------------------------
(* What the documents say and the code does not do *)

\* ARCHITECTURE.md, 20: on SIGINT or SIGTERM, "Cancel active network operations."
InterruptEndsRequests == \A r \in Requests : Pending(r) /\ cancelled ~> Ended(r)

\* ARCHITECTURE.md, 8.3: "Accept a chunk only when [...] Validator remains compatible".
ValidatorIsCompatible ==
    \A r \in Ranges :
        server.distinct /\ phase[r] = "ok" => got[r].version = found.version

\* DESIGN.md, 7: --connect-timeout bounds the time to connect.
ConnectIsBounded ==
    \A r \in Requests : "connect" \in limits /\ phase[r] = "dial" ~> phase[r] # "dial"
=============================================================================
