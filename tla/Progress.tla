-------------------------------- MODULE Progress --------------------------------
(***************************************************************************)
(* internal/progress/progress.go and the reporter goroutines of            *)
(* internal/job/runner.go: every transfer of known size has a bar and a    *)
(* goroutine that updates it from an atomic counter, five times a second;  *)
(* the transfer stops the goroutine through a channel, does not wait for   *)
(* it, and prints the bar's summary itself.  Both use the bar without a    *)
(* lock, and all bars write to one standard error.                         *)
(*                                                                         *)
(* Amounts are in units; clocks are choices.                               *)
(***************************************************************************)
EXTENDS Naturals, Sequences

CONSTANTS
    Kinds,      \* the kinds of transfer of each URL, one after the other
    Displays,   \* pairs <<isTTY, verbosity>>, verbosity "normal", "noverbose" or "quiet"
    Outcomes,   \* of a transfer: a subset of "ok", "failed"
    Total,      \* units of an object
    MaxTwice    \* units delivered twice by hedges: a bound of the model

\* "unsized": of unknown size, sequential and without a bar.
Kind == {"file", "stream", "sequential", "unsized"}

ASSUME ProgressAssumption ==
    /\ Kinds \in Seq(SUBSET Kind) /\ Kinds # <<>>
    /\ Displays \subseteq BOOLEAN \X {"normal", "noverbose", "quiet"}
    /\ Outcomes \subseteq {"ok", "failed"}
    /\ Total \in Nat \ {0} /\ MaxTwice \in Nat

VARIABLES
    display,    \* the reporter's isTTY and verbosity
    url,        \* transfer under way
    phase,      \* of the main goroutine: "start", "transfer", "close", "status", "summary", "exit"
    transfer,   \* per URL: kind, units on disk before, units arrived, result
    counter,    \* per URL: progressBytes
    closed,     \* per URL: progressDone is closed
    current,    \* per URL: bar.current
    reporter,   \* per URL: "none", "waiting", "loaded", "updating", "ended"
    loaded,     \* per URL: what the reporter has loaded from the counter
    shown,      \* per URL: the last line printed, its amount and how it is drawn
    summary     \* per URL: the status that the summary reports

transferVars == <<url, transfer, counter>>
barVars == <<current, reporter, loaded, shown, summary>>
progressVars == <<display, phase, closed, transferVars, barVars>>

Urls == 1 .. Len(Kinds)
NoTransfer == [kind |-> "none", before |-> 0, arrived |-> 0, twice |-> 0, result |-> "none"]
NoLine     == [amount |-> 0, drawn |-> "none"]

isTTY == display[1]
quiet == display[2] = "quiet"

ProgressInit ==
    /\ display \in Displays
    /\ url = 1 /\ phase = "start"
    /\ transfer = [u \in Urls |-> NoTransfer]
    /\ counter = [u \in Urls |-> 0]
    /\ closed = [u \in Urls |-> FALSE]
    /\ current = [u \in Urls |-> 0]
    /\ reporter = [u \in Urls |-> "none"]
    /\ loaded = [u \in Urls |-> 0]
    /\ shown = [u \in Urls |-> NoLine]
    /\ summary = [u \in Urls |-> "none"]

ProgressTypeOK ==
    /\ display \in Displays /\ url \in Urls
    /\ phase \in {"start", "transfer", "close", "status", "summary", "exit"}
    /\ transfer \in [Urls -> [kind : Kind \cup {"none"}, before : 0 .. Total - 1,
                              arrived : 0 .. Total, twice : 0 .. MaxTwice,
                              result : {"none", "ok", "failed"}]]
    /\ counter \in [Urls -> 0 .. Total + MaxTwice]
    /\ closed \in [Urls -> BOOLEAN]
    /\ current \in [Urls -> 0 .. Total + MaxTwice]
    /\ reporter \in [Urls -> {"none", "waiting", "loaded", "updating", "ended"}]
    /\ loaded \in [Urls -> 0 .. Total + MaxTwice]
    /\ shown \in [Urls -> [amount : 0 .. Total + MaxTwice,
                           drawn : {"none", "live", "line", "summary"}]]
    /\ summary \in [Urls -> {"none", "complete", "interrupted"}]

-----------------------------------------------------------------------------
(* The transfer *)

\* A resumed transfer starts with units on disk and a counter of zero.
Start(kind, before) ==
    /\ phase = "start" /\ kind \in Kinds[url]
    /\ kind \in {"stream", "unsized"} => before = 0
    /\ transfer' = [transfer EXCEPT ![url].kind = kind, ![url].before = before]
    /\ reporter' = [reporter EXCEPT ![url] = IF kind = "unsized" THEN "none" ELSE "waiting"]
    /\ phase' = "transfer"
    /\ UNCHANGED <<display, url, counter, closed, current, loaded, shown, summary>>

\* What an unsized transfer still has to receive shows nowhere.
Missing(u) == IF transfer[u].kind = "unsized" THEN 0
              ELSE Total - transfer[u].before - transfer[u].arrived

\* MUTANT: units are counted when they are requested.
ReceiveOrNot ==
    /\ phase = "transfer" /\ Missing(url) > 0
    /\ counter[url] < Total
    /\ \E n \in 0 .. 1 : transfer' = [transfer EXCEPT ![url].arrived = @ + n]
    /\ counter' = [counter EXCEPT ![url] = @ + 1]
    /\ UNCHANGED <<display, url, phase, closed, barVars>>

Receive ==
    /\ phase = "transfer" /\ Missing(url) > 0
    /\ transfer' = [transfer EXCEPT ![url].arrived = @ + 1]
    /\ counter' = [counter EXCEPT ![url] = @ + 1]
    /\ UNCHANGED <<display, url, phase, closed, barVars>>

\* A hedge and its original both deliver a chunk, and both count it.
ReceiveTwice ==
    /\ phase = "transfer" /\ transfer[url].kind = "stream"
    /\ transfer[url].twice < MaxTwice /\ transfer[url].twice < transfer[url].arrived
    /\ transfer' = [transfer EXCEPT ![url].twice = @ + 1]
    /\ counter' = [counter EXCEPT ![url] = @ + 1]
    /\ UNCHANGED <<display, url, phase, closed, barVars>>

\* On to the next URL: Run goes on after a failure, except with -O.
Next(u) == IF u < Len(Kinds) THEN url' = u + 1 /\ phase' = "start"
                          ELSE url' = u /\ phase' = "exit"

\* The workers have ended, or io.Copy has.  downloadSequential returns on an error
\* without stopping its reporter.
TransferEnds(result) ==
    /\ phase = "transfer"
    /\ result = "ok" => Missing(url) = 0
    /\ transfer' = [transfer EXCEPT ![url].result = result]
    /\ IF transfer[url].kind = "unsized" \/ (result = "failed" /\ transfer[url].kind = "sequential")
         THEN Next(url)
         ELSE phase' = "close" /\ UNCHANGED url
    /\ UNCHANGED <<display, counter, closed, barVars>>

CloseProgressDone ==
    /\ phase = "close"
    /\ closed' = [closed EXCEPT ![url] = TRUE]
    /\ phase' = "status"
    /\ UNCHANGED <<display, transferVars, barVars>>

-----------------------------------------------------------------------------
(* ProgressBar.Done, in the main goroutine *)

Draw(u, drawn, amount) == shown' = [shown EXCEPT ![u] = [amount |-> amount, drawn |-> drawn]]

\* completionStatus, then on a terminal a last render; "current" is what the reporter
\* stored last.
DoneStatus ==
    /\ phase = "status" /\ ~quiet
    /\ summary' = [summary EXCEPT ![url] =
                     IF current[url] >= Total THEN "complete" ELSE "interrupted"]
    /\ IF isTTY THEN Draw(url, "live", current[url]) ELSE UNCHANGED shown
    /\ phase' = "summary"
    /\ UNCHANGED <<display, closed, transferVars, current, reporter, loaded>>

\* "current" is read again.
DonePrints ==
    /\ phase = "summary"
    /\ Draw(url, "summary", current[url])
    /\ Next(url)
    /\ UNCHANGED <<display, closed, transfer, counter, current, reporter, loaded, summary>>

DoneQuiet ==
    /\ phase = "status" /\ quiet
    /\ Next(url)
    /\ UNCHANGED <<display, closed, transfer, counter, barVars>>

-----------------------------------------------------------------------------
(* The reporter goroutine: Update(progressBytes.Load()) on every tick *)

\* With both channels ready, select takes either.
Tick(u) ==
    /\ phase # "exit" /\ reporter[u] = "waiting"
    /\ loaded' = [loaded EXCEPT ![u] = counter[u]]
    /\ reporter' = [reporter EXCEPT ![u] = "loaded"]
    /\ UNCHANGED <<display, phase, closed, transferVars, current, shown, summary>>

\* Within 200 ms of the last line, an incomplete bar is not drawn.
Store(u) ==
    /\ phase # "exit" /\ reporter[u] = "loaded"
    /\ current' = [current EXCEPT ![u] = loaded[u]]
    /\ loaded' = [loaded EXCEPT ![u] = 0]
    /\ \/ reporter' = [reporter EXCEPT ![u] = "updating"]
       \/ loaded[u] < Total /\ reporter' = [reporter EXCEPT ![u] = "waiting"]
    /\ UNCHANGED <<display, phase, closed, transferVars, shown, summary>>

\* render: a live bar on a terminal; elsewhere a line every three seconds, and none when
\* complete.
Render(u) ==
    /\ phase # "exit" /\ reporter[u] = "updating"
    /\ reporter' = [reporter EXCEPT ![u] = "waiting"]
    /\ \/ ~quiet /\ isTTY /\ Draw(u, "live", current[u])
       \/ ~quiet /\ ~isTTY /\ current[u] < Total /\ Draw(u, "line", current[u])
       \/ (quiet \/ ~isTTY) /\ UNCHANGED shown
    /\ UNCHANGED <<display, phase, closed, transferVars, current, loaded, summary>>

\* MUTANT: the reporter stops only when the bar is full.
SeeClosedFull(u) ==
    /\ phase # "exit" /\ reporter[u] = "waiting" /\ closed[u] /\ current[u] >= Total
    /\ reporter' = [reporter EXCEPT ![u] = "ended"]
    /\ UNCHANGED <<display, phase, closed, transferVars, current, loaded, shown, summary>>

SeeClosed(u) ==
    /\ phase # "exit" /\ reporter[u] = "waiting" /\ closed[u]
    /\ reporter' = [reporter EXCEPT ![u] = "ended"]
    /\ UNCHANGED <<display, phase, closed, transferVars, current, loaded, shown, summary>>

Reporter(u) == Tick(u) \/ Store(u) \/ Render(u) \/ SeeClosed(u)

Main ==
    \/ \E kind \in Kind, before \in 0 .. Total - 1 : Start(kind, before)
    \/ Receive \/ ReceiveTwice
    \/ \E result \in Outcomes : TransferEnds(result)
    \/ CloseProgressDone \/ DoneStatus \/ DonePrints \/ DoneQuiet

Exited == phase = "exit" /\ UNCHANGED progressVars

ProgressNext == Main \/ (\E u \in Urls : Reporter(u)) \/ Exited

\* Goroutines run; a select with a ready channel does not pass it over forever.  A
\* transfer need not end.
ProgressFairness ==
    \A u \in Urls : WF_progressVars(Store(u) \/ Render(u)) /\ SF_progressVars(SeeClosed(u))

ProgressSpec == ProgressInit /\ [][ProgressNext]_progressVars /\ ProgressFairness

-----------------------------------------------------------------------------
(* Properties *)

\* No bar says "complete" of a transfer that is not: every unit has arrived in this
\* transfer, whatever the summary reads while the reporter still stores (runner.go:391).
\* Streams with hedges count units twice, so they are not covered.
CompleteIsTrue ==
    \A u \in Urls : summary[u] = "complete" /\ transfer[u].twice = 0 =>
        transfer[u].arrived = Total

\* A reporter whose transfer has stopped it ends, unless the process does.
ReportersEnd == \A u \in Urls : closed[u] ~> (reporter[u] = "ended" \/ phase = "exit")

-----------------------------------------------------------------------------
(* What the documents say and the code does not do *)

\* progress.go:145: "Done marks the progress as complete and prints the final summary".
SuccessIsComplete ==
    \A u \in Urls : transfer[u].result = "ok" /\ summary[u] # "none" =>
        summary[u] = "complete"

\* Nothing of a bar follows its final summary.
Summarized(u) == summary[u] # "none" /\ ~(u = url /\ phase = "summary")
SummaryIsFinal ==
    [][\A u \in Urls : Summarized(u) => shown'[u] = shown[u]]_progressVars

\* ARCHITECTURE.md, 12: "One progress reporter".  Those of earlier transfers have been
\* told to end.
OneReporter ==
    \A u \in Urls : u < url /\ reporter[u] \in {"waiting", "loaded", "updating"} => closed[u]

\* DESIGN.md, 17: "-nv: ... without a live progress display".
NoVerboseIsNotLive ==
    display[2] = "noverbose" => \A u \in Urls : shown[u].drawn # "live"

\* A transfer that failed is not reported as complete.
FailureIsNotComplete ==
    \A u \in Urls : transfer[u].result = "failed" => summary[u] # "complete"
=============================================================================
