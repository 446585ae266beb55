---------------------------- MODULE ProgressProofs ----------------------------
(***************************************************************************)
(* A bar never says "complete" of a transfer that is not, for any number   *)
(* of URLs and any amounts, although two goroutines store and read its     *)
(* current amount without a lock: what is stored was the counter's value   *)
(* at some earlier moment, and the counter does not go back.               *)
(***************************************************************************)
EXTENDS Progress, Integers, TLAPS

Transfer == [kind : Kind \cup {"none"}, before : Nat, arrived : Nat, twice : Nat,
             result : {"none", "ok", "failed"}]

CountTypeOK ==
    /\ url \in Urls
    /\ transfer \in [Urls -> Transfer]
    /\ counter \in [Urls -> Nat] /\ current \in [Urls -> Nat] /\ loaded \in [Urls -> Nat]
    /\ summary \in [Urls -> {"none", "complete", "interrupted"}]

\* Only the transfers before this one have a summary, and this one at its end.
Summaries ==
    /\ phase \in {"close", "status", "summary"} => transfer[url].kind # "unsized"
    /\ \A u \in Urls :
        summary[u] # "none" => u < url \/ (u = url /\ phase \in {"summary", "exit"})

Counted(u) ==
    /\ counter[u] = transfer[u].arrived + transfer[u].twice
    /\ loaded[u] <= counter[u] /\ current[u] <= counter[u]
    /\ transfer[u].arrived <= Total
    /\ summary[u] = "complete" => transfer[u].kind # "unsized" /\ counter[u] >= Total

CountInv == CountTypeOK /\ Summaries /\ \A u \in Urls : Counted(u)

\* Nothing is counted at the start.
LEMMA CountInit == ProgressInit => CountInv
<1>1. 1 \in Urls
  BY ProgressAssumption DEF Urls
<1> QED
  BY <1>1, ProgressAssumption
     DEF ProgressInit, CountInv, CountTypeOK, Summaries, Counted, Transfer, NoTransfer, Kind

\* URLs are consecutive numbers.
LEMMA UrlsAreNumbers == Urls \subseteq Nat /\ \A u \in Urls : u < Len(Kinds) => u + 1 \in Urls
BY ProgressAssumption DEF Urls

\* A step that leaves transfers and summaries alone, and the counter with them.
LEMMA ReporterKeeps ==
    ASSUME CountInv, NEW u \in Urls, Reporter(u)
    PROVE  CountInv'
<1>1. UNCHANGED <<url, phase, transfer, counter, summary>>
  BY DEF Reporter, Tick, Store, Render, SeeClosed, transferVars
<1>2. \/ loaded' = [loaded EXCEPT ![u] = counter[u]] /\ current' = current
      \/ loaded' = [loaded EXCEPT ![u] = 0] /\ current' = [current EXCEPT ![u] = loaded[u]]
      \/ loaded' = loaded /\ current' = current
  BY DEF Reporter, Tick, Store, Render, SeeClosed
<1>3. CountTypeOK'
  BY <1>1, <1>2 DEF CountInv, CountTypeOK
<1>4. \A v \in Urls : Counted(v)'
  BY <1>1, <1>2 DEF CountInv, CountTypeOK, Counted
<1> QED BY <1>1, <1>3, <1>4 DEF CountInv, Summaries

\* Every step of the transfer, the bar or a reporter keeps the counts.
LEMMA CountStep == ASSUME CountInv, [ProgressNext]_progressVars PROVE CountInv'
<1> USE DEF transferVars, barVars
<1>0. CountTypeOK /\ Summaries /\ (\A u \in Urls : Counted(u)) /\ Total \in Nat
  BY ProgressAssumption DEF CountInv
<1>1. ASSUME NEW kind \in Kind, NEW before \in 0 .. Total - 1, Start(kind, before) PROVE CountInv'
  <2>1. /\ UNCHANGED <<url, counter, current, loaded, summary>>
        /\ phase = "start" /\ phase' = "transfer"
        /\ transfer' = [transfer EXCEPT ![url] =
                          [transfer[url] EXCEPT !.kind = kind, !.before = before]]
    BY <1>1 DEF Start
  <2>2. before \in Nat
    BY <1>0
  <2> DEFINE t == [transfer[url] EXCEPT !.kind = kind, !.before = before]
  <2>5. transfer[url] \in Transfer
    BY <1>0 DEF CountTypeOK
  <2>6. t \in Transfer
    BY <2>2, <2>5 DEF Transfer
  <2>3. CountTypeOK'
    <3> HIDE DEF t
    <3>1. transfer' = [transfer EXCEPT ![url] = t]
      BY <2>1 DEF t
    <3> QED BY <1>0, <2>1, <2>6, <3>1 DEF CountTypeOK
  <2>4. summary[url] = "none" /\ Summaries'
    BY <1>0, <2>1, UrlsAreNumbers DEF Summaries, CountTypeOK
  <2> QED BY <1>0, <2>1, <2>3, <2>4 DEF CountInv, Counted, CountTypeOK, Transfer
<1>2. ASSUME NEW t \in Transfer,
             \/ t = [transfer[url] EXCEPT !.arrived = @ + 1] /\ t.arrived <= Total
             \/ t = [transfer[url] EXCEPT !.twice = @ + 1],
             transfer' = [transfer EXCEPT ![url] = t],
             counter' = [counter EXCEPT ![url] = @ + 1],
             UNCHANGED <<url, phase, current, loaded, summary>>
      PROVE  CountInv'
  <2>1. transfer[url] \in Transfer /\ counter[url] \in Nat
    BY <1>0 DEF CountTypeOK
  <2>2. /\ t.kind = transfer[url].kind /\ t.arrived <= Total
        /\ t.arrived + t.twice = transfer[url].arrived + transfer[url].twice + 1
    <3>1. /\ transfer[url].arrived \in Nat /\ transfer[url].twice \in Nat
          /\ transfer[url].arrived <= Total
      BY <1>0, <2>1 DEF Counted, CountTypeOK, Transfer
    <3> DEFINE old == transfer[url]
    <3>2. old \in Transfer
      BY <2>1
    <3> HIDE DEF old
    <3>3. CASE t = [old EXCEPT !.arrived = @ + 1] /\ t.arrived <= Total
      <4>1. t.kind = old.kind /\ t.arrived = old.arrived + 1 /\ t.twice = old.twice
        BY <3>2, <3>3 DEF Transfer
      <4> QED BY <3>1, <3>3, <4>1 DEF old
    <3>4. CASE t = [old EXCEPT !.twice = @ + 1]
      <4>1. t.kind = old.kind /\ t.arrived = old.arrived /\ t.twice = old.twice + 1
        BY <3>2, <3>4 DEF Transfer
      <4> QED BY <3>1, <4>1 DEF old
    <3> QED BY <1>2, <3>3, <3>4 DEF old
  <2>3. CountTypeOK'
    BY <1>0, <1>2 DEF CountTypeOK
  <2>4. Summaries'
    BY <1>0, <1>2, <2>2 DEF Summaries, CountTypeOK
  <2>5. ASSUME NEW u \in Urls PROVE Counted(u)'
    BY <1>0, <1>2, <2>2 DEF Counted, CountTypeOK
  <2> QED BY <2>3, <2>4, <2>5 DEF CountInv
<1>3. CASE Receive
  <2>1. transfer[url] \in Transfer
    BY <1>0 DEF CountTypeOK
  <2> DEFINE t == [transfer[url] EXCEPT !.arrived = @ + 1]
  <2>2. t \in Transfer /\ t.arrived <= Total
    BY <1>0, <1>3, <2>1 DEF Receive, Missing, Transfer, Counted
  <2>3. transfer' = [transfer EXCEPT ![url] = t]
    BY <1>3 DEF Receive
  <2> QED BY <1>2, <1>3, <2>2, <2>3 DEF Receive
<1>4. CASE ReceiveTwice
  <2>1. transfer[url] \in Transfer
    BY <1>0 DEF CountTypeOK
  <2> DEFINE t == [transfer[url] EXCEPT !.twice = @ + 1]
  <2>2. t \in Transfer
    BY <2>1 DEF Transfer
  <2>3. transfer' = [transfer EXCEPT ![url] = t]
    BY <1>4 DEF ReceiveTwice
  <2> QED BY <1>2, <1>4, <2>2, <2>3 DEF ReceiveTwice
<1>5. ASSUME NEW result \in Outcomes, TransferEnds(result) PROVE CountInv'
  <2>1. transfer[url] \in Transfer /\ result \in {"ok", "failed"}
    BY <1>0, ProgressAssumption DEF CountTypeOK
  <2> DEFINE t == [transfer[url] EXCEPT !.result = result]
  <2>2. /\ t \in Transfer /\ t.kind = transfer[url].kind
        /\ t.arrived = transfer[url].arrived /\ t.twice = transfer[url].twice
    BY <2>1 DEF Transfer
  <2>3. /\ UNCHANGED <<counter, current, loaded, summary>> /\ phase = "transfer"
        /\ transfer' = [transfer EXCEPT ![url] = t]
        /\ \/ Next(url)
           \/ phase' = "close" /\ url' = url /\ transfer[url].kind # "unsized"
    BY <1>5 DEF TransferEnds
  <2> HIDE DEF t
  <2>4. CountTypeOK'
    BY <1>0, <2>2, <2>3, UrlsAreNumbers DEF CountTypeOK, Next
  <2>5. Summaries'
    BY <1>0, <2>2, <2>3, UrlsAreNumbers DEF Summaries, CountTypeOK, Next
  <2>6. ASSUME NEW u \in Urls PROVE Counted(u)'
    BY <1>0, <2>2, <2>3 DEF Counted, CountTypeOK
  <2> QED BY <2>4, <2>5, <2>6 DEF CountInv
<1>6. CASE CloseProgressDone
  <2>1. UNCHANGED <<url, transfer, counter, current, loaded, summary>>
        /\ phase = "close" /\ phase' = "status"
    BY <1>6 DEF CloseProgressDone
  <2> QED BY <1>0, <2>1 DEF CountInv, CountTypeOK, Summaries, Counted
<1>7. CASE DoneStatus
  <2>1. /\ UNCHANGED <<url, transfer, counter, current, loaded>>
        /\ phase = "status" /\ phase' = "summary"
        /\ summary' = [summary EXCEPT ![url] =
                          IF current[url] >= Total THEN "complete" ELSE "interrupted"]
    BY <1>7 DEF DoneStatus
  <2> QED BY <1>0, <2>1 DEF CountInv, CountTypeOK, Summaries, Counted
<1>8. CASE DonePrints \/ DoneQuiet
  <2>1. UNCHANGED <<transfer, counter, current, loaded, summary>> /\ Next(url)
        /\ phase \in {"status", "summary"}
    BY <1>8 DEF DonePrints, DoneQuiet
  <2>2. CountTypeOK'
    BY <1>0, <2>1, UrlsAreNumbers DEF CountTypeOK, Next
  <2>3. Summaries'
    BY <1>0, <2>1, UrlsAreNumbers DEF CountTypeOK, Summaries, Next
  <2> QED BY <1>0, <2>1, <2>2, <2>3 DEF CountInv, Counted
<1>9. CASE Exited \/ UNCHANGED progressVars
  <2>1. UNCHANGED <<url, phase, transfer, counter, current, loaded, summary>>
    BY <1>9 DEF Exited, progressVars
  <2> QED BY <2>1 DEF CountInv, CountTypeOK, Summaries, Counted
<1> QED BY ReporterKeeps, <1>1, <1>3, <1>4, <1>5, <1>6, <1>7, <1>8, <1>9 DEF ProgressNext, Main

\* The inductive invariant holds: the counter is what arrived, and neither the reporter nor
\* the bar is ever ahead of it.
THEOREM CountsAreConsistent == ProgressSpec => []CountInv
<1> QED BY CountInit, CountStep, PTL DEF ProgressSpec

\* "complete" is said only of a transfer whose every unit has arrived.
THEOREM CompleteTellsTheTruth == ProgressSpec => []CompleteIsTrue
<1>1. CountInv => CompleteIsTrue
  <2> SUFFICES ASSUME CountInv, NEW u \in Urls, summary[u] = "complete", transfer[u].twice = 0
               PROVE  transfer[u].arrived = Total
    BY DEF CompleteIsTrue
  <2>1. transfer[u].arrived \in Nat /\ Total \in Nat
    BY ProgressAssumption DEF CountInv, CountTypeOK, Transfer
  <2> QED BY <2>1 DEF CountInv, Counted
<1> QED BY <1>1, CountsAreConsistent, PTL
=============================================================================
