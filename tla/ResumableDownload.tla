-------------------------- MODULE ResumableDownload --------------------------
(***************************************************************************)
(* What a resumable download to a file promises to whoever runs it, and    *)
(* runs it again after a failure or a kill: a chunk is recorded only when  *)
(* its bytes are in the file, what is recorded stays so until a run        *)
(* succeeds, each run takes over all that was recorded, and one that took  *)
(* over chunks in order succeeds only with the file complete.              *)
(* ARCHITECTURE.md, sections 15 and 24.                                    *)
(***************************************************************************)
EXTENDS Naturals

CONSTANT Total         \* number of chunks

VARIABLES stored,      \* chunks whose bytes are in the file
          recorded,    \* chunks that the record beside it names
          begun,       \* chunks that this run took over
          stage        \* "starting" and "running", and then how the run ended

rdVars == <<stored, recorded, begun, stage>>

All == 0 .. Total - 1
Going == stage \in {"starting", "running"}
Prefix(set) == \A c \in set : \A d \in All : d < c => d \in set

RDInit == stored = {} /\ recorded = {} /\ begun = {} /\ stage = "starting"

TakeOver ==
    /\ stage = "starting" /\ stage' = "running"
    /\ begun' = recorded /\ recorded # All
    /\ UNCHANGED <<stored, recorded>>

\* Everything was there already; the record may outlive the run.
NothingLeft ==
    /\ stage = "starting" /\ stage' = "success"
    /\ begun' = recorded /\ recorded = All
    /\ recorded' \in {{}, recorded}
    /\ UNCHANGED stored

Store ==
    /\ stage = "running"
    /\ \E c \in All : stored' = stored \cup {c}
    /\ UNCHANGED <<recorded, begun, stage>>

Record ==
    /\ stage = "running"
    /\ recorded' \in SUBSET stored /\ recorded \subseteq recorded'
    /\ UNCHANGED <<stored, begun, stage>>

Succeed ==
    /\ stage = "running" /\ stage' = "success"
    /\ Prefix(begun) => stored = All
    /\ recorded' = {}
    /\ UNCHANGED <<stored, begun>>

Fail ==
    /\ stage = "running" /\ stage' \in {"failure", "ioError"}
    /\ UNCHANGED <<stored, recorded, begun>>

Die ==
    /\ Going
    /\ stage' = "killed" /\ begun' = {}
    /\ UNCHANGED <<stored, recorded>>

RunAgain ==
    /\ stage \in {"failure", "ioError", "killed"}
    /\ stage' = "starting" /\ begun' = {}
    /\ UNCHANGED <<stored, recorded>>

RDNext ==
    \/ TakeOver \/ NothingLeft \/ Store \/ Record \/ Succeed \/ Fail \/ Die \/ RunAgain

\* A run that starts ends.
RDSpec == RDInit /\ [][RDNext]_rdVars /\ WF_rdVars(NothingLeft \/ Succeed \/ Fail \/ Die)
=============================================================================
