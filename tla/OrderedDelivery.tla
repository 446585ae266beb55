--------------------------- MODULE OrderedDelivery ---------------------------
(***************************************************************************)
(* What a parallel download to standard output promises its reader: the    *)
(* chunks of the object, each once and in order, and an exit code that     *)
(* says "success" only after the last of them.  ARCHITECTURE.md, section   *)
(* 24, invariants 1 and 2.                                                 *)
(***************************************************************************)
EXTENDS Naturals

CONSTANT Total         \* number of chunks

VARIABLES delivered,   \* chunks 0 .. delivered - 1 are on the output
          verdict      \* "none" until the download ends

odVars == <<delivered, verdict>>

ODInit == delivered = 0 /\ verdict = "none"

DeliverNext ==
    /\ delivered < Total /\ verdict = "none"
    /\ delivered' = delivered + 1
    /\ UNCHANGED verdict

Succeed == delivered = Total /\ verdict = "none" /\ verdict' = "success" /\ UNCHANGED delivered
Fail    == verdict = "none" /\ verdict' \in {"failure", "ioError"} /\ UNCHANGED delivered

ODNext == DeliverNext \/ Succeed \/ Fail

\* A download that starts ends, with either verdict.
ODSpec == ODInit /\ [][ODNext]_odVars /\ WF_odVars(Fail \/ Succeed)
=============================================================================
