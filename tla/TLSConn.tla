-------------------------------- MODULE TLSConn --------------------------------
(***************************************************************************)
(* internal/adapter/http/openssl: the connections under the requests.      *)
(* With the build tag openssl, an https connection is a Conn around a      *)
(* blocking SSL object: readMu is held through SSL_read, writeMu through   *)
(* SSL_write, and Close takes readMu before it frees the object.  Without  *)
(* the tag, and for http, it is a connection of Go, whose Close interrupts *)
(* whoever reads or writes.                                                *)
(***************************************************************************)
EXTENDS Naturals, FiniteSets

CONSTANTS
    Conns,      \* one connection per request: reuse is left out
    Backends    \* "go", "openssl": the builds considered

ASSUME ConnAssumption == Backends \subseteq {"go", "openssl"}

VARIABLES
    backend,
    conn,       \* "none", "dialing", "open", "freed"
    reading,    \* a goroutine is inside SSL_read, holding readMu
    writing,    \* a goroutine is inside SSL_write, holding writeMu
    closing     \* a goroutine is inside Close, before it has readMu

connVars == <<backend, conn, reading, writing, closing>>

ConnTypeOK ==
    /\ backend \in Backends
    /\ conn \in [Conns -> {"none", "dialing", "open", "freed"}]
    /\ reading \subseteq Conns /\ writing \subseteq Conns /\ closing \subseteq Conns

ConnInit ==
    /\ backend \in Backends
    /\ conn = [k \in Conns |-> "none"]
    /\ reading = {} /\ writing = {} /\ closing = {}

Becomes(k, s) == conn' = [conn EXCEPT ![k] = s]

BeginDial(k) ==
    /\ Becomes(k, "dialing")
    /\ UNCHANGED <<backend, reading, writing, closing>>

\* Dial: TCP, handshake.  The transport starts to read and to write at once.
DialSucceeds(k) ==
    /\ conn[k] = "dialing"
    /\ Becomes(k, "open")
    /\ reading' = reading \cup {k} /\ writing' = writing \cup {k}
    /\ UNCHANGED <<backend, closing>>

\* What was made of the connection is freed again.
DialFails(k) ==
    /\ conn[k] = "dialing"
    /\ Becomes(k, "none")
    /\ UNCHANGED <<backend, reading, writing, closing>>

\* Read and Write on a connection that is still there; the next ones fail.
BeginRead(k) ==
    /\ conn[k] = "open" /\ k \notin reading
    /\ reading' = reading \cup {k}
    /\ UNCHANGED <<backend, conn, writing, closing>>

ReadReturns(k) ==
    /\ k \in reading
    /\ reading' = reading \ {k}
    /\ UNCHANGED <<backend, conn, writing, closing>>

WriteReturns(k) ==
    /\ k \in writing
    /\ writing' = writing \ {k}
    /\ UNCHANGED <<backend, conn, reading, closing>>

CallClose(k) ==
    /\ closing' = closing \cup {k}
    /\ UNCHANGED <<backend, conn, reading, writing>>

\* MUTANT: Close does not take readMu.
CloseReturnsUnlocked(k) ==
    /\ k \in closing
    /\ Becomes(k, "freed")
    /\ closing' = closing \ {k}
    /\ UNCHANGED <<backend, reading, writing>>

\* Close: OpenSSL waits for SSL_read to return, and for no SSL_write.
CloseReturns(k) ==
    /\ k \in closing
    /\ backend = "openssl" => k \notin reading
    /\ Becomes(k, "freed")
    /\ closing' = closing \ {k}
    /\ IF backend = "go"
         THEN reading' = reading \ {k} /\ writing' = writing \ {k}
         ELSE UNCHANGED <<reading, writing>>
    /\ UNCHANGED backend

\* The goroutine whose read has returned closes the connection itself.
ReadReturnsAndCloses(k) ==
    /\ k \in reading
    /\ Becomes(k, "freed")
    /\ reading' = reading \ {k} /\ closing' = closing \ {k}
    /\ writing' = IF backend = "go" THEN writing \ {k} ELSE writing
    /\ UNCHANGED backend

\* A connection nobody reads is closed.
CloseQuiet(k) ==
    /\ k \notin reading
    /\ Becomes(k, "freed")
    /\ closing' = closing \ {k}
    /\ writing' = IF backend = "go" THEN writing \ {k} ELSE writing
    /\ UNCHANGED <<backend, reading>>

\* SSL_free never runs under a reader.
ReadersAreSafe == \A k \in Conns : conn[k] = "freed" => k \notin reading

\* The comment on readMu and writeMu: they guard SSL_read and SSL_write.  But Close
\* takes only the first.
WritersAreSafe == \A k \in Conns : conn[k] = "freed" => k \notin writing
=============================================================================
