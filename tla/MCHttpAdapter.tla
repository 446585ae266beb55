---------------------------- MODULE MCHttpAdapter ----------------------------
(* Instances of HttpAdapter for TLC. *)
EXTENDS HttpAdapter

OneRange == {"first"}
AllConns == {"probe", "sequential", "first"}

Kind(ranges, ifRange, validator, distinct) ==
    [ranges |-> ranges, ifRange |-> ifRange, validator |-> validator, distinct |-> distinct]
Honest   == Kind(TRUE, TRUE, "etag", TRUE)
\* Two versions within the second that Last-Modified resolves.
Coarse   == Kind(TRUE, TRUE, "date", FALSE)
Careless == Kind(TRUE, FALSE, "etag", TRUE)
Bare     == Kind(TRUE, TRUE, "none", TRUE)
Plain    == Kind(FALSE, FALSE, "etag", TRUE)

AllKinds     == {Honest, Coarse, Careless, Bare, Plain}
OnlyHonest   == {Honest}
OnlyCareless == {Careless}
=============================================================================
