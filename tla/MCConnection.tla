---------------------------- MODULE MCConnection ----------------------------
(* Connection for TLC: a thread of a pool and a user with an HTTPConnection   *)
(* of its own, under settings that between them ask for everything.           *)
EXTENDS Connection, TLC

CONSTANTS pooled, direct, s1, s2, s3, s4

Plain == [ https |-> FALSE, tunnel |-> FALSE, cert_reqs |-> "unset",
           fingerprint |-> FALSE, hostname |-> TRUE, shared |-> FALSE, files |-> FALSE ]
Tls      == [Plain EXCEPT !.https = TRUE]
Tunnelled(s) == [s EXCEPT !.tunnel = TRUE]
Mode(m)  == [Tls EXCEPT !.cert_reqs = m]
Pinned   == [Tls EXCEPT !.fingerprint = TRUE, !.files = TRUE]
NoName   == [Tls EXCEPT !.hostname = FALSE]
Sharing  == [Tls EXCEPT !.shared = TRUE]
SharingPinned == [Sharing EXCEPT !.fingerprint = TRUE]

InPool(p, d, t) == [settings |-> pooled :> p @@ direct :> d, given |-> t]

Limits213 == NewTimeout(2, 1, 3)
TotalOnly == NewTimeout(NoLimit, Default, 2)
NoTimeout == FromFloat(Default)

SomeScenarios ==
  { InPool(Plain, Tunnelled(Mode("unknown")), Limits213),
    InPool(Mode("OPTIONAL"), Pinned, TotalOnly),
    InPool(NoName, Mode("NONE"), Limits213),
    InPool(Sharing, SharingPinned, TotalOnly),
    InPool(SharingPinned, Tunnelled(Sharing), Limits213),
    InPool(Plain, Plain, NoTimeout) }

OneScenario == {InPool(Plain, Plain, NoTimeout)}
=============================================================================
