---------------------------- MODULE MCPoolManager ----------------------------
(* PoolManager for TLC: requests for one host on three ports, one of them    *)
(* also in capitals and with its default port written out; one for an        *)
(* unknown scheme and one without a host.                                    *)
EXTENDS PoolManager

CONSTANTS t1, t2

Request(scheme, host, port) == [scheme |-> scheme, host |-> host, port |-> port]

ManyRequests ==
  { Request("http", "a", NoPort), Request("HTTP", "A", 80),
    Request("https", "a", NoPort), Request("http", "a", 8080),
    Request("ftp", "a", NoPort), Request("http", NoHost, NoPort) }

OneOrNoProxy == { NoProxy, Request("http", "p", 3128) }
=============================================================================
