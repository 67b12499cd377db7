----------------------------- MODULE UrlSafety -----------------------------
(* is_safe_url (auth/ssrf_protection.py).  A URL is what urlparse makes of  *)
(* it: its scheme and its host in lower case.  A host is absent, an address *)
(* literal (of which it counts whether it is a loopback address, directly   *)
(* or as an IPv4 address mapped into IPv6), or a name, as a sequence of     *)
(* labels.  The decimal and hexadecimal forms of an address and "localhost."*)
(* are names like any other: ip_address takes none of them for an address,  *)
(* and the comparison with "localhost" is exact.                            *)
EXTENDS Integers, Sequences, SequencesExt

CONSTANTS
  ServiceLabels     \* labels that match [a-z][a-z0-9]*(?:-[a-z0-9]+)*

NoHost == [kind |-> "none"]

Address(loopback, mapped) ==
  [kind |-> "ip", loopback |-> loopback, mappedLoopback |-> mapped]

Name(labels) == [kind |-> "name", labels |-> labels]

AnyHost ==
  {NoHost} \cup [kind : {"ip"}, loopback : BOOLEAN, mappedLoopback : BOOLEAN]
  \cup [kind : {"name"}, labels : Seq(STRING)]

Localhost == Name(<<"localhost">>)

Loopback(host) == host.loopback \/ host.mappedLoopback

\* Mutant: any name under .local will do.
InClusterLoose(labels) == IsSuffix(<<"local">>, labels)

InCluster(labels) ==
  Len(labels) > 2 /\ IsSuffix(<<"cluster", "local">>, labels)

\* A name that plain HTTP may go to.
Internal(labels) ==
  IF Len(labels) = 1 THEN labels[1] \in ServiceLabels ELSE InCluster(labels)

\* Mutant: over plain HTTP localhost is tested as a service name first.
IsSafeUrlServiceFirst(url, allowLocalhost) ==
  /\ url.scheme \in {"http", "https"} /\ url.host.kind # "none"
  /\ CASE url.host.kind = "ip" -> allowLocalhost /\ Loopback(url.host)
       [] url.host = Localhost /\ url.scheme = "https" -> allowLocalhost
       [] OTHER -> url.scheme = "https" \/ Internal(url.host.labels)

IsSafeUrl(url, allowLocalhost) ==
  /\ url.scheme \in {"http", "https"} /\ url.host.kind # "none"
  /\ CASE url.host.kind = "ip" -> allowLocalhost /\ Loopback(url.host)
       [] url.host = Localhost -> allowLocalhost
       [] OTHER -> url.scheme = "https" \/ Internal(url.host.labels)
============================================================================
