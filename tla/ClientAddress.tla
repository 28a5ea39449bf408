--------------------------- MODULE ClientAddress ---------------------------
(***************************************************************************)
(* client_ip: the address a request is counted under. Proxies append to    *)
(* X-Forwarded-For the address of the connection they accepted; what comes *)
(* before that is what the client typed. A header is the sequence of hops  *)
(* the code makes of it: split at the commas, stripped, no blank ones.     *)
(***************************************************************************)
EXTENDS Integers, Sequences

CONSTANTS
    Address,    \* addresses a connection can come from
    Unknown     \* "unknown": the label client_ip falls back to

ASSUME UnknownAssumption == Unknown \notin Address

\* A proxy, or a client, may write a word where an address is expected.
Hop == Address \cup {Unknown}

\* The transport has no peer to name, over a Unix socket for one.
NoPeer == Unknown

\* Mutant: the hops are counted from the left.
ClientIpFromLeft(trusted, header, peer) ==
    IF trusted > 0 /\ Len(header) >= trusted THEN header[trusted] ELSE peer

\* The trusted-th hop from the right, or the peer.
ClientIp(trusted, header, peer) ==
    IF trusted > 0 /\ Len(header) >= trusted
    THEN header[Len(header) - trusted + 1]
    ELSE IF peer # NoPeer THEN peer ELSE Unknown

\* What reaches the app when the client typed some hops and the proxies it
\* passed, outermost first, observed the others.
Forwarded(typed, observed) == typed \o observed

\* The address that the trusted-th server from the inside saw for itself.
Seen(trusted, observed, peer) ==
    IF trusted > 0 THEN observed[Len(observed) - trusted + 1] ELSE peer
=============================================================================
