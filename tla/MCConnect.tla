----------------------------- MODULE MCConnect -----------------------------
(***************************************************************************)
(* Instances of Connect: one connection per configuration below.           *)
(***************************************************************************)
EXTENDS Connect

\* The connector against a server with NLA: everything the connector always
\* announces, two channels of which the server knows the second.
Modern ==
    [offer |-> {"ssl", "hybrid", "hybrid_ex"}, security |-> {"hybrid", "hybrid_ex"},
     names |-> <<"rdpdr", "drdynvc">>, has |-> {"drdynvc"},
     want |-> <<9, 4>>, own |-> <<5, 5>>, cap |-> {<<6, 6>>},
     early |-> {"skip", "netchar", "layout", "errinfo"}, message |-> TRUE,
     flags |-> {"fecr", "soft_sync"}, tunnel |-> TRUE, probe |-> FALSE,
     check |-> "acceptor", good |-> TRUE, eager |-> FALSE, late |-> FALSE,
     sync |-> FALSE, extra |-> << >>, stall |-> "never",
     cookie |-> "none", follows |-> TRUE]

\* A client that answers the tunnel request in its own time and types early.
Eager == [Modern EXCEPT !.late = TRUE, !.eager = TRUE, !.offer = {"ssl"},
                        !.security = {"ssl"}, !.check = "validator"]

\* An older client: TLS, no message channel, joins one by one, one channel
\* twice and one that does not exist.
Older == [Modern EXCEPT !.offer = {"ssl"}, !.security = {"ssl"},
              !.early = {}, !.message = FALSE, !.flags = {},
              !.eager = TRUE, !.extra = <<3, 9>>, !.cap = {},
              !.names = <<"drdynvc">>, !.check = "none"]

\* The connect-time probe, on the message channel.
Probed == [Modern EXCEPT !.probe = TRUE, !.flags = {"fecr"},
              !.offer = {"hybrid"}, !.names = << >>, !.want = <<1, 9>>]

\* Standard RDP Security on both sides.
Bare == [Older EXCEPT !.offer = {}, !.security = {}, !.extra = << >>]

\* A client that comes back with its cookie and no credentials, to a desktop
\* whose size is fixed.
Back == [Older EXCEPT !.good = FALSE, !.check = "validator", !.extra = << >>,
             !.cookie = "fresh", !.cap = {<<6, 6>>}, !.follows = FALSE]

\* The wrong credentials, however they are checked and whatever cookie comes
\* with them; nothing in common; and the clients that stop responding.
Turned ==
    {[Modern EXCEPT !.good = FALSE, !.cookie = "fresh"],
     [Eager EXCEPT !.good = FALSE, !.cookie = "stale"],
     [Modern EXCEPT !.good = FALSE, !.offer = {"hybrid"}],
     [Back EXCEPT !.check = "acceptor"], [Back EXCEPT !.cookie = "none"],
     [Back EXCEPT !.offer = {}, !.security = {}],
     [Bare EXCEPT !.security = {"ssl"}],
     [Bare EXCEPT !.offer = {"ssl"}],
     [Modern EXCEPT !.stall = "tunnel"], [Modern EXCEPT !.stall = "resize"]}

MCConfigs ==
    {Modern, Eager, Older, Probed, [Probed EXCEPT !.sync = TRUE], Bare,
     Back, [Older EXCEPT !.follows = FALSE, !.extra = << >>]}
        \cup Turned

MCResizes == <<<<4, 6>>>>

=============================================================================
