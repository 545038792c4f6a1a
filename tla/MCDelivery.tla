----------------------------- MODULE MCDelivery -----------------------------
(* Instances of Delivery for TLC, with the rewriting of the sender.        *)
EXTENDS Forwarding

(* SMTP with zero, one or two source IPs of each version, every IP mode    *)
(* and preference, with and without a pool and a fixed destination.        *)
SMTPConfigs ==
    {c \in ConfigType : c.protocol = "smtp" /\ (c.ipMode # "dual" => ~c.preferIPv6)}

(* LMTP, to a fixed destination or through MX lookup. The source IPs and   *)
(* the pool are there and must not be used.                                *)
LMTPConfigs ==
    {c \in ConfigType : c.protocol = "lmtp" /\ c.n4 > 0 /\ c.n6 > 0 /\ ~c.preferIPv6 /\ c.pool}

AllConfigs == SMTPConfigs \cup LMTPConfigs

(* SMTP in the configuration the example file ships.                       *)
DefaultConfig ==
    {[protocol |-> "smtp", fixed |-> FALSE, ipMode |-> "dual", preferIPv6 |-> TRUE,
      n4 |-> 2, n6 |-> 1, pool |-> TRUE]}

(* Servers that answer success codes other than the expected one only      *)
(* where the code copes with them: see StandardReplies.                    *)
StandardCmdReplies ==
    [smtp |-> {"ok", "other2xx", "4xx", "5xx", "other"}, lmtp |-> {"ok", "4xx", "5xx", "other"}]

StandardFinalReplies ==
    [smtp |-> {"ok", "4xx", "5xx"}, lmtp |-> {"ok", "other2xx", "4xx", "5xx"}]

(* Servers that may end any message with any success code.                 *)
AnyFinalReplies == [p \in Protocols |-> {"ok", "other2xx", "4xx", "5xx"}]

TwoSRSDomains == << << <<"word", "srs1">> >>, << <<"word", "srs2">> >> >>
=============================================================================
