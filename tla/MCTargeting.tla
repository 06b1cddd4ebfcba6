---------------------------- MODULE MCTargeting ----------------------------
(***************************************************************************)
(* A directory for TLC in which every rule of matchTarget competes with a  *)
(* later one: a slug that is another host's name, a slug with the prefix,  *)
(* a name that is another host's ip, an address with a scheme, a host      *)
(* without any address, and one that discovery found and nobody promoted.  *)
(***************************************************************************)
EXTENDS Targeting

Host(slug, name, ip, address) ==
    [slug |-> slug, name |-> name, ip |-> ip, address |-> address,
     kind |-> "host", managed |-> "unset", sources |-> {}]

MCResources ==
    { Host("web", "db", "ip1", None),
      Host("host_web", "web", None, "ssh://web"),
      [Host("db", "ip1", None, None) EXCEPT !.managed = "yes", !.sources = {"scan"}],
      [Host("vm", "web", "ip2", "web") EXCEPT !.sources = {"scan"}],
      [Host("nas", "nas", "ip2", None) EXCEPT !.sources = {"scan", "manual"}] }

MCTargets == {"web", "db", "ip1", "ip2", "host_web"}
MCIPs == {"ip1", "ip2"}
MCPrefixed == [t \in MCTargets |-> IF t = "web" THEN "host_web" ELSE None]
MCHostname == [a \in {"ssh://web", "web"} |-> "web"]

=============================================================================
