----------------------------- MODULE MCIngress ------------------------------
(* Two gateways, with IPv4 addresses and an address without a type before  *)
(* or after the first; a cluster on the shared gateway, and one on its own *)
(* gateway, with other zones and without the default ingress provider.     *)
EXTENDS Ingress

CONSTANTS shared, tenant, ip1, ip2, v6, untyped, url, zone1, zone2, web, mail

Cluster(parent, ingress, zones) == [parent |-> parent, ingress |-> ingress, zones |-> zones]

MCClusters == {Cluster(None, TRUE, zone1), Cluster(tenant, FALSE, zone2)}

MCAddresses == {<<v6, untyped>>, <<v6, ip1, untyped, ip2>>}

MCGateways == {shared, tenant}

MCIPs == {ip1, ip2}

MCURLs == {url}

OneService == {web}

TwoServices == {web, mail}
=============================================================================
