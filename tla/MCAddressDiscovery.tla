------------------------- MODULE MCAddressDiscovery -------------------------
(* Instances of AddressDiscovery: an address without transactions, with one  *)
(* old one, or with two more in the newest stored slot.                      *)
EXTENDS AddressDiscovery

CONSTANTS safe, vault

MCHistories == [{safe} -> {{}, {1}, {1, 3, 4}}]
MCTwo == {[x \in Addrs |-> IF x = safe THEN {1, 3} ELSE {1}]}
=============================================================================
