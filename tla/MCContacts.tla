----------------------------- MODULE MCContacts -----------------------------
(* A contact with the ground, one with a crate that may leave and come     *)
(* back, and one between two fixed objects.                                *)
EXTENDS Contacts

CONSTANTS robot, ground, crate, feet, hands, crates

MCLoaded == <<robot, ground, crate>>
MCRobotsOf == [p \in Pair |-> CASE p = feet -> {robot, ground}
                                [] p = hands -> {robot, crate}
                                [] OTHER -> {ground, crate}]
=============================================================================
