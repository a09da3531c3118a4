---------------------------- MODULE BookingApiMC ----------------------------
(* Instances of BookingApi small enough for TLC.                           *)
EXTENDS BookingApi, TLC

\* Clients are interchangeable, and so are payloads.
ApiSymmetry == Permutations(Clients) \union Permutations(Payloads)

=============================================================================
