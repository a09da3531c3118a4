--------------------------- MODULE EventBookingMC ---------------------------
(* Instances of EventBooking small enough for TLC.                         *)
EXTENDS EventBooking, TLC

\* Booking ids and event ids are interchangeable: nothing orders them, and no
\* definition chooses among them.
BookingSymmetry == Permutations(Bookings)
IdSymmetry == Permutations(Bookings) \union Permutations(Events)

=============================================================================
