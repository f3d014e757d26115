-------------------------------- MODULE MCGen --------------------------------
(* Instances of Gen for TLC. *)
EXTENDS Gen

\* Hours that fit, that fit the word but not the calendar, that wrap around
\* to a date (9 * 2 = 2 modulo 16), and those of the negative numbers.
SomeHours == {0, 1, 9}
SomeContent == {NoneText, Junk, Absent, 1, 6, -1, -7}

\* .0, .5 and .51: the last two differ by one digit that the first lacks.
SomeFractions == << <<>>, <<5>>, <<5, 1>> >>
=============================================================================
