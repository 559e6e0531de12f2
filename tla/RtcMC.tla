-------------------------------- MODULE RtcMC --------------------------------
(* Moments just before a carry of the clock.                               *)
EXTENDS Rtc

At(y, m, d, sec) == [date |-> [year |-> y, month |-> m, day |-> d], sec |-> sec]

BootMoments ==
  { At(24, 2, 28, 18 * Hour - 1),         \* Dhaka enters a leap day
    At(23, 12, 31, 20 * Hour - 1),        \* the hour goes from 19 to 20
    At(24, 2, 29, Day - 2),               \* the leap day ends
    At(25, 9, 29, 10 * Hour - 1),         \* the hour goes from 09 to 10
    At(25, 9, 30, 6 * Hour - 5) }         \* noon in Dhaka

Pauses == {35, 4 * Hour + 1, Day - 1, Day}
=============================================================================
