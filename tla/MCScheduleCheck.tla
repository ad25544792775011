-------------------------- MODULE MCScheduleCheck ---------------------------
(* ScheduleCheck for TLC: which items are typed.                           *)
EXTENDS ScheduleCheck

Digit == 0 .. 9
OneDigit == {<<d>> : d \in Digit}
TwoDigits == Digit \X Digit
Hundreds == {<<1, 0, 0>>, <<2, 4, 0>>, <<3, 0, 5>>}

(* Numbers around the bounds of the fields.                                *)
Bounds == {<<0>>, <<1>>, <<2>>, <<5>>, <<6>>, <<1, 2>>, <<2, 3>>, <<3, 1>>, <<5, 9>>}
Few == {<<0>>, <<2>>, <<5>>, <<1, 2>>, <<6, 0>>}

Plainly(numbers) == {Item(FALSE, n, None, None) : n \in numbers}
Ranges(numbers) == {Item(FALSE, m, n, None) : m, n \in numbers}
Stepped(numbers) == {Item(FALSE, m, n, e) : m, n, e \in numbers}
StarStepped(numbers) == {Item(TRUE, None, None, e) : e \in numbers}
NumberStepped(numbers) == {Item(FALSE, n, None, e) : n, e \in numbers}

AllSingles ==
  {Star} \cup Plainly(OneDigit \cup TwoDigits \cup Hundreds)
         \cup Ranges(Bounds) \cup Stepped(Bounds) \cup StarStepped(Bounds) \cup NumberStepped(Few)

AllListed == {Star} \cup Plainly(Few) \cup Ranges(Few) \cup StarStepped(Few)
=============================================================================
