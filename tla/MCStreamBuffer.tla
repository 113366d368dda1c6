-------------------------- MODULE MCStreamBuffer --------------------------
(* Three bytes of memory at first, and six when they do not suffice.       *)
EXTENDS StreamBuffer
MCTexts == {<<1>>, <<1, 2>>, <<2, 1, 1>>}
MCNumbers == -3..2
===========================================================================
