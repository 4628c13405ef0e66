--------------------------- MODULE MCSourceIndexer ---------------------------
(***************************************************************************)
(* Instances of SourceIndexer for TLC: five videos, the numbers 1 to 5,    *)
(* published in that order, two of them on the same day.                   *)
(***************************************************************************)
EXTENDS SourceIndexer

FiveVideos == 1 .. 5

Days == <<1, 2, 3, 3, 4>>

Rising == <<1, 2, 3, 4>>

OrderedPlaylists == {Rising, Reverse(Rising), <<3, 4>>, <<5>>, <<>>}

Limits(faults, edits, redetections) ==
  [faults |-> faults, edits |-> edits, redetections |-> redetections]

OrderedBudget == Limits(2, 2, 1)
==============================================================================
