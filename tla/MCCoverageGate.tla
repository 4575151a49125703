--------------------------- MODULE MCCoverageGate ---------------------------
(* Small franchises for CoverageGate: TLC. *)
EXTENDS CoverageGate

Season(number, part, episodes, aired) ==
  [kind |-> "season", season |-> number, part |-> part, episodes |-> episodes, aired |-> aired]
Movie == [kind |-> "movie", season |-> 0, part |-> 0, episodes |-> 1, aired |-> 1]

\* Two seasons and a movie; seasons of which only the number is known; a season in
\* two parts.
TwoSeasons  == <<Season(1, 0, 2, 2), Season(2, 0, 1, 1), Movie>>
NoCounts    == <<Season(1, 0, None, 1), Season(2, 0, None, 1)>>
TwoParts    == <<Season(1, 1, 2, 2), Season(1, 2, 1, 1)>>

\* A season the walk has no count for, and a second part that is the longer one.
NoCountYet  == <<Season(1, 0, 1, 1), Season(2, 0, 0, 1)>>
LongerPart  == <<Season(1, 1, 1, 1), Season(1, 2, 2, 2)>>

SomeFranchises == {TwoSeasons, NoCounts, NoCountYet, TwoParts}
OnlyTwoParts   == {TwoParts}
OnlyNoCountYet == {NoCountYet}
OnlyLongerPart == {LongerPart}
=============================================================================
