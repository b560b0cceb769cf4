----------------------------- MODULE MCWeather -----------------------------
(***************************************************************************)
(* Instances of Weather for TLC: the buffer takes three pieces of the       *)
(* largest legal size and a rest, as 14096 bytes do with pieces of 4096.     *)
(***************************************************************************)
EXTENDS Weather

(* Up to five pieces, legal ones and one that is too big.                   *)
Splits == {<<1>>, <<2>>, <<3>>, <<1, 1>>, <<2, 1>>, <<1, 3>>, <<2, 2, 2>>,
           <<2, 2, 2, 1>>, <<2, 2, 2, 2>>}

MCAnswers == [pieces: Splits, days: {0, 1, 2, 3}, kind: {"ok"}]
               \cup [pieces: {<<1>>, <<2>>}, days: {0, 1}, kind: Kinds]
=============================================================================
