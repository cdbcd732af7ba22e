---------------------------- MODULE MCOtaConsole ----------------------------
(***************************************************************************)
(* Bounds for OtaConsole: a command of two characters, long enough for a   *)
(* half word, a repeated first character and a word that is broken after   *)
(* its end; banks of one cell and a host that sends one good firmware.     *)
(***************************************************************************)
EXTENDS OtaConsole

CONSTANT d

MCData == {d}

MCCmd == <<"U", "P">>
MCLineEnds == {"CR", "LF"}
MCChars == {"U", "P", "CR", "LF", "x"}

MCBatches ==
  { [hdr |-> "SOH", num |-> 1, data |-> d, ok |-> TRUE],
    [hdr |-> "EOT", num |-> 0, data |-> Junk, ok |-> FALSE] }
=============================================================================
