------------------------------ MODULE MCEeprom ------------------------------
(* Small instances of Eeprom: the constants are in the cfg files.          *)
EXTENDS Eeprom
=============================================================================
