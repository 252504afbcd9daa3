---------------------------- MODULE MCParamBank ----------------------------
(* Parameters with one, two and four bytes and with several elements, those *)
(* that share a cell, a module of one page and one of two.                  *)
EXTENDS ParamBank

MCIds == {"PS_Name", "PS_Model", "Command_Interface", "Buzzer_Volume", "Password",
          "Enable_Onboard_EEPROM", "RS485_Termination"}

MCClasses == {"PI", "IIR_3P3Z"}
=============================================================================
