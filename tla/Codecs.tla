-------------------------------- MODULE Codecs --------------------------------
(***************************************************************************)
(* A program that uses one of the codecs of src/runtime.cjs, or another    *)
(* conversion: it writes and reads a BER stream, or does what Conversions  *)
(* has.                                                                    *)
(***************************************************************************)
EXTENDS BerStream, Conversions

codecVars == <<vars, textVars>>

CodecsInit == Init /\ ConversionsInit

UseBer == codec = "ber" /\ Next /\ UNCHANGED textVars

UseText == ConversionsNext /\ UNCHANGED vars

CodecsNext == UseBer \/ UseText

CodecsSpec == CodecsInit /\ [][CodecsNext]_codecVars

===============================================================================
