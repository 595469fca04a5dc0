------------------------------ MODULE LoCodec ------------------------------
(***************************************************************************)
(* The pure parts of liblo next to each other: the bytes of a message, the *)
(* bytes of a SLIP stream, address patterns, URLs, and the enumeration of  *)
(* methods.  They share no state; a behaviour takes one of them through    *)
(* its inputs.                                                             *)
(***************************************************************************)
EXTENDS LoWire, LoSlip, LoPattern, LoUrl, LoEnumeration

vars == <<wireVars, slipVars, patternVars, name, registry>>

WireIdle == msg = lo_message_new /\ ret = 0 /\ asked = <<>> /\ outgoing = <<>> /\ raw = <<>>
SlipIdle == line = <<>>
PatternIdle == tokens = <<>>
UrlIdle == name = <<>>
EnumIdle == registry = <<>>

Init == WireInit /\ SlipInit /\ PatternInit /\ UrlInit /\ EnumInit

WirePart == WireNext /\ UNCHANGED <<slipVars, patternVars, name, registry>>
SlipPart == SlipNext /\ UNCHANGED <<wireVars, patternVars, name, registry>>
PatternPart == PatternNext /\ UNCHANGED <<wireVars, slipVars, name, registry>>
UrlPart == UrlNext /\ UNCHANGED <<wireVars, slipVars, patternVars, registry>>
EnumPart == EnumNext /\ UNCHANGED <<wireVars, slipVars, patternVars, name>>

Next ==
    \/ SlipIdle /\ PatternIdle /\ UrlIdle /\ EnumIdle /\ WirePart
    \/ WireIdle /\ PatternIdle /\ UrlIdle /\ EnumIdle /\ SlipPart
    \/ WireIdle /\ SlipIdle /\ UrlIdle /\ EnumIdle /\ PatternPart
    \/ WireIdle /\ SlipIdle /\ PatternIdle /\ EnumIdle /\ UrlPart
    \/ WireIdle /\ SlipIdle /\ PatternIdle /\ UrlIdle /\ EnumPart

Spec == Init /\ [][Next]_vars
=============================================================================
