-------------------------------- MODULE MCKeys --------------------------------
(* Two letters, three plain keys of which two share a symbol (ENTER and    *)
(* the press of the five-way pad), and a key without a binding.            *)
EXTENDS Keys

CONSTANTS q, w, enter, fwpress, space, menu, KEY_Return, KEY_Space

MCSymbolOf == [k \in {enter, fwpress, space} |-> IF k = space THEN KEY_Space ELSE KEY_Return]
=============================================================================
