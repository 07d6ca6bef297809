------------------------------ MODULE MCViewer ------------------------------
(* A 2x2 panel, turned by 90 degrees, and a desktop of 3x2 pixels that     *)
(* sticks out of it; one input device.                                     *)
EXTENDS Viewer

CONSTANTS kbd

MCScreen  == [w |-> 2, h |-> 2, rot |-> 1]
MCDesktop == [w |-> 3, h |-> 2, rot |-> 0]
MCRects   == {Rect(0, 1, 3, 1), Rect(2, 0, 1, 1)}
MCTwoRects == {Rect(0, 0, 1, 1), Rect(1, 1, 1, 1)}
MCKeyboard == {kbd}
MCFd == {kbd} \cup Connection
=============================================================================
