--------------------------------- MODULE Keys ---------------------------------
(***************************************************************************)
(* handleInput of config.lua: the translation of the events of one input   *)
(* device into the key events of the server.  Letters (and DEL) have two   *)
(* symbols, and `shift` at the time of the event decides which is sent;    *)
(* the other keys have one, which several keys may share (both page keys   *)
(* of a side, ENTER and the press of the five-way pad).                    *)
(*                                                                         *)
(* One connection, from its begin to the moment the program quits.  Events *)
(* of other types than EV_KEY change nothing and are left out.             *)
(***************************************************************************)
EXTENDS FiniteSets

CONSTANTS Letter,    \* keys with a symbol for either state of shift
          Plain,     \* keys with one symbol
          Mute,      \* keys without a binding
          SHIFT, SYM, HOME,
          Symbol,    \* the symbols of plain keys
          SymbolOf   \* which plain key has which

Key == Letter \cup Plain \cup Mute \cup {SHIFT, SYM, HOME}

ASSUME KeyAssumption ==
  /\ Letter \cap (Plain \cup Mute \cup {SHIFT, SYM, HOME}) = {}
  /\ Plain \cap (Mute \cup {SHIFT, SYM, HOME}) = {}
  /\ Mute \cap {SHIFT, SYM, HOME} = {}
  /\ SHIFT # SYM /\ SHIFT # HOME /\ SYM # HOME

ASSUME SymbolAssumption ==
  /\ SymbolOf \in [Plain -> Symbol]
  /\ Symbol \cap (Letter \X BOOLEAN) = {}

VARIABLES shift, sym,  \* the remembered state of the two modifiers
          held,        \* the keys whose press was handled and whose release was not
          down,        \* the symbols the server takes to be pressed
          quit,        \* Quit() was called
          careful      \* history: shift was left alone whenever a letter was held

keysVars == <<shift, sym, held, down, quit, careful>>

(* The remembered modifiers and what the server takes to be pressed.       *)
KeysTypeOK ==
  /\ {shift, sym, quit, careful} \subseteq BOOLEAN
  /\ held \subseteq Key
  /\ down \subseteq Symbol \cup (Letter \X BOOLEAN)

KeysInit ==
  /\ shift = FALSE /\ sym = FALSE /\ quit = FALSE
  /\ held = {} /\ down = {}
  /\ careful = TRUE

-----------------------------------------------------------------------------

(* The symbol a key stands for at this moment. *)
KeySym(k) == IF k \in Letter THEN <<k, shift>> ELSE SymbolOf[k]

SendKeyEventPressOnly(s, pressed) ==  \* mutant: releases are not sent
  down' = IF pressed THEN down \cup {s} ELSE down

SendKeyEvent(s, pressed) == down' = IF pressed THEN down \cup {s} ELSE down \ {s}

EventValue == {"press", "release", "repeat"}

handleInputRepeating(k, value) ==  \* mutant: a repeated key counts as released
  IF k \in Letter \cup Plain
  THEN SendKeyEvent(KeySym(k), value = "press") /\ UNCHANGED <<shift, sym, quit>>
  ELSE /\ shift' = IF k = SHIFT THEN value = "press" ELSE shift
       /\ sym' = IF k = SYM THEN value = "press" ELSE sym
       /\ quit' = (k = HOME)
       /\ UNCHANGED down

handleInput(k, value) ==
  \/ /\ value = "repeat" \/ k \in Mute
     /\ UNCHANGED <<shift, sym, down, quit>>
  \/ /\ value # "repeat" /\ k = SYM
     /\ sym' = (value = "press")
     /\ UNCHANGED <<shift, down, quit>>
  \/ /\ value # "repeat" /\ k = SHIFT
     /\ shift' = (value = "press")
     /\ UNCHANGED <<sym, down, quit>>
  \/ /\ value # "repeat" /\ k \in Letter \cup Plain
     /\ SendKeyEvent(KeySym(k), value = "press")
     /\ UNCHANGED <<shift, sym, quit>>
  \/ /\ value # "repeat" /\ k = HOME
     /\ quit' = TRUE
     /\ UNCHANGED <<shift, sym, down>>

(* What the fingers do.  A release may come without a press: the key was   *)
(* down when the program took over the device.                             *)
Typed(k, value) ==
  /\ careful' = (careful /\ (k = SHIFT => held \cap Letter = {}))
  /\ \/ value = "press" /\ k \notin held /\ held' = held \cup {k}
     \/ value = "release" /\ held' = held \ {k}
     \/ value = "repeat" /\ k \in held /\ UNCHANGED held

KeysNext == ~quit /\ \E k \in Key, value \in EventValue : Typed(k, value) /\ handleInput(k, value)

KeysSpec == KeysInit /\ [][KeysNext]_keysVars

-----------------------------------------------------------------------------
(* The symbols of the keys that are held. *)
Meant == {KeySym(k) : k \in held \cap (Letter \cup Plain)}

(* As long as shift was not changed while a letter is held, the server      *)
(* never takes a key to be pressed that is not: none gets stuck.           *)
NothingStuck == careful => down \subseteq Meant

(* Whatever is done with shift, only letters can get stuck: a symbol of a  *)
(* plain key is down only while one of its keys is held.                   *)
PlainNeverStuck == down \cap Symbol \subseteq {SymbolOf[k] : k \in held \cap Plain}

Sole(k) == \A other \in Plain \ {k} : SymbolOf[other] # SymbolOf[k]

(* A key that is held, and that shares its symbol with no other, is down   *)
(* for the server, for as long as it is held.                              *)
HeldIsDown ==
  /\ \A k \in held \cap Plain : Sole(k) => SymbolOf[k] \in down
  /\ careful => \A k \in held \cap Letter : KeySym(k) \in down

(* config.lua:18-20: "pressed" tells whether the key was pressed or        *)
(* released.  When every key has been released, the server was told so.    *)
ReleasesReachServer == held = {} => down = {}
=============================================================================
