------------------------------ MODULE Keyboard -------------------------------
(***************************************************************************)
(* The scancode decoding of os.cpp: set 1 scancodes to the key numbers of  *)
(* the keys API and to characters, with the modifier keys.  A character is *)
(* the pair of its key and whether it is the shifted one, as the two       *)
(* tables ps2codes_sc1 and ps2codes_sc1_upper give different ones.         *)
(***************************************************************************)
EXTENDS Integers

Byte == 0 .. 255

EXTENDED == 224         \* 0xE0, prefix of the keys of the extended block
PAUSE    == 225         \* 0xE1, prefix of the two-byte Pause sequence

(* The classes of ps2codes_sc1: 0 (nothing), \032 (a key without a         *)
(* character) and the printable ones.                                      *)
Printable ==
  (2 .. 13) \cup (16 .. 27) \cup (30 .. 41) \cup {43, 57} \cup (44 .. 53)

Special ==
  {1, 14, 15, 28, 29, 42, 54, 56, 88} \cup (58 .. 70)

(* Characters as numbers: Unshifted and shifted ones never meet. *)
Char(code, shifted) == IF shifted THEN 256 + code ELSE code

Modifier == {"shift", "control", "alt"}

(* What convert_ps2_code does to modifiers.  Caps lock toggles the bit     *)
(* that the shift keys set and clear.                                      *)
ModifiersAfter(code, mods) ==
  CASE code \in {170, 182}    -> mods \ {"shift"}
    [] code = 157             -> mods \ {"control"}
    [] code = 184             -> mods \ {"alt"}
    [] code \in {42, 54}      -> mods \cup {"shift"}
    [] code = 29              -> mods \cup {"control"}
    [] code = 56              -> mods \cup {"alt"}
    [] code = 58              -> IF "shift" \in mods THEN mods \ {"shift"}
                                 ELSE mods \cup {"shift"}
    [] OTHER                  -> mods

(* What convert_ps2_code returns: a character or 0. *)
convert_ps2_code(code, mods) ==
  IF code \in Printable THEN Char(code, "shift" \in mods) ELSE 0

(* The int getkey makes of the bytes of one key. *)
PlainKey(b)         == b
ExtendedKey(b)      == 57344 + b                        \* 0xE000 | b
PauseKey(b1, b2)    == 14680064 + 256 * b1 + b2         \* 0xE00000 | b1 << 8 | b2

(* Mutant: the scancode is kept in a signed char and not masked. *)
ps2toccSigned(code) ==
  IF code % 256 >= 128 THEN (code % 256) - 256 ELSE code % 256

(* Mutant: the prefix of an extended key is not looked at. *)
ps2toccPlain(code) == code % 128

(* The number the key event carries.  The masks of the code are written    *)
(* byte by byte.                                                           *)
ps2tocc(code) ==
  IF (code \div 256) % 256 = 224 THEN (code % 128) + 128
  ELSE IF /\ (code \div 65536) % 256 = 225
          /\ (code \div 256) % 128 = 29
          /\ code % 128 = 69
       THEN 197
       ELSE code % 128

(* The bit that tells a release (break code) from a press. *)
Released(code) == (code \div 128) % 2 = 1
=============================================================================
