-------------------------------- MODULE Text --------------------------------
(***************************************************************************)
(* What the conversions of names compute: filenameencode (gd_cache.c),     *)
(* str_urlencode_str (str.c) and gdi_strip_path (gd_interface.c), on       *)
(* strings that are sequences of characters.                               *)
(***************************************************************************)
EXTENDS Naturals, Sequences, SequencesExt

(* sprintf("%02X") of the characters the models use that get escaped.      *)
Hex == [c \in {"%", "/", "&", " "} |->
          CASE c = "%" -> <<"2", "5">>
            [] c = "/" -> <<"2", "F">>
            [] c = "&" -> <<"2", "6">>
            [] c = " " -> <<"2", "0">>]

(* Faulty: one of the two characters is forgotten.                         *)
SlashOnly   == {"/"}
PercentOnly == {"%"}

FilenameUnsafe == {"%", "/"}
UrlUnsafe      == {"%", "/", "&", " "}

Escaped(c) == <<"%">> \o Hex[c]

Encode(s, unsafe) ==
  FlattenSeq([j \in DOMAIN s |-> IF s[j] \in unsafe THEN Escaped(s[j]) ELSE <<s[j]>>])

(* What follows the last slash; the kernel's paths begin with one.         *)
StripPath(path) ==
  LET last == Max({j \in DOMAIN path : path[j] = "/"}) IN
  SubSeq(path, last + 1, Len(path))
=============================================================================
