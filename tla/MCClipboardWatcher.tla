------------------------- MODULE MCClipboardWatcher --------------------------
(***************************************************************************)
(* Instances of ClipboardWatcher for TLC: one device; the empty text, two  *)
(* ordinary ones, one too big and one that cannot be encoded.              *)
(***************************************************************************)
EXTENDS ClipboardWatcher

CONSTANTS d1, x, y, big, bad

MCDevice == {d1}
MCText == {Empty, x, y, big, bad}
MCBig == {big}
MCUnencodable == {bad}
MCNone == {}
==============================================================================
