----------------------------- MODULE MCFraming -----------------------------
(* Model-checking instances of Framing: bodies of one to three bytes whose *)
(* bytes, read as a header by mistake, announce short and long bodies.     *)
EXTENDS Framing

ShortBodies == {<<1>>, <<0, 2>>, <<1, 0, 2>>}
=============================================================================
