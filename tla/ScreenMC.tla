------------------------------- MODULE ScreenMC -------------------------------
EXTENDS Screen

FileTexts == {<<>>, <<"a", NL, "b">>}
=============================================================================
