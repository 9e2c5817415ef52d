------------------------------- MODULE MCRender -------------------------------
\* Small texts for TLC.
EXTENDS Render

CONSTANTS x, y, z, a

TextsUpTo(n) == UNION {[1..len -> Tokens] : len \in 0..n}
ShortTexts == TextsUpTo(2)
FewTemplates == {<<x>>, <<x, y>>, <<a>>, <<a, Bad>>}
=============================================================================
