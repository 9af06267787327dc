---------------------------- MODULE MCGenerator -----------------------------
\* Two developers and up to three scripts, after the repository's 023.
EXTENDS ScriptGenerator

Threecrv     == {<<3, "crv_adapter">>}
=============================================================================
