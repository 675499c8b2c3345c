----------------------------- MODULE MCFonExtract -----------------------------
EXTENDS FonExtract
=============================================================================
