------------------------------ MODULE MCPhonon ------------------------------
EXTENDS Phonon
=============================================================================
