---------------------------- MODULE MCInitWizard ----------------------------
EXTENDS InitWizard
=============================================================================
