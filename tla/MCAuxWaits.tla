----------------------------- MODULE MCAuxWaits -----------------------------
EXTENDS AuxWaits
MCModes == {{}, {"ET"}, {"ONESHOT"}}
=============================================================================
