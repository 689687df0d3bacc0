------------------------------- MODULE MCLab -------------------------------
EXTENDS Lab
MCInfra == <<"droplet">>
=============================================================================
